------------------------------ MODULE RespCodec -----------------------------
(***************************************************************************)
(* A redis connection with an encoder at one end and a decoder at the      *)
(* other (RespWriter and RespReader, which share the bytes under way).     *)
(*                                                                         *)
(* A behaviour has a program, the values a correct peer encodes, or input, *)
(* the raw bytes of a peer that may not follow the protocol.               *)
(***************************************************************************)
EXTENDS RespReader, RespWriter

CONSTANTS
    Byte,           \* the bytes
    Values,         \* the values that are encoded, and those within them
    Programs,       \* sequences of values that are encoded
    MultiPrograms,  \* the same for a decoder used with DecodeMultiBulk
    Inputs,         \* raw byte streams
    MultiInputs     \* the same for a decoder used with DecodeMultiBulk

\* A text has bytes, and the elements of an array are values; a bulk and an
\* array may be nil.
ASSUME CodecAssumption ==
    /\ {CR, LF, Space, "-", "+", ":", "$", "*"} \cup {Digits[i] : i \in 1..10} \subseteq Byte
    /\ \A v \in Values :
          /\ v = [type |-> v.type, val |-> v.val, arr |-> v.arr]
          /\ v.type \in Byte
          /\ v.val = Nil \/ v.val \in Seq(Byte)
          /\ v.arr = Nil \/ v.arr \in Seq(Values)
          /\ v.type \in TextTypes => v.val # Nil
    /\ \A p \in Programs \cup MultiPrograms : p \in Seq(Values)
    /\ \A i \in Inputs \cup MultiInputs : i \in Seq(Byte)

VARIABLES input     \* the raw bytes, Nil if the peer is an encoder

vars == <<wire, closed, multi, input, rvars, wvars>>

Init ==
    /\ ReaderInit /\ WriterInit
    /\ multi \in BOOLEAN
    /\ \/ /\ input = Nil /\ wire = <<>> /\ closed = FALSE
          /\ pend \in IF multi THEN MultiPrograms ELSE Programs
       \/ /\ input \in IF multi THEN MultiInputs ELSE Inputs
          /\ wire = input /\ closed = TRUE
          /\ pend = <<>>

Next ==
    /\ \/ ReaderNext /\ UNCHANGED <<closed, wvars>>
       \/ WriterNext /\ UNCHANGED rvars
    /\ UNCHANGED <<multi, input>>

Spec == Init /\ [][Next]_vars

\* Both goroutines run, reads of bytes that are there return, and the user of
\* the encoder flushes what it has encoded.
FairSpec ==
    /\ Spec
    /\ WF_vars(Proceed /\ UNCHANGED <<closed, wvars, multi, input>>)
    /\ WF_vars(WriterStep /\ UNCHANGED <<closed, rvars, multi, input>>)
    /\ WF_vars(LastFlush /\ UNCHANGED <<closed, rvars, multi, input>>)

-----------------------------------------------------------------------------
(* Properties *)

Places == {"idle", "peek", "type", "text", "inline", "bulklen", "arraylen", "multilen",
           "body", "ret"}

\* What the encoder has to do.
Tasks ==
    [op : Writes, b : Seq(Byte)] \cup [op : {"encodeResp"}, r : Values] \cup [op : {"badType"}]

\* The bytes of the bulk that the decoder reads.
BodyLen == IF st = "body" THEN Len(acc) + need ELSE 0

ReaderTypeOK ==
    /\ buf \in Seq(Byte) /\ Len(buf) <= N /\ rpos \in 0..Len(buf)
    /\ rerr \in {"none", "eof", "io"} /\ err \in {"none", "eof", "io", "bad"}
    /\ st \in Places
    /\ acc \in Seq(Byte) /\ need \in Nat /\ BodyLen <= MaxBulkBytesLen + 2
    /\ \A i \in DOMAIN frames :
          frames[i].n \in 1..MaxArrayLen /\ Len(frames[i].got) < frames[i].n

WriterTypeOK ==
    /\ pend \in Seq(Values) /\ todo \in Seq(Tasks) /\ sent \in Seq(Values)
    /\ wbuf \in Seq(Byte) /\ Len(wbuf) <= M
    /\ werr \in {"none", "io", "type"} /\ nbuffered \in Nat

\* The buffers and their indices stay within bounds, and what a peer may make
\* the decoder allocate within its limits.
TypeOK ==
    /\ wire \in Seq(Byte) /\ closed \in BOOLEAN /\ multi \in BOOLEAN
    /\ ReaderTypeOK /\ WriterTypeOK

\* The bytes that the encoder has written and the decoder has not yet used, of
\* both buffers and of those under way. A decoder that has failed abandons
\* them; of an encoder that has, those left in its buffer are lost.
Unread ==
    IF err # "none" THEN <<>>
    ELSE acc \o Window \o wire \o (IF werr = "none" THEN wbuf ELSE <<>>)

Stream == INSTANCE RespStream WITH MaxLine <- N, wire <- Unread, need <- BodyLen

\* The buffers are transparent. Whatever their sizes, however the bytes are cut
\* into reads and writes, and whenever the encoder is flushed, encoder and
\* decoder behave as if they were joined by a plain stream: no byte is lost,
\* read twice or out of order, and no error but those of the connection
\* depends on where a chunk ends.
RefinesStream == Stream!Spec

\* Whatever is encoded and flushed is decoded, be the connection closed
\* afterwards or not: no value waits in a buffer for bytes that follow it. The
\* exceptions are a failure of the connection and the bytes that fill drops
\* when they come with the end of the stream.
FlushedArrives ==
    input = Nil /\ pend = <<>> /\ todo = <<>> /\ wbuf = <<>> /\ werr = "none"
        ~> out = sent \/ rerr = "io" \/ dropped
=============================================================================
