----------------------------- MODULE RespWriter -----------------------------
(***************************************************************************)
(* The writing side of a redis connection: the buffered writer             *)
(* (utils/resparse/bufio2/bufio.go), the encoder on top of it              *)
(* (utils/resparse/credis/encoder.go) and the FlushEncoder of conn.go that *)
(* its user drives.                                                        *)
(*                                                                         *)
(* An encoder turns a value into calls of the writer: todo holds the calls *)
(* to come and the values whose calls are not yet known, so that a nested  *)
(* value is encoded where encodeArray recurs.                              *)
(***************************************************************************)
EXTENDS Resp

CONSTANTS
    M,            \* len(b.buf)
    MaxBuffered,  \* of the FlushEncoder
    MayBreak      \* whether a write may fail

ASSUME WriterAssumption ==
    /\ M \in Nat \ {0}
    /\ MaxBuffered \in Nat
    /\ MayBreak \in BOOLEAN

VARIABLES
    pend,       \* the values the user is going to encode
    todo,       \* calls of the writer and values to encode
    wbuf,       \* b.buf[:b.wpos]
    werr,       \* e.Err
    nbuffered,  \* p.nbuffered
    sent        \* HISTORY: the values handed to Encode

wvars == <<pend, todo, wbuf, werr, nbuffered, sent>>

WriterInit ==
    /\ todo = <<>> /\ wbuf = <<>> /\ werr = "none"
    /\ nbuffered = 0 /\ sent = <<>>

Available == M - Len(wbuf)

\* conn.Write: all of b, or some of it and an error, which stays.
WriteOk(b) == wire' = wire \o b /\ UNCHANGED werr
WriteError(b) ==
    /\ MayBreak
    /\ \E k \in 0..(Len(b) - 1) : wire' = wire \o SubSeq(b, 1, k)
    /\ werr' = "io"

-----------------------------------------------------------------------------
(* Encoding *)

\* The user encodes the next value; an encoder that has failed refuses.
Encode ==
    /\ pend # <<>> /\ todo = <<>> /\ werr = "none" /\ ~closed
    /\ todo' = Calls(Head(pend))
    /\ pend' = Tail(pend)
    /\ sent' = Append(sent, Head(pend))
    /\ UNCHANGED <<wbuf, werr, nbuffered, wire>>

EncodeResp ==
    /\ todo # <<>> /\ Head(todo).op = "encodeResp"
    /\ todo' = Calls(Head(todo).r) \o Tail(todo)
    /\ UNCHANGED <<pend, wbuf, werr, nbuffered, sent, wire>>

BadType ==
    /\ todo # <<>> /\ Head(todo).op = "badType"
    /\ werr' = "type"
    /\ todo' = <<>>
    /\ UNCHANGED <<pend, wbuf, nbuffered, sent, wire>>

\* The rest of the calls, and the count of the FlushEncoder once all are made.
CallDone ==
    /\ todo' = Tail(todo)
    /\ nbuffered' = IF Tail(todo) = <<>> THEN nbuffered + 1 ELSE nbuffered

-----------------------------------------------------------------------------
(* The buffered writer *)

\* The bytes fit.
Put ==
    /\ todo # <<>> /\ Head(todo).op \in Writes /\ werr = "none"
    /\ Len(Head(todo).b) <= Available
    /\ wbuf' = wbuf \o Head(todo).b
    /\ CallDone
    /\ UNCHANGED <<pend, werr, sent, wire>>

\* Write, with an empty buffer: the bytes do not go through it.
WriteDirect ==
    LET b == Head(todo).b
    IN  /\ todo # <<>> /\ Head(todo).op = "Write" /\ werr = "none"
        /\ Len(b) > Available /\ wbuf = <<>>
        /\ \/ WriteOk(b) /\ CallDone
           \/ WriteError(b) /\ todo' = <<>> /\ UNCHANGED nbuffered
        /\ UNCHANGED <<pend, wbuf, sent>>

\* Otherwise fill the buffer and flush it. WriteByte, which flushes a full
\* buffer before it stores the byte, is the same with a part of no bytes.
WriteFull ==
    LET b == Head(todo).b
        full == wbuf \o SubSeq(b, 1, Available)
    IN  /\ todo # <<>> /\ Head(todo).op \in Writes /\ werr = "none"
        /\ Len(b) > Available /\ (Head(todo).op = "Write" => wbuf # <<>>)
        /\ \/ /\ WriteOk(full)
              /\ wbuf' = <<>>
              /\ todo' = [todo EXCEPT ![1].b = SubSeq(b, Available + 1, Len(b))]
           \/ /\ WriteError(full)
              /\ wbuf' = full
              /\ todo' = <<>>
        /\ UNCHANGED <<pend, nbuffered, sent>>

\* NeedFlush. Whether the interval since the last write has passed is not
\* decided here.
NeedFlush(elapsed) == nbuffered # 0 /\ (MaxBuffered < nbuffered \/ elapsed)

\* Flush of the FlushEncoder, Encoder.Flush and flush
Flush(force, elapsed) ==
    /\ todo = <<>> /\ werr = "none" /\ ~closed
    /\ force \/ NeedFlush(elapsed)
    /\ wbuf # <<>> \/ nbuffered # 0
    /\ \/ /\ WriteOk(wbuf)
          /\ wbuf' = <<>>
          /\ nbuffered' = 0
       \/ /\ wbuf # <<>> /\ WriteError(wbuf)
          /\ UNCHANGED <<wbuf, nbuffered>>
    /\ UNCHANGED <<pend, todo, sent>>

LastFlush == pend = <<>> /\ Flush(TRUE, FALSE)

\* The user is done, or has met an error, and closes the connection.
Close ==
    /\ ~closed /\ todo = <<>>
    /\ werr # "none" \/ (pend = <<>> /\ nbuffered = 0)
    /\ closed' = TRUE
    /\ UNCHANGED <<wvars, wire>>

\* A step of the goroutine that writes.
WriterStep ==
    Encode \/ EncodeResp \/ BadType \/ Put \/ WriteDirect \/ WriteFull

WriterNext ==
    \/ WriterStep /\ UNCHANGED closed
    \/ \E e \in BOOLEAN : Flush(FALSE, e) /\ UNCHANGED closed
    \/ LastFlush /\ UNCHANGED closed
    \/ Close
=============================================================================
