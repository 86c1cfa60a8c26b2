----------------------------- MODULE RespStream -----------------------------
(***************************************************************************)
(* An encoder and a decoder joined by a stream of bytes, as the buffered   *)
(* readers and writers promise it to them: what the encoder writes is at   *)
(* the end of the stream at once, and what the decoder needs it takes from *)
(* the front in one step, as soon as it is there. There are no buffers, no *)
(* chunks and no flushes, so nothing can depend on them.                   *)
(*                                                                         *)
(* The stream may end early: the encoder fails and the bytes at the end    *)
(* that it had written are lost, or the decoder does and the rest of the   *)
(* stream is abandoned.                                                    *)
(***************************************************************************)
EXTENDS Resp

CONSTANTS
    MaxLine,          \* the longest line of a number
    MaxBulkBytesLen,
    MaxArrayLen,
    MayFail,          \* whether a read may fail
    MayBreak          \* whether a write may fail

VARIABLES
    multi,                       \* the caller uses DecodeMultiBulk
    st, typ, frames, ret, err,   \* the decoder, as in RespReader
    need,                        \* the bytes of a bulk, its end included
    out, dropped,
    pend, todo, werr, sent       \* the encoder, as in RespWriter

decoder == <<st, typ, frames, ret, err, need, out, dropped>>
encoder == <<pend, todo, werr, sent>>
vars == <<wire, closed, multi, decoder, encoder>>

Init ==
    /\ closed \/ wire = <<>>
    /\ st = "idle" /\ typ = Nil /\ frames = <<>> /\ ret = Nil /\ err = "none"
    /\ need = 0 /\ out = <<>> /\ dropped = FALSE
    /\ todo = <<>> /\ werr = "none" /\ sent = <<>>

-----------------------------------------------------------------------------
(* The encoder *)

\* b goes to the end of the stream, if there is someone to read it.
Write(b) == wire' = IF err = "none" THEN wire \o b ELSE <<>>

Encode ==
    /\ pend # <<>> /\ todo = <<>> /\ werr = "none" /\ ~closed
    /\ todo' = Calls(Head(pend))
    /\ pend' = Tail(pend)
    /\ sent' = Append(sent, Head(pend))
    /\ UNCHANGED <<wire, closed, werr>>

EncodeResp ==
    /\ todo # <<>> /\ Head(todo).op = "encodeResp"
    /\ todo' = Calls(Head(todo).r) \o Tail(todo)
    /\ UNCHANGED <<wire, closed, pend, werr, sent>>

\* The first k bytes of a call are written; the call is made with the last.
WriteSome ==
    LET b == Head(todo).b
        rest(k) == [todo EXCEPT ![1].b = SubSeq(b, k + 1, Len(b))]
    IN  /\ todo # <<>> /\ Head(todo).op \in Writes /\ werr = "none"
        /\ \E k \in 0..Len(b) :
              /\ Write(SubSeq(b, 1, k))
              /\ todo' = IF k = Len(b) THEN Tail(todo) ELSE rest(k)
        /\ UNCHANGED <<closed, pend, werr, sent>>

\* The encoder fails: of what it wrote, the call under way included, some
\* bytes at the end do not arrive.
Break ==
    LET b == IF todo # <<>> /\ Head(todo).op \in Writes THEN Head(todo).b ELSE <<>>
    IN  /\ werr = "none" /\ ~closed
        /\ \/ werr' = "io" /\ MayBreak
           \/ werr' = "type" /\ todo # <<>> /\ Head(todo).op = "badType"
        /\ IF err = "none" THEN IsPrefix(wire', wire \o b) ELSE wire' = <<>>
        /\ todo' = <<>>
        /\ UNCHANGED <<closed, pend, sent>>

Close ==
    /\ ~closed /\ todo = <<>>
    /\ werr # "none" \/ pend = <<>>
    /\ closed' = TRUE
    /\ UNCHANGED <<wire, encoder>>

EncoderNext ==
    /\ Encode \/ EncodeResp \/ WriteSome \/ Break \/ Close
    /\ UNCHANGED <<multi, decoder>>

-----------------------------------------------------------------------------
(* The decoder *)

\* The first k bytes leave the stream.
Take(k) == wire' = SubSeq(wire, k + 1, Len(wire))

Fail(e) ==
    /\ err' = e
    /\ wire' = <<>>
    /\ st' = "idle" /\ typ' = Nil /\ need' = 0 /\ frames' = <<>> /\ ret' = Nil
    /\ UNCHANGED out

Enter(s) == st' = s /\ UNCHANGED <<need, frames, ret, err, out>>

Return(v) ==
    /\ st' = "ret" /\ ret' = v
    /\ typ' = Nil /\ need' = 0
    /\ UNCHANGED <<frames, err, out>>

Decode ==
    /\ st = "idle" /\ err = "none"
    /\ Enter(IF multi THEN "peek" ELSE "type")
    /\ UNCHANGED <<wire, typ, dropped>>

PeekByte ==
    /\ st = "peek" /\ wire # <<>>
    /\ IF wire[1] = "*" THEN Take(1) /\ Enter("multilen") ELSE Take(0) /\ Enter("inline")
    /\ UNCHANGED <<typ, dropped>>

ReadType ==
    /\ st = "type" /\ wire # <<>>
    /\ \/ wire[1] \in TextTypes /\ Take(1) /\ Enter("text") /\ typ' = wire[1]
       \/ wire[1] = "$" /\ Take(1) /\ Enter("bulklen") /\ typ' = "$"
       \/ wire[1] = "*" /\ Take(1) /\ Enter("arraylen") /\ typ' = "*"
       \/ wire[1] \notin TextTypes \cup {"$", "*"} /\ Fail("bad")
    /\ UNCHANGED dropped

TextValue(b) == Text(typ, b)

InlineValue(b) ==
    IF b = <<>> THEN Array(Nil) ELSE Array([k \in DOMAIN Words(b) |-> Bulk(Words(b)[k])])

\* A line of text of any length.
ReadText ==
    LET k == FirstLF(wire)
        line == SubSeq(wire, 1, k)
        b == Chomp(line)
        bad == ~EndsInCRLF(line) \/ (st = "inline" /\ b # <<>> /\ Words(b) = <<>>)
    IN  /\ st \in {"text", "inline"} /\ k > 0
        /\ IF bad THEN Fail("bad")
           ELSE Take(k) /\ Return(IF st = "text" THEN TextValue(b) ELSE InlineValue(b))
        /\ UNCHANGED dropped

BulkHeader(n) ==
    \/ n = -1 /\ Return(Bulk(Nil))
    \/ /\ n \in 0..MaxBulkBytesLen
       /\ st' = "body" /\ need' = n + 2
       /\ UNCHANGED <<typ, frames, ret, err, out>>

OpenArray(n, m) ==
    /\ frames' = Append(frames, [n |-> n, got |-> <<>>, multi |-> m])
    /\ st' = "type" /\ typ' = Nil
    /\ UNCHANGED <<need, ret, err, out>>

ArrayHeader(n) ==
    \/ n = -1 /\ Return(Array(Nil))
    \/ n = 0 /\ Return(Array(<<>>))
    \/ n \in 1..MaxArrayLen /\ OpenArray(n, FALSE)

\* The lengths that an array or bulk may have.
LengthOk(n) ==
    CASE st = "bulklen" -> n \in -1..MaxBulkBytesLen
      [] st = "arraylen" -> n \in -1..MaxArrayLen
      [] st = "multilen" -> n \in 1..MaxArrayLen

\* The line of a number.
ReadInt ==
    LET k == FirstLF(wire)
        line == SubSeq(wire, 1, k)
        n == Btoi64(Chomp(line))
        bad == ~EndsInCRLF(line) \/ ~IsNumber(Chomp(line)) \/ ~LengthOk(n)
    IN  /\ st \in {"bulklen", "arraylen", "multilen"}
        /\ IF k \in 1..MaxLine
           THEN \/ bad /\ Fail("bad")
                \/ /\ ~bad /\ Take(k)
                   /\ \/ st = "bulklen" /\ BulkHeader(n)
                      \/ st = "arraylen" /\ ArrayHeader(n)
                      \/ st = "multilen" /\ OpenArray(n, TRUE)
           ELSE Len(wire) >= MaxLine /\ Fail("bad")
        /\ UNCHANGED dropped

\* The bytes of a bulk and their end.
ReadBody ==
    LET b == SubSeq(wire, 1, need)
    IN  /\ st = "body" /\ Len(wire) >= need
        /\ IF SubSeq(b, Len(b) - 1, Len(b)) = CRLF
           THEN Take(need) /\ Return(Bulk(Chomp(b)))
           ELSE Fail("bad")
        /\ UNCHANGED dropped

\* A value is complete: it goes to the caller, or to the array it belongs to.
Deliver ==
    LET f == Last(frames)
        got == Append(f.got, ret)
    IN  /\ st = "ret"
        /\ \/ /\ frames = <<>>
              /\ out' = Append(out, ret)
              /\ st' = "idle" /\ ret' = Nil
              /\ UNCHANGED <<wire, typ, need, frames, err>>
           \/ frames # <<>> /\ f.multi /\ ret.type # "$" /\ Fail("bad")
           \/ /\ frames # <<>> /\ ~(f.multi /\ ret.type # "$")
              /\ IF Len(got) = f.n
                 THEN frames' = Front(frames) /\ ret' = Array(got) /\ st' = "ret"
                 ELSE /\ frames' = Append(Front(frames), [f EXCEPT !.got = got])
                      /\ ret' = Nil /\ st' = "type"
              /\ UNCHANGED <<wire, typ, need, err, out>>
        /\ UNCHANGED dropped

\* The stream does not hold what the decoder is about to read.
Incomplete ==
    CASE st \in {"peek", "type"} -> wire = <<>>
      [] st \in {"text", "inline"} -> FirstLF(wire) = 0
      [] st \in {"bulklen", "arraylen", "multilen"} ->
            FirstLF(wire) = 0 /\ Len(wire) < MaxLine
      [] st = "body" -> Len(wire) < need

Reading == {"peek", "type", "text", "inline", "bulklen", "arraylen", "multilen", "body"}

\* The end of the stream is an error of the decoder only if the stream ends
\* before what it reads; but a connection that gives its last bytes together
\* with the end of the stream may have them dropped.
Ends ==
    /\ closed /\ st \in Reading
    /\ \/ Incomplete /\ UNCHANGED dropped
       \/ wire # <<>> /\ dropped' = TRUE
    /\ Fail("eof")

\* The connection fails.
ReadFails == MayFail /\ st \in Reading /\ Fail("io") /\ UNCHANGED dropped

DecoderNext ==
    /\ \/ Decode \/ PeekByte \/ ReadType \/ ReadText \/ ReadInt \/ ReadBody \/ Deliver
       \/ Ends \/ ReadFails
    /\ UNCHANGED <<closed, multi, encoder>>

Next == EncoderNext \/ DecoderNext

Spec == Init /\ [][Next]_vars
=============================================================================
