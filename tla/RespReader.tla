----------------------------- MODULE RespReader -----------------------------
(***************************************************************************)
(* The reading side of a redis connection: the buffered reader             *)
(* (utils/resparse/bufio2/bufio.go) and the decoder on top of it           *)
(* (utils/resparse/credis/decoder.go).                                     *)
(*                                                                         *)
(* The bytes arrive in chunks the network chooses. Every read of the       *)
(* connection is a step; what the decoder does with bytes it has is a step *)
(* for each value of type st. Values nest, and the calls of decodeResp     *)
(* that have not returned are the frames of a stack.                       *)
(***************************************************************************)
EXTENDS Resp

CONSTANTS
    N,                \* len(b.buf)
    MaxBulkBytesLen,
    MaxArrayLen,
    MayFail           \* whether a read may fail

ASSUME ReaderAssumption ==
    /\ N \in Nat \ {0}
    /\ MaxBulkBytesLen \in Nat /\ MaxArrayLen \in Nat
    /\ MayFail \in BOOLEAN

VARIABLES
    multi,    \* the caller uses DecodeMultiBulk, not Decode
    buf,      \* b.buf[:b.wpos]
    rpos,     \* b.rpos
    rerr,     \* b.err
    st,       \* what the decoder reads
    typ,      \* the type byte it has read
    acc,      \* the bytes ReadBytes or ReadFull has collected
    need,     \* the bytes ReadFull still wants
    frames,   \* arrays being decoded, innermost last
    ret,      \* the value that decodeResp returns
    err,      \* d.Err
    out,      \* HISTORY: the values returned to the caller
    dropped   \* HISTORY: bytes that came together with the end of the stream
              \* were dropped

rvars == <<buf, rpos, rerr, st, typ, acc, need, frames, ret, err, out, dropped>>
decoderVars == <<st, typ, acc, need, frames, ret, err, out>>

ReaderInit ==
    /\ buf = <<>> /\ rpos = 0 /\ rerr = "none"
    /\ st = "idle" /\ typ = Nil /\ acc = <<>> /\ need = 0
    /\ frames = <<>> /\ ret = Nil /\ err = "none"
    /\ out = <<>> /\ dropped = FALSE

-----------------------------------------------------------------------------
(* The buffered reader *)

\* b.buf[b.rpos:b.wpos]
Window == SubSeq(buf, rpos + 1, Len(buf))

Buffered == Len(buf) - rpos

\* bytes.IndexByte of the window, from 1, and 0 if it has no newline.
IndexByte == FirstLF(Window)

Lines == {"text", "inline", "bulklen", "arraylen", "multilen"}

\* The decoder needs bytes and asks fill for them. ReadFull bypasses the
\* buffer when what it wants does not fit.
NeedsFill ==
    /\ rerr = "none"
    /\ \/ st \in {"peek", "type"} /\ Buffered = 0
       \/ st \in Lines /\ IndexByte = 0 /\ Buffered < N
       \/ st = "body" /\ Buffered = 0 /\ need > 0 /\ need < N

NeedsDirect == rerr = "none" /\ st = "body" /\ Buffered = 0 /\ need >= N

\* An error ends the calls on the stack; Decode keeps it.
Fail(e) ==
    /\ err' = e
    /\ st' = "idle" /\ typ' = Nil /\ acc' = <<>> /\ need' = 0
    /\ frames' = <<>> /\ ret' = Nil
    /\ UNCHANGED out

\* Mutant: the unread bytes are not moved to the front before the read.
FillForgets(n) ==
    /\ NeedsFill
    /\ n <= Len(wire) /\ n <= N - Buffered
    /\ buf' = SubSeq(wire, 1, n)
    /\ rpos' = 0
    /\ wire' = SubSeq(wire, n + 1, Len(wire))
    /\ UNCHANGED <<rerr, decoderVars, dropped>>

\* fill: move the window to the front, then read n bytes behind it.
Fill(n) ==
    /\ NeedsFill
    /\ n <= Len(wire) /\ n <= N - Buffered
    /\ buf' = Window \o SubSeq(wire, 1, n)
    /\ rpos' = 0
    /\ wire' = SubSeq(wire, n + 1, Len(wire))
    /\ UNCHANGED <<rerr, decoderVars, dropped>>

\* Read, with a p that is no smaller than the buffer.
DirectRead(n) ==
    /\ NeedsDirect
    /\ n <= Len(wire) /\ n <= need
    /\ acc' = acc \o SubSeq(wire, 1, n)
    /\ need' = need - n
    /\ wire' = SubSeq(wire, n + 1, Len(wire))
    /\ UNCHANGED <<buf, rpos, rerr, st, typ, frames, ret, err, out, dropped>>

\* The read fails: the stream is at its end, or the connection had an error,
\* a timeout or no progress.
ReadFails(e) ==
    /\ NeedsFill \/ NeedsDirect
    /\ \/ e = "eof" /\ closed /\ wire = <<>>
       \/ e = "io" /\ MayFail
    /\ buf' = IF NeedsFill THEN Window ELSE buf
    /\ rpos' = IF NeedsFill THEN 0 ELSE rpos
    /\ rerr' = e
    /\ Fail(e)
    /\ UNCHANGED <<wire, dropped>>

\* The connection may return its last bytes together with the end of the
\* stream, as crypto/tls does when an alert follows them. fill drops such
\* bytes; a direct read keeps them, and is complete if they are enough.
ReadsLast ==
    /\ closed /\ wire # <<>>
    /\ rerr' = "eof"
    /\ wire' = <<>>
    /\ \/ /\ NeedsFill /\ Len(wire) <= N - Buffered
          /\ buf' = Window /\ rpos' = 0
          /\ dropped' = TRUE
          /\ Fail("eof")
       \/ /\ NeedsDirect /\ Len(wire) <= need
          /\ IF Len(wire) < need
             THEN Fail("eof")
             ELSE /\ acc' = acc \o wire
                  /\ need' = 0
                  /\ UNCHANGED <<st, typ, frames, ret, err, out>>
          /\ UNCHANGED <<buf, rpos, dropped>>

-----------------------------------------------------------------------------
(* Decode and DecodeMultiBulk *)

\* The decoder goes on to read s.
Enter(s) ==
    /\ st' = s
    /\ UNCHANGED <<acc, need, frames, ret, err, out>>

\* A value is decoded; the calls it was decoded for are on the stack.
Return(v) ==
    /\ st' = "ret" /\ ret' = v
    /\ typ' = Nil /\ acc' = <<>> /\ need' = 0
    /\ UNCHANGED <<frames, err, out>>

\* Mutant: a failed decoder is used again.
DecodeAgain ==
    /\ st = "idle"
    /\ err' = "none"
    /\ st' = IF multi THEN "peek" ELSE "type"
    /\ UNCHANGED <<buf, rpos, rerr, typ, acc, need, frames, ret, out, dropped, wire>>

\* The caller decodes the next value; a decoder that has failed refuses.
Decode ==
    /\ st = "idle" /\ err = "none"
    /\ Enter(IF multi THEN "peek" ELSE "type")
    /\ UNCHANGED <<buf, rpos, rerr, typ, dropped, wire>>

\* ReadByte and PeekByte on a reader that has failed.
ReaderFailed ==
    /\ st \in {"peek", "type"} /\ rerr # "none"
    /\ Fail(rerr)
    /\ UNCHANGED <<buf, rpos, rerr, dropped, wire>>

\* decodeMultiBulk: the first byte tells an array from a plain line, of which
\* it is a part.
PeekByte ==
    /\ st = "peek" /\ rerr = "none" /\ Buffered > 0
    /\ IF buf[rpos + 1] = "*"
       THEN rpos' = rpos + 1 /\ Enter("multilen")
       ELSE Enter("inline") /\ UNCHANGED rpos
    /\ UNCHANGED <<buf, rerr, typ, dropped, wire>>

\* decodeResp
ReadType ==
    LET c == buf[rpos + 1]
    IN  /\ st = "type" /\ rerr = "none" /\ Buffered > 0
        /\ rpos' = rpos + 1
        /\ CASE c \in TextTypes -> Enter("text") /\ typ' = c
             [] c = "$" -> Enter("bulklen") /\ typ' = c
             [] c = "*" -> Enter("arraylen") /\ typ' = c
             [] OTHER -> Fail("bad")
        /\ UNCHANGED <<buf, rerr, dropped, wire>>

DecodeText(b) == Return(Text(typ, b))

DecodeInline(b) ==
    CASE b = <<>> -> Return(Array(Nil))
      [] b # <<>> /\ Words(b) = <<>> -> Fail("bad")
      [] OTHER -> Return(Array([k \in DOMAIN Words(b) |-> Bulk(Words(b)[k])]))

\* ReadBytes, for decodeTextBytes: a line may be longer than the buffer.
ReadText ==
    /\ st \in {"text", "inline"} /\ rerr = "none"
    /\ IF IndexByte > 0
       THEN LET line == acc \o SubSeq(buf, rpos + 1, rpos + IndexByte)
            IN  /\ rpos' = rpos + IndexByte
                /\ CASE ~EndsInCRLF(line) -> Fail("bad")
                     [] EndsInCRLF(line) /\ st = "text" -> DecodeText(Chomp(line))
                     [] OTHER -> DecodeInline(Chomp(line))
       ELSE /\ Buffered = N
            /\ acc' = acc \o Window
            /\ rpos' = Len(buf)
            /\ UNCHANGED <<st, typ, need, frames, ret, err, out>>
    /\ UNCHANGED <<buf, rerr, dropped, wire>>

\* The array of a header; it has a frame until its elements are there.
OpenArray(n, m) ==
    /\ frames' = Append(frames, [n |-> n, got |-> <<>>, multi |-> m])
    /\ st' = "type" /\ typ' = Nil
    /\ UNCHANGED <<acc, need, ret, err, out>>

\* decodeBulkBytes, after its length
BulkHeader(n) ==
    CASE n < -1 \/ n > MaxBulkBytesLen -> Fail("bad")
      [] n = -1 -> Return(Bulk(Nil))
      [] OTHER -> st' = "body" /\ need' = n + 2
                  /\ UNCHANGED <<typ, acc, frames, ret, err, out>>

\* decodeArray, after its length
ArrayHeader(n) ==
    CASE n < -1 \/ n > MaxArrayLen -> Fail("bad")
      [] n = -1 -> Return(Array(Nil))
      [] n = 0 -> Return(Array(<<>>))
      [] OTHER -> OpenArray(n, FALSE)

MultiHeader(n) ==
    IF n <= 0 \/ n > MaxArrayLen THEN Fail("bad") ELSE OpenArray(n, TRUE)

\* decodeInt reads its line with ReadSlice: it has to fit the buffer.
ReadInt ==
    /\ st \in {"bulklen", "arraylen", "multilen"} /\ rerr = "none"
    /\ IF IndexByte > 0
       THEN LET line == SubSeq(buf, rpos + 1, rpos + IndexByte)
                n == Btoi64(Chomp(line))
            IN  /\ rpos' = rpos + IndexByte
                /\ IF ~EndsInCRLF(line) \/ ~IsNumber(Chomp(line))
                   THEN Fail("bad")
                   ELSE CASE st = "bulklen" -> BulkHeader(n)
                          [] st = "arraylen" -> ArrayHeader(n)
                          [] st = "multilen" -> MultiHeader(n)
       ELSE /\ Buffered = N
            /\ rpos' = Len(buf)
            /\ Fail("bad")
    /\ UNCHANGED <<buf, rerr, dropped, wire>>

\* Mutant: the bytes are taken only once all of them are in the buffer.
CopyBodyWhole ==
    /\ st = "body" /\ need > 0 /\ Buffered >= need
    /\ acc' = acc \o SubSeq(buf, rpos + 1, rpos + need)
    /\ need' = 0
    /\ rpos' = rpos + need
    /\ UNCHANGED <<buf, rerr, st, typ, frames, ret, err, out, dropped, wire>>

\* Read, from the buffer
CopyBody ==
    LET n == IF need < Buffered THEN need ELSE Buffered
    IN  /\ st = "body" /\ need > 0 /\ Buffered > 0
        /\ acc' = acc \o SubSeq(buf, rpos + 1, rpos + n)
        /\ need' = need - n
        /\ rpos' = rpos + n
        /\ UNCHANGED <<buf, rerr, st, typ, frames, ret, err, out, dropped, wire>>

\* decodeBulkBytes, after its bytes
BodyDone ==
    /\ st = "body" /\ need = 0
    /\ IF SubSeq(acc, Len(acc) - 1, Len(acc)) = CRLF
       THEN Return(Bulk(Chomp(acc)))
       ELSE Fail("bad")
    /\ UNCHANGED <<buf, rpos, rerr, dropped, wire>>

\* decodeResp returns: to the caller, or to the array the value belongs to.
Deliver ==
    /\ st = "ret"
    /\ IF frames = <<>>
       THEN /\ out' = Append(out, ret)
            /\ st' = "idle" /\ ret' = Nil
            /\ UNCHANGED <<typ, acc, need, frames, err>>
       ELSE LET f == Last(frames)
                got == Append(f.got, ret)
            IN  IF f.multi /\ ret.type # "$"
                THEN Fail("bad")
                ELSE /\ IF Len(got) = f.n
                        THEN /\ frames' = Front(frames)
                             /\ ret' = Array(got) /\ st' = "ret"
                        ELSE /\ frames' = Append(Front(frames), [f EXCEPT !.got = got])
                             /\ ret' = Nil /\ st' = "type"
                     /\ UNCHANGED <<typ, acc, need, err, out>>
    /\ UNCHANGED <<buf, rpos, rerr, dropped, wire>>

\* A step of the goroutine that reads, other than a failure of the connection.
Proceed ==
    \/ \E n \in 1..N : Fill(n)
    \/ \E n \in 1..(MaxBulkBytesLen + 2) : DirectRead(n)
    \/ ReadFails("eof") \/ ReaderFailed \/ Decode
    \/ PeekByte \/ ReadType \/ ReadText \/ ReadInt \/ CopyBody \/ BodyDone \/ Deliver

ReaderNext == Proceed \/ ReadFails("io") \/ ReadsLast
=============================================================================
