------------------------------- MODULE TcpFrame -------------------------------
(***************************************************************************)
(* Length-prefixed messages over one TCP connection: tcp_write, tcp_read   *)
(* (src/socket/src/tcp_comm.cpp), readn, writen (util.cpp) and the buffer  *)
(* a msg_t holds (threadpool.hpp).                                         *)
(*                                                                         *)
(* The kernel moves any number of the offered bytes in one read or write.  *)
(* A byte has Base values (256 in the code) and a length is an unsigned    *)
(* number of HdrLen bytes, so a length is a number modulo Base^HdrLen, as  *)
(* dsize_t is modulo 2^32.  Integer conversions are those of the code: the *)
(* result of read in a size_t and the result of readn in a uint32_t are    *)
(* never negative, and a count that readn and tcp_read return as an int is *)
(* negative from half of Base^HdrLen on.                                   *)
(*                                                                         *)
(* Definitions named X_<Bug> are X with a plausible programming error.     *)
(***************************************************************************)
EXTENDS Integers, Sequences, FiniteSets, SequencesExt

CONSTANTS Base, HdrLen,
          maxsize,     \* size of the buffer the caller of tcp_read gives
          Messages,    \* what the sender sends
          Uninit,      \* values the uninitialised msglen of tcp_read may have
          Faults       \* values of faults, chosen at the start

Byte == 0 .. Base - 1

Pow[i \in Nat] == IF i = 0 THEN 1 ELSE Base * Pow[i - 1]
Modulo == Pow[HdrLen]

\* tcp_write and msg_t take the length of a message in a dsize_t.
ASSUME FrameAssumption ==
  /\ Base \in Nat \ {0, 1} /\ HdrLen \in Nat \ {0}
  /\ maxsize \in Nat
  /\ Messages \in Seq(Seq(Byte))
  /\ \A i \in DOMAIN Messages : Len(Messages[i]) < Modulo
  /\ Uninit \subseteq 0 .. Modulo - 1 /\ Uninit # {}
  /\ Faults \subseteq BOOLEAN

VARIABLES
  faults,     \* the sender may exit inside a frame, the connection may be reset
  wpc,        \* sender: "idle", "header", "body", "frame" (a msg_t), "gone"
  out,        \* bytes its writen has still to write
  sent,       \* messages it has begun to send
  torn,       \* the first message whose msg_t has a wrapped len, or 0
  stream,     \* bytes on their way
  conn,       \* "open", "closed" (by the sender) or "reset"
  rpc,        \* reader: "idle", "header", "body" (inside tcp_read), "gone"
  buf,        \* bytes its readn has read
  inloop,     \* its readn is past the first read
  msglen, use_tempbuf,
  results,    \* what tcp_read returned: n, the bytes and where they are
  ended       \* tcp_read has reported the end of the connection

wVars == <<wpc, out, sent, torn>>
rVars == <<rpc, buf, inloop, msglen, use_tempbuf, results, ended>>
vars  == <<faults, wpc, out, sent, torn, stream, conn, rpc, buf, inloop, msglen, use_tempbuf, results, ended>>

Init ==
  /\ faults \in Faults
  /\ wpc = "idle" /\ out = <<>> /\ sent = 0 /\ torn = 0
  /\ stream = <<>> /\ conn = "open"
  /\ rpc = "idle" /\ buf = <<>> /\ inloop = FALSE /\ results = <<>>
  /\ msglen \in Uninit
  /\ use_tempbuf = FALSE
  /\ ended = FALSE

-----------------------------------------------------------------------------
(* The length in memory: a little-endian number of HdrLen bytes *)

Header(l) == [i \in 1 .. HdrLen |-> (l \div Pow[i - 1]) % Base]

\* The number that these bytes represent.
Value(bytes) == CHOOSE l \in 0 .. Modulo - 1 : Header(l) = bytes

-----------------------------------------------------------------------------
(* The sender *)

\* tcp_write: writen of the length.
tcp_write ==
  /\ wpc = "idle"
  /\ sent < Len(Messages)
  /\ sent' = sent + 1
  /\ out' = Header(Len(Messages[sent + 1]))
  /\ wpc' = "header"
  /\ UNCHANGED <<faults, torn, stream, conn, rVars>>

\* The buffer of a msg_t has room for length and data (a size_t); its len, the
\* number of bytes that start_send gives to writen, is a dsize_t and wraps.
MsgLen_DataOnly(l) == l

MsgLen(l) == (l + HdrLen) % Modulo

send_msg ==
  LET m == Messages[sent + 1]
  IN  /\ wpc = "idle"
      /\ sent < Len(Messages)
      /\ sent' = sent + 1
      /\ out' = SubSeq(Header(Len(m)) \o m, 1, MsgLen(Len(m)))
      /\ wpc' = "frame"
      /\ torn' = IF torn = 0 /\ Len(m) + HdrLen >= Modulo THEN sent + 1 ELSE torn
      /\ UNCHANGED <<faults, stream, conn, rVars>>

\* The loop of writen: write takes a part of what is left.
Write ==
  /\ wpc \in {"header", "body", "frame"}
  /\ conn = "open"
  /\ out # <<>>
  /\ \E k \in 1 .. Len(out) :
       /\ stream' = stream \o SubSeq(out, 1, k)
       /\ out' = SubSeq(out, k + 1, Len(out))
  /\ UNCHANGED <<faults, wpc, sent, torn, conn, rVars>>

\* writen returns; tcp_write goes on with the data.
Written ==
  /\ out = <<>>
  /\ \/ /\ wpc = "header"
        /\ wpc' = "body"
        /\ out' = Messages[sent]
     \/ /\ wpc \in {"body", "frame"}
        /\ wpc' = "idle"
        /\ UNCHANGED out
  /\ UNCHANGED <<faults, sent, torn, stream, conn, rVars>>

\* writen returns -1 on a reset connection.  tcp_write does not notice: n is
\* unsigned, and it writes the data, which raises SIGPIPE.
WriteFails ==
  /\ wpc \in {"header", "body", "frame"}
  /\ conn # "open"
  /\ out # <<>>
  /\ \/ /\ wpc = "header"
        /\ wpc' = "body"
        /\ out' = Messages[sent]
     \/ /\ wpc # "header"
        /\ wpc' = "gone"
        /\ out' = <<>>
  /\ UNCHANGED <<faults, sent, torn, stream, conn, rVars>>

\* The sender closes after any of its messages, or its process ends in the
\* middle of a frame.
Close ==
  /\ conn = "open"
  /\ faults \/ wpc = "idle"
  /\ conn' = "closed"
  /\ wpc' = "gone"
  /\ out' = <<>>
  /\ UNCHANGED <<faults, sent, torn, stream, rVars>>

\* The connection breaks, by itself or because the reader's process is gone;
\* bytes on their way may be lost, last ones first.
Reset ==
  /\ faults \/ rpc = "gone"
  /\ conn = "open"
  /\ conn' = "reset"
  /\ \E k \in 0 .. Len(stream) : stream' = SubSeq(stream, 1, k)
  /\ UNCHANGED <<faults, wVars, rVars>>

-----------------------------------------------------------------------------
(* The reader *)

Result(n, bytes) == [n |-> n, data |-> bytes, tmp |-> use_tempbuf]

\* The caller waits until there is something to read, as select does, whatever
\* the last call returned, and stops when the end has been reported.
AtEnd == conn # "open" /\ stream = <<>>

tcp_read ==
  /\ rpc = "idle"
  /\ stream # <<>> \/ (AtEnd /\ ~ended)
  /\ rpc' = "header"
  /\ buf' = <<>>
  /\ inloop' = FALSE
  /\ msglen' \in Uninit
  /\ UNCHANGED <<faults, use_tempbuf, results, ended, stream, conn, wVars>>

\* How many bytes the running readn is asked for.
Want == IF rpc = "header" THEN HdrLen ELSE msglen

\* The second readn: into the caller's buffer if the message fits.
Fits_OffByOne(l) == l <= maxsize + 1

Fits(l) == l <= maxsize

ReadBody_KeepsCount(l) ==
  /\ rpc' = "body"
  /\ msglen' = l
  /\ use_tempbuf' = ~Fits(l)
  /\ UNCHANGED <<buf, inloop, results, ended>>

\* The reader's process ends inside tcp_read.
Dies ==
  /\ rpc' = "gone"
  /\ buf' = <<>>
  /\ inloop' = FALSE
  /\ UNCHANGED <<msglen, use_tempbuf, results, ended>>

\* The temporary buffer may be refused: tcp_read throws and nobody catches.
ReadBody(l) ==
  \/ /\ rpc' = "body"
     /\ msglen' = l
     /\ use_tempbuf' = ~Fits(l)
     /\ buf' = <<>>
     /\ inloop' = FALSE
     /\ UNCHANGED <<results, ended>>
  \/ faults /\ ~Fits(l) /\ Dies

\* Room where the running readn stores its bytes: msglen, the caller's buffer,
\* or a temporary one of msglen + 1 bytes, a sum that wraps.
Capacity == IF rpc = "header" THEN HdrLen
            ELSE IF use_tempbuf THEN (msglen + 1) % Modulo ELSE maxsize

\* The int that readn and tcp_read make of a count.
ToInt(n) == IF 2 * n < Modulo THEN n ELSE n - Modulo

\* tcp_read returns; after its first readn only when that has returned 0.
Return(n, bytes) ==
  /\ rpc' = "idle"
  /\ results' = Append(results, Result(n, bytes))
  /\ ended' = (rpc = "header")
  /\ buf' = <<>>
  /\ inloop' = FALSE
  /\ UNCHANGED <<msglen, use_tempbuf>>

Enough_OneMore(bytes) == Len(bytes) > Want

Enough(bytes) == Len(bytes) >= Want

\* read is asked for what is missing.
Asked(k) == Len(buf) + k <= Want

\* One read of readn that returns bytes.  Bytes behind the end of the buffer
\* destroy other memory: the process ends, or seems to go on.
Read ==
  /\ rpc \in {"header", "body"}
  /\ \E k \in 1 .. Len(stream) :
       /\ Asked(k)
       /\ stream' = SubSeq(stream, k + 1, Len(stream))
       /\ LET bytes == buf \o SubSeq(stream, 1, k)
          IN  \/ /\ ~Enough(bytes)
                 /\ buf' = bytes
                 /\ inloop' = TRUE
                 /\ UNCHANGED <<rpc, msglen, use_tempbuf, results, ended>>
              \/ Enough(bytes) /\ rpc = "header" /\ ReadBody(Value(bytes))
              \/ Enough(bytes) /\ rpc = "body" /\ Return(ToInt(Len(bytes)), bytes)
              \/ Len(bytes) > Capacity /\ Dies
  /\ UNCHANGED <<faults, conn, wVars>>

\* The first read of readn returns 0: the end of the stream, or a message
\* without data.  (A later read that returns 0 leaves readn in its loop.)
ReadZero ==
  /\ rpc \in {"header", "body"}
  /\ ~inloop
  /\ (conn = "closed" /\ stream = <<>>) \/ Want = 0
  /\ Return(0, <<>>)
  /\ UNCHANGED <<faults, stream, conn, wVars>>

\* read returns -1, once; after that the end of the stream.  In a size_t it is
\* no error: the first read of readn makes it return -1, a later one takes one
\* byte back.  tcp_read does not see the -1 of the first readn, n is unsigned.
ReadError ==
  /\ rpc \in {"header", "body"}
  /\ conn = "reset" /\ stream = <<>>
  /\ Want > 0
  /\ conn' = "closed"
  /\ \/ ~inloop /\ rpc = "header" /\ ReadBody(msglen)
     \/ ~inloop /\ rpc = "body" /\ Return(-1, <<>>)
     \/ inloop /\ buf' = Front(buf) /\ UNCHANGED <<rpc, inloop, msglen, use_tempbuf, results, ended>>
  /\ UNCHANGED <<faults, stream, wVars>>

-----------------------------------------------------------------------------
Sender == tcp_write \/ send_msg \/ Write \/ Written \/ WriteFails
Reader == tcp_read \/ Read \/ ReadZero \/ ReadError

Next == Sender \/ Close \/ Reset \/ Reader

Spec == Init /\ [][Next]_vars

\* Both processes run, and the sender closes when it is done.
FairSpec ==
  /\ Spec
  /\ WF_vars(Sender) /\ WF_vars(Reader)
  /\ WF_vars(Close /\ wpc = "idle" /\ sent = Len(Messages))

-----------------------------------------------------------------------------
(* Properties *)

\* Every variable has its type; readn never reads more than it was asked for,
\* and tcp_read returns an int.
TypeOK ==
  /\ wpc \in {"idle", "header", "body", "frame", "gone"}
  /\ {out, stream, buf} \subseteq Seq(Byte)
  /\ sent \in 0 .. Len(Messages) /\ torn \in 0 .. sent
  /\ conn \in {"open", "closed", "reset"}
  /\ rpc \in {"idle", "header", "body", "gone"}
  /\ rpc \in {"header", "body"} => Len(buf) <= Want
  /\ msglen \in 0 .. Modulo - 1
  /\ {faults, inloop, use_tempbuf, ended} \subseteq BOOLEAN
  /\ \A i \in DOMAIN results :
       /\ results[i].n \in Int /\ -Modulo <= 2 * results[i].n /\ 2 * results[i].n < Modulo
       /\ results[i].data \in Seq(Byte)

\* The result is a whole message: its bytes, and its length if an int can hold
\* it, otherwise a negative number.
IsMessage(r, m) ==
  r.data = m /\ (r.n = Len(m) \/ (2 * Len(m) >= Modulo /\ r.n < 0))

\* tcp_read returns the messages of the sender, whole and in order, however
\* the kernel cuts the bytes, whichever of the two ways sent them, and also
\* when the connection ends or breaks inside a frame.  A result of 0, which
\* callers take for "client exited", is a message without data or, like an
\* error, a result without data at the end of the connection.  The exception
\* is what follows a msg_t whose len has wrapped, as its frame is cut short.
FramesInOrder ==
  \A i \in DOMAIN results : torn = 0 \/ i < torn =>
    \/ i <= sent /\ IsMessage(results[i], Messages[i])
    \/ AtEnd /\ results[i].n \in {0, -1} /\ results[i].data = <<>>

\* readn stays inside the buffer it was given: the caller's, or the temporary
\* one, also when msglen was never read.  The exception is the largest length
\* of all, for which msglen + 1 is 0.
BufferFits ==
  /\ rpc \in {"header", "body"} => Len(buf) <= Capacity \/ (use_tempbuf /\ msglen + 1 = Modulo)
  /\ \A i \in DOMAIN results : results[i].tmp \/ Len(results[i].data) <= maxsize

\* What tcp_read returned, in order.
Received == [i \in DOMAIN results |-> results[i].data]

\* The stream has ended inside what the running readn was asked for.
CutInside == AtEnd /\ inloop /\ Len(buf) < Want

\* A sender that closes after some message has every message read, and then
\* tcp_read reports the end of the connection, unless a message of the largest
\* length has destroyed the reader.  When the sender exits, the connection
\* breaks, memory runs out or a frame was cut short by its msg_t, tcp_read
\* still comes to an end, with one exception: a call whose frame was cut off
\* after its readn had got some of the bytes never returns.
ReadsToTheEnd ==
  <>[](IF faults \/ torn # 0 THEN ended \/ rpc = "gone" \/ CutInside
       ELSE \/ ended /\ Received = Append(SubSeq(Messages, 1, sent), <<>>)
            \/ rpc = "gone" /\ \E i \in 1 .. sent : Len(Messages[i]) + 1 = Modulo)
=============================================================================
