----------------------------- MODULE SyncClient -----------------------------
(***************************************************************************)
(* cTCPSyncClient_V2 (cTCPSyncClient_V2.h): a client without threads, here *)
(* together with a peer that sends bytes and closes whenever it likes.  A  *)
(* step is one system call, with the code around it; calls that a signal   *)
(* interrupts are repeated and are no step.  m_lastPlatformError and       *)
(* m_lastAddressInfoError, of which at most one is set, are one variable.  *)
(***************************************************************************)
EXTENDS Integers, Sequences, SequencesExt, FiniteSets

CONSTANTS Options,                    \* SO_SNDTIMEO and SO_RCVTIMEO
          Fds,                        \* the descriptors the process may open
          Bytes, Delimiter,           \* what the peer sends, what the caller looks for
          kDefaultReceiveChunkSize,
          Sizes,                      \* the sizes and limits that callers pass
          Timeouts,                   \* the timeouts that callers set, in ms
          MaxAddresses,               \* bound: how many addresses a name has
          MaxStream                   \* bound: how many bytes a peer sends

ASSUME SyncAssumption ==
    /\ Fds \subseteq Nat
    /\ Delimiter \in Seq(Bytes) /\ Delimiter # <<>>
    /\ kDefaultReceiveChunkSize \in Nat \ {0}
    /\ Sizes \subseteq Nat
    /\ Timeouts \subseteq Int
    /\ MaxAddresses \in Nat /\ MaxStream \in Nat

NoFd == -1
NullData == -1     \* the size of a payload that has one, and a null pointer

VARIABLES m_socket,
          m_timeout,   \* m_sendTimeout and m_receiveTimeout
          lastError,   \* the recorded error
          op, pc,      \* the operation, and the system call it is about to make
          out,         \* the buffer that the caller passed, if the operation takes one
          want,        \* bytesToRead or maxBytes
          rest,        \* the bytes still to be sent
          addresses,   \* how many addresses are still to be tried
          result,      \* what the last operation returned
          open,        \* the descriptors that are open
          option,      \* the timeouts of the connected socket in the kernel
          stream,      \* all that the peer has sent on this connection
          inbox,       \* the part of it that recv has not returned yet
          eof,         \* has the peer closed?
          handed,      \* the part that the receives so far have returned to the caller
          untimed      \* the options that setsockopt refused since the connect

netVars == <<open, option, stream, inbox, eof, handed, untimed>>
callVars == <<op, pc, out, want, rest, addresses, result>>
syncVars == <<m_socket, m_timeout, lastError, callVars, netVars>>

\* enm_IOResult
IOResults == {"Success", "Closed", "Timeout", "NotConnected", "InvalidArgument", "Failed"}

Receives == {"receiveSome", "receiveExact", "receiveUntilDelimiter", "receiveUntilClosed"}
Exchanges == {"exchangeOnce", "exchangeOnceUntilClosed"}
Operations == Receives \cup Exchanges \cup {"connect", "shutdownWrite", "sendAll", "setTimeout", "none"}

SyncTypeOK ==
    /\ m_socket \in Fds \cup {NoFd}
    /\ m_timeout \in [Options -> Nat]
    /\ lastError \in {"none", "address", "timeout", "EMSGSIZE", "other"}
    /\ op \in Operations
    /\ pc \in {"idle", "connect", "send", "shutdown", "recv", "close"}
    /\ out \in Seq(Bytes)
    /\ want \in Nat /\ rest \in Nat \cup {NullData} /\ addresses \in Nat
    /\ result \in IOResults
    /\ open \subseteq Fds
    /\ option \in [Options -> Nat \X Nat]
    /\ stream \in Seq(Bytes) /\ inbox \in Seq(Bytes) /\ handed \in Seq(Bytes)
    /\ eof \in BOOLEAN
    /\ untimed \subseteq Options

sanitizeTimeout(ms) == IF ms < 0 THEN 0 ELSE ms
toTimeval(ms) == <<sanitizeTimeout(ms) \div 1000, (sanitizeTimeout(ms) % 1000) * 1000>>

isConnected == m_socket # NoFd

SyncInit ==
    /\ m_socket = NoFd
    /\ m_timeout = [o \in Options |-> 0]
    /\ lastError = "none"
    /\ op = "none" /\ pc = "idle" /\ out = <<>> /\ result = "Success"
    /\ want = 0 /\ rest = 0 /\ addresses = 0
    /\ open = {}
    /\ option = [o \in Options |-> toTimeval(0)]
    /\ stream = <<>> /\ inbox = <<>> /\ handed = <<>>
    /\ eof = FALSE
    /\ untimed = {}

-----------------------------------------------------------------------------
(* The peer.                                                               *)

PeerSends(b) ==
    /\ isConnected /\ ~eof
    /\ Len(stream) < MaxStream
    /\ stream' = Append(stream, b)
    /\ inbox' = Append(inbox, b)
    /\ UNCHANGED <<m_socket, m_timeout, lastError, callVars, open, option, eof, handed, untimed>>

PeerCloses ==
    /\ isConnected /\ ~eof
    /\ eof' = TRUE
    /\ UNCHANGED <<m_socket, m_timeout, lastError, callVars, open, option, stream, inbox, handed,
                   untimed>>

-----------------------------------------------------------------------------
(* How an operation begins and ends.                                       *)

Call(o, loc) == op' = o /\ pc' = loc

\* The operation takes no buffer and no limit.
NoBuffer == out' = <<>> /\ want' = 0

\* Operation o has its result; an exchange closes the connection on exit.
Finish(o, r) ==
    /\ result' = r
    /\ pc' = IF o \in Exchanges THEN "close" ELSE "idle"

\* closeSocketValue(m_socket), and the end of the connection.
Disconnect ==
    /\ open' = open \ {m_socket}
    /\ m_socket' = NoFd
    /\ stream' = <<>> /\ inbox' = <<>> /\ handed' = <<>>
    /\ eof' = FALSE
    /\ untimed' = {}
    /\ option' = [o \in Options |-> toTimeval(0)]

\* close(), the destructor too.  It returns nothing: the last result stands.
Close ==
    /\ pc = "idle" /\ isConnected
    /\ Disconnect
    /\ UNCHANGED <<m_timeout, lastError, callVars>>

\* closeOnExit
ExchangeCloses ==
    /\ pc = "close"
    /\ pc' = "idle"
    /\ Disconnect
    /\ UNCHANGED <<m_timeout, lastError, op, out, want, rest, addresses, result>>

\* applyConfiguredTimeout: setsockopt on the connected socket, which may refuse.
applyConfiguredTimeout(o, ms) ==
    \/ /\ option' = IF isConnected THEN [option EXCEPT ![o] = toTimeval(ms)] ELSE option
       /\ untimed' = untimed \ {o}
       /\ lastError' = "none"
       /\ result' = "Success"
    \/ /\ isConnected
       /\ untimed' = untimed \cup {o}
       /\ lastError' = "other"
       /\ result' = "Failed"
       /\ UNCHANGED option

\* setSendTimeout and setReceiveTimeout
SetTimeout(o, ms) ==
    /\ pc = "idle"
    /\ Call("setTimeout", "idle") /\ NoBuffer /\ rest' = 0
    /\ m_timeout' = [m_timeout EXCEPT ![o] = sanitizeTimeout(ms)]
    /\ applyConfiguredTimeout(o, sanitizeTimeout(ms))
    /\ UNCHANGED <<m_socket, addresses, open, stream, inbox, eof, handed>>

-----------------------------------------------------------------------------
(* connect                                                                 *)

\* connect() has failed.  An exchange has not armed its guard yet.
ConnectFails(error) ==
    /\ lastError' = error
    /\ result' = "Failed"
    /\ out' = <<>>

\* connect(), reconnect(), or the first part of an exchange: what was connected
\* is closed, and the name is resolved to n addresses, or not at all.
BeginConnect(o, n, request, limit) ==
    /\ pc = "idle"
    /\ Disconnect
    /\ addresses' = n
    /\ rest' = request
    /\ want' = limit
    /\ IF n = 0 THEN Call(o, "idle") /\ ConnectFails("address")
       ELSE /\ Call(o, "connect")
            /\ lastError' = "none"
            /\ out' = IF o \in Exchanges THEN out ELSE <<>>
            /\ UNCHANGED result
    /\ UNCHANGED m_timeout

\* No socket, no options, or no connection for this address: what was opened is
\* closed, and the next address is tried.
AddressFails ==
    /\ pc = "connect"
    /\ addresses' = addresses - 1
    /\ IF addresses = 1 THEN pc' = "idle" /\ ConnectFails("other")
       ELSE lastError' = "other" /\ UNCHANGED <<result, pc, out>>
    /\ UNCHANGED <<m_socket, m_timeout, op, want, rest, netVars>>

\* Mutant: the socket keeps the options that the kernel gives it.
configureNothing == [o \in Options |-> toTimeval(0)]

\* configureSocket: the timeouts of a new socket.
configureSocket == [o \in Options |-> toTimeval(m_timeout[o])]

\* The connection is there; an exchange goes on to send its request.
AddressConnects(f) ==
    /\ pc = "connect"
    /\ open' = open \cup {f}
    /\ m_socket' = f
    /\ option' = configureSocket
    /\ lastError' = "none"
    /\ addresses' = 0
    /\ IF op \in Exchanges THEN pc' = "send" /\ UNCHANGED result ELSE Finish(op, "Success")
    /\ UNCHANGED <<m_timeout, op, out, want, rest, stream, inbox, eof, handed, untimed>>

-----------------------------------------------------------------------------
(* sendAll and shutdownWrite                                               *)

BeginSend(payload) ==
    /\ pc = "idle"
    /\ op' = "sendAll" /\ NoBuffer
    /\ rest' = payload
    /\ lastError' = "none"
    /\ IF payload > 0 /\ isConnected THEN pc' = "send" /\ UNCHANGED result
       ELSE Finish("sendAll", CASE payload = 0 -> "Success"
                                [] payload = NullData -> "InvalidArgument"
                                [] OTHER -> "NotConnected")
    /\ UNCHANGED <<m_socket, m_timeout, addresses, netVars>>

\* The receive at the end of an exchange.
EnterReceive ==
    /\ out' = <<>>
    /\ lastError' = "none"
    /\ IF want = 0 THEN Finish(op, "InvalidArgument") ELSE pc' = "recv" /\ UNCHANGED result

\* sendAll returns Success.
AllSent ==
    CASE op = "exchangeOnce" -> EnterReceive
      [] op = "exchangeOnceUntilClosed" -> pc' = "shutdown" /\ lastError' = "none" /\ UNCHANGED <<out, result>>
      [] op = "sendAll" -> Finish(op, "Success") /\ UNCHANGED <<out, lastError>>

\* The kernel takes n bytes, or there is nothing to send.
Sends(n) ==
    /\ pc = "send" /\ rest >= 0
    /\ n \in 1..rest \/ (n = 0 /\ rest = 0)
    /\ rest' = rest - n
    /\ IF n < rest THEN UNCHANGED <<pc, result, out, lastError>> ELSE AllSent
    /\ UNCHANGED <<m_socket, m_timeout, op, want, addresses, netVars>>

\* classifySocketError
classifySocketError(error) == IF error = "timeout" THEN "Timeout" ELSE "Failed"

\* A failed send, or a request that is a null pointer.
SendFails(error) ==
    /\ pc = "send" /\ rest # 0
    /\ IF rest = NullData THEN lastError' = "none" /\ Finish(op, "InvalidArgument")
       ELSE lastError' = error /\ Finish(op, classifySocketError(error))
    /\ out' = IF op \in Exchanges THEN <<>> ELSE out
    /\ UNCHANGED <<m_socket, m_timeout, op, want, rest, addresses, netVars>>

\* shutdownWrite() without a connection reports false and no error of its own.
BeginShutdown ==
    /\ pc = "idle"
    /\ op' = "shutdownWrite" /\ NoBuffer /\ rest' = 0
    /\ IF isConnected THEN pc' = "shutdown" /\ lastError' = "none" /\ UNCHANGED result
       ELSE Finish("shutdownWrite", "Failed") /\ UNCHANGED lastError
    /\ UNCHANGED <<m_socket, m_timeout, addresses, netVars>>

Shutdown ==
    /\ pc = "shutdown"
    /\ IF op \in Exchanges THEN EnterReceive
       ELSE Finish(op, "Success") /\ UNCHANGED <<out, lastError>>
    /\ UNCHANGED <<m_socket, m_timeout, op, want, rest, addresses, netVars>>

ShutdownFails ==
    /\ pc = "shutdown"
    /\ lastError' = "other"
    /\ Finish(op, "Failed")
    /\ out' = IF op \in Exchanges THEN <<>> ELSE out
    /\ UNCHANGED <<m_socket, m_timeout, op, want, rest, addresses, netVars>>

-----------------------------------------------------------------------------
(* The four ways to receive.                                               *)

\* Every receive empties the buffer first.  A size of zero is wrong, except that
\* receiveExact has then done its work.
BeginReceive(o, size) ==
    /\ pc = "idle"
    /\ op' = o
    /\ out' = <<>>
    /\ want' = size /\ rest' = 0
    /\ lastError' = "none"
    /\ IF size > 0 /\ isConnected THEN pc' = "recv" /\ UNCHANGED result
       ELSE Finish(o, CASE size > 0 -> "NotConnected"
                        [] size = 0 /\ o = "receiveExact" -> "Success"
                        [] OTHER -> "InvalidArgument")
    /\ UNCHANGED <<m_socket, m_timeout, addresses, netVars>>

\* The loop behind an operation.
Manner == CASE op = "exchangeOnce" -> "receiveSome"
            [] op = "exchangeOnceUntilClosed" -> "receiveUntilClosed"
            [] OTHER -> op

Smaller(a, b) == IF a < b THEN a ELSE b

\* The size of the buffer given to recv.
RecvSize ==
    IF Manner \in {"receiveSome", "receiveExact"} THEN want - Len(out)
    ELSE Smaller(kDefaultReceiveChunkSize, want - Len(out))

\* std::search finds the delimiter.
HasDelimiter(s) == \E i \in 1..Len(s) : IsPrefix(Delimiter, SubSeq(s, i, Len(s)))

\* Mutant: only what has just arrived is searched.
DoneWithChunk(chunk) ==
    CASE Manner = "receiveSome" -> TRUE
      [] Manner = "receiveExact" -> Len(out \o chunk) = want
      [] Manner = "receiveUntilDelimiter" -> HasDelimiter(chunk)
      [] Manner = "receiveUntilClosed" -> FALSE

\* Is the operation satisfied when the chunk has arrived?
DoneWith(chunk) ==
    CASE Manner = "receiveSome" -> TRUE
      [] Manner = "receiveExact" -> Len(out \o chunk) = want
      [] Manner = "receiveUntilDelimiter" -> HasDelimiter(out \o chunk)
      [] Manner = "receiveUntilClosed" -> FALSE

\* A chunk has arrived; a loop that has no room left gives up with EMSGSIZE.
Arrives(chunk) ==
    /\ out' = out \o chunk
    /\ CASE DoneWith(chunk) -> Finish(op, "Success") /\ lastError' = "none"
         [] ~DoneWith(chunk) /\ Len(out') = want -> Finish(op, "Failed") /\ lastError' = "EMSGSIZE"
         [] OTHER -> UNCHANGED <<pc, result, lastError>>
    /\ handed' = IF DoneWith(chunk) \/ Len(out') = want THEN handed \o out' ELSE handed

\* recv returns k bytes.
RecvReturns(k) ==
    /\ pc = "recv"
    /\ k \in 1..Smaller(RecvSize, Len(inbox))
    /\ Arrives(SubSeq(inbox, 1, k))
    /\ inbox' = SubSeq(inbox, k + 1, Len(inbox))
    /\ UNCHANGED <<m_socket, m_timeout, op, want, rest, addresses, open, option, stream, eof, untimed>>

\* recv returns 0.
RecvEof ==
    /\ pc = "recv" /\ inbox = <<>> /\ eof
    /\ Finish(op, IF Manner = "receiveUntilClosed" THEN "Success" ELSE "Closed")
    /\ handed' = handed \o out
    /\ UNCHANGED <<m_socket, m_timeout, lastError, op, out, want, rest, addresses, open, option,
                   stream, inbox, eof, untimed>>

\* Mutant: what has arrived is thrown away with the error.
RecvFailsEmpty(error) ==
    /\ pc = "recv"
    /\ lastError' = error
    /\ Finish(op, classifySocketError(error))
    /\ out' = <<>>
    /\ UNCHANGED <<m_socket, m_timeout, op, want, rest, addresses, netVars>>

\* recv fails, its timeout included: the caller gets what has arrived.
RecvFails(error) ==
    /\ pc = "recv"
    /\ lastError' = error
    /\ Finish(op, classifySocketError(error))
    /\ handed' = handed \o out
    /\ UNCHANGED <<m_socket, m_timeout, op, out, want, rest, addresses, open, option, stream,
                   inbox, eof, untimed>>

-----------------------------------------------------------------------------
Errors == {"timeout", "other"}

SyncNext ==
    \/ PeerCloses \/ Close \/ ExchangeCloses
    \/ AddressFails \/ BeginShutdown \/ Shutdown \/ ShutdownFails \/ RecvEof
    \/ \E b \in Bytes : PeerSends(b)
    \/ \E o \in Options, ms \in Timeouts : SetTimeout(o, ms)
    \/ \E n \in 0..MaxAddresses : BeginConnect("connect", n, 0, 0)
    \/ \E o \in Exchanges, n \in 0..MaxAddresses, request \in Sizes \cup {NullData}, limit \in Sizes :
          BeginConnect(o, n, request, limit)
    \/ \E f \in Fds \ open : AddressConnects(f)
    \/ \E payload \in Sizes \cup {NullData} : BeginSend(payload)
    \/ \E n \in 0..rest : Sends(n)
    \/ \E o \in Receives, size \in Sizes : BeginReceive(o, size)
    \/ \E k \in 1..Len(inbox) : RecvReturns(k)
    \/ \E error \in Errors : SendFails(error) \/ RecvFails(error)

SyncSpec == SyncInit /\ [][SyncNext]_syncVars

-----------------------------------------------------------------------------
(* Properties.                                                             *)

\* No byte of the peer is lost, repeated or reordered, however its stream is cut
\* into chunks and whatever the receives return: what the receives so far have
\* returned, what the running one holds, and what has not been read are together
\* the stream.  (The loops of receiveExact, receiveUntilDelimiter and
\* receiveUntilClosed, on their error paths too.)
StreamIntact ==
    isConnected => stream = handed \o (IF pc = "recv" THEN out ELSE <<>>) \o inbox

\* The results of the last receive are still to be seen.
JustReceived == pc = "close" \/ (pc = "idle" /\ isConnected /\ op \in Receives)

\* A result tells the truth about the buffer.  receiveExact succeeds exactly when
\* the buffer is full; receiveUntilDelimiter exactly when the delimiter is in the
\* buffer, across chunks too; receiveUntilClosed only when the peer has closed and
\* all it sent is there; EMSGSIZE only when there is no room left; Closed only at
\* the end of the stream; sendAll succeeds only when nothing is left to send; and an
\* exchange that sent nothing leaves no older response in the buffer.  And it agrees
\* with the recorded error: Failed and Timeout come with the error of this very
\* call, any other result with none, whatever addresses failed before; only
\* shutdownWrite without a connection fails and leaves an older error.
ResultIsHonest ==
    /\ JustReceived =>
         /\ Manner = "receiveExact" => (result = "Success" <=> Len(out) = want)
         /\ Manner = "receiveUntilDelimiter" => (result = "Success" <=> HasDelimiter(out))
         /\ Manner = "receiveUntilClosed" /\ result = "Success" =>
               /\ eof /\ inbox = <<>>
               /\ Len(out) < want
         /\ lastError = "EMSGSIZE" => Len(out) = want
         /\ result = "Closed" => eof /\ inbox = <<>>
    /\ pc = "idle" /\ op = "sendAll" /\ result = "Success" => rest = 0
    /\ pc = "idle" /\ op \in Exchanges /\ (lastError = "address" \/ result = "InvalidArgument")
         => out = <<>>
    /\ pc = "idle" /\ ~(op = "shutdownWrite" /\ ~isConnected)
         => /\ result \in {"Failed", "Timeout"} <=> lastError # "none"
            /\ result = "Timeout" <=> lastError = "timeout"

\* Between calls the client owns its socket and no other descriptor, whatever
\* addresses failed; no connection outlives an exchange, and a failed connect
\* leaves none.  The kernel's timeouts of a connected socket are those that the
\* caller has set, also before the connect or before a reconnect, unless setsockopt
\* refused.
SocketInOrder ==
    /\ pc = "idle" => open = {m_socket} \ {NoFd}
    /\ pc = "idle" /\ op \in Exchanges => ~isConnected
    /\ pc = "idle" /\ op = "connect" /\ result = "Failed" => ~isConnected
    /\ isConnected => \A o \in Options \ untimed : option[o] = toTimeval(m_timeout[o])
=============================================================================
