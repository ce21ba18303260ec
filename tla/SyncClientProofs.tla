-------------------------- MODULE SyncClientProofs --------------------------
(***************************************************************************)
(* Proofs about cTCPSyncClient_V2 (SyncClient), for all bytes, delimiters, *)
(* descriptors, addresses, sizes and timeouts that SyncAssumption allows.  *)
(*                                                                         *)
(* Proved are the types and the three invariants of the component.  They   *)
(* speak of calls that have returned, and a step is one system call of a   *)
(* call under way, so the inductive invariant SyncInvariant adds where     *)
(* each operation can be (CallsInOrder), what is open and configured       *)
(* meanwhile (SocketKept), that a loop of receives goes on only with room  *)
(* left and its end not seen (LoopGoesOn), that there is no stream without *)
(* a connection (StreamKept), and what an exchange has already decided     *)
(* when closeOnExit runs (ResultKept).                                     *)
(***************************************************************************)
EXTENDS SyncClient, SequenceTheorems, TLAPS

\* Which operation may be at which system call, and with or without a connection.
CallsInOrder ==
    /\ pc = "connect" => op \in {"connect"} \cup Exchanges
    /\ pc = "send" => op \in {"sendAll"} \cup Exchanges
    /\ pc = "shutdown" => op \in {"shutdownWrite", "exchangeOnceUntilClosed"}
    /\ pc = "recv" => op \in Receives \cup Exchanges
    /\ pc = "close" => op \in Exchanges
    /\ pc \in {"send", "shutdown", "recv", "close"} => isConnected
    /\ pc = "connect" => ~isConnected /\ addresses > 0

\* SocketInOrder, with the descriptors during a call as well.
SocketKept == SocketInOrder /\ open = {m_socket} \ {NoFd}

\* While a call goes on, no error is recorded, and a loop of receives has room left
\* and has not met its end.
LoopGoesOn ==
    /\ pc \in {"send", "shutdown", "recv"} => lastError = "none"
    /\ pc = "recv" => Len(out) < want
    /\ pc = "recv" /\ op = "receiveUntilDelimiter" => ~HasDelimiter(out)

\* The result and the recorded error agree.
Agreement ==
    /\ result \in {"Failed", "Timeout"} <=> lastError # "none"
    /\ result = "Timeout" <=> lastError = "timeout"

\* What ResultIsHonest says of the end of a call holds before closeOnExit already.
ResultKept ==
    /\ ResultIsHonest
    /\ pc = "close" => Agreement
    /\ pc = "close" /\ (lastError = "address" \/ result = "InvalidArgument") => out = <<>>

\* Without a connection there is no stream.
StreamKept ==
    /\ StreamIntact
    /\ ~isConnected => stream = <<>> /\ handed = <<>> /\ inbox = <<>>

\* The steps with the ranges of their arguments.
LEMMA SyncSteps ==
  ASSUME [SyncNext]_syncVars, SyncTypeOK
  PROVE  \/ PeerCloses \/ Close \/ ExchangeCloses
         \/ AddressFails \/ BeginShutdown \/ Shutdown \/ ShutdownFails \/ RecvEof
         \/ \E b \in Bytes : PeerSends(b)
         \/ \E o \in Options, ms \in Timeouts : SetTimeout(o, ms)
         \/ \E o \in {"connect"} \cup Exchanges, n \in Nat,
               request \in Nat \cup {NullData}, limit \in Nat :
               BeginConnect(o, n, request, limit)
         \/ \E f \in Fds : AddressConnects(f)
         \/ \E payload \in Nat \cup {NullData} : BeginSend(payload)
         \/ \E n \in Nat : Sends(n)
         \/ \E o \in Receives, size \in Nat : BeginReceive(o, size)
         \/ \E k \in 1..Len(inbox) : RecvReturns(k)
         \/ \E error \in Errors : SendFails(error)
         \/ \E error \in Errors : RecvFails(error)
         \/ UNCHANGED syncVars
<1>1. /\ Sizes \subseteq Nat /\ MaxAddresses \in Nat /\ 0..MaxAddresses \subseteq Nat
      /\ 0..rest \subseteq Nat
  BY SyncAssumption
<1>2. CASE \E n \in 0..MaxAddresses : BeginConnect("connect", n, 0, 0)
  BY <1>1, <1>2, 0 \in Nat, Zenon
<1>3. CASE \E o \in Exchanges, n \in 0..MaxAddresses, request \in Sizes \cup {NullData}, limit \in Sizes :
              BeginConnect(o, n, request, limit)
  BY <1>1, <1>3, Zenon
<1> QED
  BY <1>1, <1>2, <1>3, Zenon DEF SyncNext

\* Every system call leads to the next one of its operation.
LEMMA CallsStep ==
  ASSUME SyncTypeOK, CallsInOrder, [SyncNext]_syncVars
  PROVE  CallsInOrder'
<1>1. CASE PeerCloses
  BY <1>1 DEF PeerCloses, callVars, CallsInOrder, isConnected
<1>2. CASE Close
  BY <1>2 DEF Close, callVars, CallsInOrder
<1>3. CASE ExchangeCloses
  BY <1>3 DEF ExchangeCloses, CallsInOrder
<1>4. CASE AddressFails
  BY <1>4 DEF AddressFails, SyncTypeOK, CallsInOrder, isConnected
<1>5. CASE BeginShutdown
  BY <1>5 DEF BeginShutdown, Finish, CallsInOrder, isConnected, Exchanges
<1>6. CASE Shutdown
  BY <1>6 DEF Shutdown, Finish, EnterReceive, CallsInOrder, isConnected
<1>7. CASE ShutdownFails
  BY <1>7 DEF ShutdownFails, Finish, CallsInOrder, isConnected
<1>8. CASE RecvEof
  BY <1>8 DEF RecvEof, Finish, CallsInOrder, isConnected
<1>9. ASSUME NEW b \in Bytes, PeerSends(b) PROVE CallsInOrder'
  BY <1>9 DEF PeerSends, callVars, CallsInOrder, isConnected
<1>10. ASSUME NEW o \in Options, NEW ms \in Timeouts, SetTimeout(o, ms)
       PROVE CallsInOrder'
  BY <1>10 DEF SetTimeout, Call, CallsInOrder
<1>11. ASSUME NEW o \in {"connect"} \cup Exchanges, NEW n \in Nat,
              NEW request \in Nat \cup {NullData}, NEW limit \in Nat,
              BeginConnect(o, n, request, limit)
       PROVE CallsInOrder'
  BY <1>11 DEF BeginConnect, Call, Disconnect, CallsInOrder, isConnected
<1>12. ASSUME NEW f \in Fds, AddressConnects(f) PROVE CallsInOrder'
  BY <1>12, SyncAssumption DEF AddressConnects, Finish, CallsInOrder, isConnected, NoFd
<1>13. ASSUME NEW payload \in Nat \cup {NullData}, BeginSend(payload) PROVE CallsInOrder'
  BY <1>13 DEF BeginSend, Finish, CallsInOrder, isConnected, Exchanges
<1>14. ASSUME NEW n \in Nat, Sends(n) PROVE CallsInOrder'
  BY <1>14 DEF Sends, AllSent, EnterReceive, Finish, CallsInOrder, isConnected, Exchanges
<1>15. ASSUME NEW o \in Receives, NEW size \in Nat, BeginReceive(o, size)
       PROVE CallsInOrder'
  BY <1>15 DEF BeginReceive, Finish, CallsInOrder, isConnected, Exchanges, Receives
<1>16. ASSUME NEW k \in 1..Len(inbox), RecvReturns(k) PROVE CallsInOrder'
  BY <1>16 DEF RecvReturns, Arrives, Finish, CallsInOrder, isConnected
<1>17. ASSUME NEW error \in Errors, SendFails(error) PROVE CallsInOrder'
  BY <1>17 DEF SendFails, Finish, CallsInOrder, isConnected
<1>18. ASSUME NEW error \in Errors, RecvFails(error) PROVE CallsInOrder'
  BY <1>18 DEF RecvFails, Finish, CallsInOrder, isConnected
<1>19. CASE UNCHANGED syncVars
  BY <1>19 DEF syncVars, callVars, CallsInOrder, isConnected
<1> QED
  BY <1>1, <1>2, <1>3, <1>4, <1>5, <1>6, <1>7, <1>8, <1>9, <1>10, <1>11, <1>12, <1>13,
     <1>14, <1>15, <1>16, <1>17, <1>18, <1>19, SyncSteps

\* A sequence cut after its k-th element.
LEMMA Cut ==
  ASSUME NEW S, NEW s \in Seq(S), NEW k \in 0..Len(s)
  PROVE  /\ SubSeq(s, 1, k) \in Seq(S) /\ Len(SubSeq(s, 1, k)) = k
         /\ SubSeq(s, k + 1, Len(s)) \in Seq(S) /\ Len(SubSeq(s, k + 1, Len(s))) = Len(s) - k
         /\ SubSeq(s, 1, k) \o SubSeq(s, k + 1, Len(s)) = s
<1>1. Len(s) \in Nat /\ k \in Nat /\ k <= Len(s) /\ \A i \in 1..Len(s) : s[i] \in S
  BY LenProperties
<1>2. \A i \in 1..k : s[i] \in S
  BY <1>1
<1>3. \A i \in (k + 1)..Len(s) : s[i] \in S
  BY <1>1
<1>4. /\ SubSeq(s, 1, k) \in Seq(S) /\ Len(SubSeq(s, 1, k)) = k
      /\ \A i \in 1..k : SubSeq(s, 1, k)[i] = s[i]
  <2>1. /\ SubSeq(s, 1, k) \in Seq(S)
        /\ Len(SubSeq(s, 1, k)) = IF 1 <= k THEN k - 1 + 1 ELSE 0
        /\ \A i \in 1..(k - 1 + 1) : SubSeq(s, 1, k)[i] = s[1 + i - 1]
    BY <1>1, <1>2, SubSeqProperties
  <2> QED
    BY <2>1, <1>1
<1>5. /\ SubSeq(s, k + 1, Len(s)) \in Seq(S)
      /\ Len(SubSeq(s, k + 1, Len(s))) = Len(s) - k
      /\ \A i \in 1..(Len(s) - k) : SubSeq(s, k + 1, Len(s))[i] = s[k + i]
  <2>1. /\ SubSeq(s, k + 1, Len(s)) \in Seq(S)
        /\ Len(SubSeq(s, k + 1, Len(s))) = IF k + 1 <= Len(s) THEN Len(s) - (k + 1) + 1 ELSE 0
        /\ \A i \in 1..(Len(s) - (k + 1) + 1) : SubSeq(s, k + 1, Len(s))[i] = s[k + 1 + i - 1]
    BY <1>1, <1>3, SubSeqProperties
  <2> QED
    BY <2>1, <1>1
<1>6. SubSeq(s, 1, k) \o SubSeq(s, k + 1, Len(s)) = s
  <2> DEFINE a == SubSeq(s, 1, k)
             b == SubSeq(s, k + 1, Len(s))
  <2>1. /\ a \o b \in Seq(S) /\ Len(a \o b) = Len(a) + Len(b)
        /\ \A i \in 1..Len(a) + Len(b) : (a \o b)[i] = IF i <= Len(a) THEN a[i] ELSE b[i - Len(a)]
    BY <1>4, <1>5, ConcatProperties
  <2>2. \A i \in 1..Len(s) : (a \o b)[i] = s[i]
    <3> HIDE DEF a, b
    <3> SUFFICES ASSUME NEW i \in 1..Len(s) PROVE (a \o b)[i] = s[i]
      OBVIOUS
    <3>1. Len(a) = k /\ Len(b) = Len(s) - k
      BY <1>4, <1>5 DEF a, b
    <3>2. CASE i <= k
      BY <3>1, <3>2, <2>1, <1>1, <1>4 DEF a
    <3>3. CASE i > k
      <4>1. i - k \in 1..(Len(s) - k) /\ k + (i - k) = i
        BY <1>1, <3>3
      <4>2. b[i - k] = s[k + (i - k)]
        BY <1>5, <4>1 DEF b
      <4>3. i \in 1..Len(a) + Len(b) /\ ~(i <= Len(a))
        BY <1>1, <3>1, <3>3
      <4>4. (a \o b)[i] = b[i - Len(a)]
        BY <2>1, <4>3
      <4> QED
        BY <4>1, <4>2, <4>4, <3>1
    <3>4. i <= k \/ i > k
      BY <1>1
    <3> QED
      BY <3>2, <3>3, <3>4
  <2>3. Len(a \o b) = Len(s)
    <3>1. Len(a) = k /\ Len(b) = Len(s) - k
      BY <1>4, <1>5
    <3> HIDE DEF a, b
    <3> QED
      BY <3>1, <2>1, <1>1
  <2> QED
    BY <2>1, <2>2, <2>3, SeqEqual
<1> QED
  BY <1>4, <1>5, <1>6

\* A configured timeout becomes a pair of seconds and microseconds.
LEMMA TimevalType ==
  ASSUME NEW ms \in Int
  PROVE  sanitizeTimeout(ms) \in Nat /\ toTimeval(ms) \in Nat \X Nat
<1>1. sanitizeTimeout(ms) \in Nat
  BY DEF sanitizeTimeout
<1>2. \A n \in Nat : n \div 1000 \in Nat /\ (n % 1000) * 1000 \in Nat
  OBVIOUS
<1> QED
  BY <1>1, <1>2 DEF toTimeval

\* The values that the steps give to the variables are of their types.
LEMMA ByteFacts ==
  ASSUME SyncTypeOK
  PROVE  /\ <<>> \in Seq(Bytes)
         /\ [o \in Options |-> toTimeval(0)] \in [Options -> Nat \X Nat]
         /\ configureSocket \in [Options -> Nat \X Nat]
         /\ handed \o out \in Seq(Bytes)
         /\ \A b \in Bytes : Append(stream, b) \in Seq(Bytes) /\ Append(inbox, b) \in Seq(Bytes)
<1>1. \A ms \in Int : toTimeval(ms) \in Nat \X Nat
  BY TimevalType
<1>2. [o \in Options |-> toTimeval(0)] \in [Options -> Nat \X Nat]
  BY <1>1, 0 \in Int, Zenon
<1>3. \A o \in Options : m_timeout[o] \in Int
  BY DEF SyncTypeOK
<1>4. configureSocket \in [Options -> Nat \X Nat]
  BY <1>1, <1>3, Zenon DEF configureSocket
<1> QED
  BY <1>2, <1>4 DEF SyncTypeOK

\* What a recv moves from the kernel to the buffer.
LEMMA ChunkFacts ==
  ASSUME SyncTypeOK, NEW k \in 1..Len(inbox), RecvReturns(k)
  PROVE  /\ out' \in Seq(Bytes) /\ handed' \in Seq(Bytes) /\ inbox' \in Seq(Bytes)
         /\ Len(out') = Len(out) + k
         /\ out' \o inbox' = out \o inbox
         /\ handed' = IF DoneWith(SubSeq(inbox, 1, k)) \/ Len(out') = want THEN handed \o out' ELSE handed
<1> DEFINE chunk == SubSeq(inbox, 1, k)
<1>1. inbox \in Seq(Bytes) /\ out \in Seq(Bytes) /\ handed \in Seq(Bytes)
  BY DEF SyncTypeOK
<1>2. k \in 0..Len(inbox)
  BY <1>1, LenProperties
<1>3. /\ chunk \in Seq(Bytes) /\ Len(chunk) = k
      /\ SubSeq(inbox, k + 1, Len(inbox)) \in Seq(Bytes)
      /\ chunk \o SubSeq(inbox, k + 1, Len(inbox)) = inbox
  BY <1>1, <1>2, Cut
<1>4. /\ out' = out \o chunk /\ inbox' = SubSeq(inbox, k + 1, Len(inbox))
      /\ handed' = IF DoneWith(chunk) \/ Len(out') = want THEN handed \o out' ELSE handed
  BY DEF RecvReturns, Arrives
<1> HIDE DEF chunk
<1>5. out' \in Seq(Bytes) /\ Len(out') = Len(out) + k
  BY <1>1, <1>3, <1>4, ConcatProperties
<1>6. handed \o out' \in Seq(Bytes)
  BY <1>1, <1>5, ConcatProperties
<1>7. out' \o inbox' = out \o inbox
  <2> DEFINE others == SubSeq(inbox, k + 1, Len(inbox))
  <2>1. others \in Seq(Bytes) /\ chunk \o others = inbox /\ out' = out \o chunk /\ inbox' = others
    BY <1>3, <1>4
  <2> HIDE DEF others
  <2>2. (out \o chunk) \o others = out \o (chunk \o others)
    <3>1. out \in Seq(Bytes) /\ chunk \in Seq(Bytes) /\ others \in Seq(Bytes)
      BY <1>1, <1>3, <2>1
    <3> QED
      BY <3>1
  <2> QED
    BY <2>1, <2>2
<1> QED
  BY <1>1, <1>3, <1>4, <1>5, <1>6, <1>7 DEF chunk

\* Every step keeps the types. CallsInOrder says that a payload under way is no null
\* pointer, and that an attempt to connect has an address left.
LEMMA SyncTypeStep ==
  ASSUME SyncTypeOK, CallsInOrder, [SyncNext]_syncVars
  PROVE  SyncTypeOK'
<1>1. CASE PeerCloses
  BY <1>1 DEF PeerCloses, callVars, SyncTypeOK
<1>2. CASE Close
  BY <1>2, ByteFacts DEF Close, Disconnect, callVars, SyncTypeOK
<1>3. CASE ExchangeCloses
  BY <1>3, ByteFacts DEF ExchangeCloses, Disconnect, SyncTypeOK
<1>4. CASE AddressFails
  <2>1. addresses - 1 \in Nat
    BY <1>4 DEF AddressFails, CallsInOrder, SyncTypeOK
  <2>2. pc' \in {"idle", pc} /\ out' \in {<<>>, out} /\ result' \in {"Failed", result} /\ lastError' = "other"
    BY <1>4 DEF AddressFails, ConnectFails
  <2> QED
    BY <1>4, <2>1, <2>2, ByteFacts DEF AddressFails, netVars, SyncTypeOK, IOResults
<1>5. CASE BeginShutdown
  BY <1>5 DEF BeginShutdown, Finish, NoBuffer, netVars, SyncTypeOK, Operations, IOResults
<1>6. CASE Shutdown
  BY <1>6, ByteFacts DEF Shutdown, Finish, EnterReceive, netVars, SyncTypeOK, IOResults
<1>7. CASE ShutdownFails
  BY <1>7 DEF ShutdownFails, Finish, netVars, SyncTypeOK, IOResults
<1>8. CASE RecvEof
  BY <1>8 DEF RecvEof, Finish, SyncTypeOK, IOResults
<1>9. ASSUME NEW b \in Bytes, PeerSends(b) PROVE SyncTypeOK'
  BY <1>9 DEF PeerSends, callVars, SyncTypeOK
<1>10. ASSUME NEW o \in Options, NEW ms \in Timeouts, SetTimeout(o, ms) PROVE SyncTypeOK'
  <2>1. sanitizeTimeout(ms) \in Nat /\ toTimeval(sanitizeTimeout(ms)) \in Nat \X Nat
    BY SyncAssumption, TimevalType
  <2>2. m_timeout' \in [Options -> Nat]
    BY <1>10, <2>1, Zenon DEF SetTimeout, SyncTypeOK
  <2>3. [option EXCEPT ![o] = toTimeval(sanitizeTimeout(ms))] \in [Options -> Nat \X Nat]
    BY <2>1, Zenon DEF SyncTypeOK
  <2>4. /\ option' \in [Options -> Nat \X Nat] /\ untimed' \subseteq Options
        /\ lastError' \in {"none", "other"} /\ result' \in {"Success", "Failed"}
    BY <1>10, <2>3 DEF SetTimeout, applyConfiguredTimeout, SyncTypeOK
  <2> QED
    BY <1>10, <2>2, <2>4, ByteFacts
    DEF SetTimeout, Call, NoBuffer, SyncTypeOK, IOResults, Operations
<1>11. ASSUME NEW o \in {"connect"} \cup Exchanges, NEW n \in Nat,
              NEW request \in Nat \cup {NullData}, NEW limit \in Nat,
              BeginConnect(o, n, request, limit)
       PROVE SyncTypeOK'
  BY <1>11, ByteFacts
  DEF BeginConnect, Call, ConnectFails, Disconnect, SyncTypeOK, Operations, IOResults
<1>12. ASSUME NEW f \in Fds, AddressConnects(f) PROVE SyncTypeOK'
  BY <1>12, ByteFacts DEF AddressConnects, Finish, SyncTypeOK, IOResults
<1>13. ASSUME NEW payload \in Nat \cup {NullData}, BeginSend(payload) PROVE SyncTypeOK'
  BY <1>13 DEF BeginSend, NoBuffer, Finish, netVars, SyncTypeOK, Operations, IOResults
<1>14. ASSUME NEW n \in Nat, Sends(n) PROVE SyncTypeOK'
  <2>1. rest' \in Nat
    BY <1>14 DEF Sends, SyncTypeOK
  <2>2. EnterReceive => /\ pc' \in {"close", "idle", "recv"} /\ out' = <<>> /\ lastError' = "none"
                        /\ result' \in {"InvalidArgument", result}
    BY DEF EnterReceive, Finish
  <2>3. AllSent => /\ pc' \in {"close", "idle", "recv", "shutdown"} /\ out' \in {<<>>, out}
                   /\ lastError' \in {"none", lastError}
                   /\ result' \in {"InvalidArgument", "Success", result}
    <3>1. CallsInOrder /\ pc = "send" => op \in {"sendAll", "exchangeOnce", "exchangeOnceUntilClosed"}
      BY DEF CallsInOrder, Exchanges
    <3>2. pc = "send"
      BY <1>14 DEF Sends
    <3> QED
      BY <2>2, <3>1, <3>2 DEF AllSent, Finish
  <2>4. /\ pc' \in {pc, "close", "idle", "recv", "shutdown"} /\ out' \in {<<>>, out}
        /\ lastError' \in {"none", lastError}
        /\ result' \in {"InvalidArgument", "Success", result}
    BY <1>14, <2>3 DEF Sends
  <2> QED
    BY <1>14, <2>1, <2>4, ByteFacts DEF Sends, netVars, SyncTypeOK, IOResults
<1>15. ASSUME NEW o \in Receives, NEW size \in Nat, BeginReceive(o, size)
       PROVE SyncTypeOK'
  BY <1>15 DEF BeginReceive, Finish, netVars, SyncTypeOK, Operations, IOResults
<1>16. ASSUME NEW k \in 1..Len(inbox), RecvReturns(k) PROVE SyncTypeOK'
  <2>1. out' \in Seq(Bytes) /\ handed' \in Seq(Bytes) /\ inbox' \in Seq(Bytes)
    BY <1>16, ChunkFacts DEF RecvReturns
  <2>2. /\ pc' \in {pc, "close", "idle"} /\ lastError' \in {"none", "EMSGSIZE", lastError}
        /\ result' \in {"Success", "Failed", result}
    BY <1>16 DEF RecvReturns, Arrives, Finish
  <2> QED
    BY <1>16, <2>1, <2>2 DEF RecvReturns, SyncTypeOK, IOResults
<1>17. ASSUME NEW error \in Errors, SendFails(error) PROVE SyncTypeOK'
  BY <1>17
  DEF SendFails, Finish, classifySocketError, netVars, SyncTypeOK, IOResults, Errors
<1>18. ASSUME NEW error \in Errors, RecvFails(error) PROVE SyncTypeOK'
  BY <1>18 DEF RecvFails, Finish, classifySocketError, SyncTypeOK, IOResults, Errors
<1>19. CASE UNCHANGED syncVars
  BY <1>19 DEF syncVars, netVars, callVars, SyncTypeOK
<1> QED
  BY <1>1, <1>2, <1>3, <1>4, <1>5, <1>6, <1>7, <1>8, <1>9, <1>10, <1>11, <1>12, <1>13,
     <1>14, <1>15, <1>16, <1>17, <1>18, <1>19, SyncSteps

\* Every step keeps the one descriptor open and configured: a socket replaces another
\* only after Disconnect has closed it.
LEMMA SocketStep ==
  ASSUME SyncTypeOK, CallsInOrder, SocketKept, [SyncNext]_syncVars
  PROVE  SocketKept'
<1>1. CASE PeerCloses
  BY <1>1 DEF PeerCloses, callVars, SocketKept, SocketInOrder
<1>2. CASE Close
  BY <1>2 DEF Close, Disconnect, SocketKept, SocketInOrder, isConnected
<1>3. CASE ExchangeCloses
  BY <1>3 DEF ExchangeCloses, Disconnect, SocketKept, SocketInOrder, isConnected
<1>4. CASE AddressFails
  BY <1>4 DEF AddressFails, netVars, CallsInOrder, SocketKept, SocketInOrder, isConnected
<1>5. CASE BeginShutdown
  BY <1>5 DEF BeginShutdown, netVars, SocketKept, SocketInOrder, isConnected
<1>6. CASE Shutdown
  BY <1>6
  DEF Shutdown, Finish, EnterReceive, netVars, CallsInOrder, SocketKept, SocketInOrder
<1>7. CASE ShutdownFails
  BY <1>7 DEF ShutdownFails, Finish, netVars, CallsInOrder, SocketKept, SocketInOrder
<1>8. CASE RecvEof
  BY <1>8 DEF RecvEof, Finish, CallsInOrder, SocketKept, SocketInOrder
<1>9. ASSUME NEW b \in Bytes, PeerSends(b) PROVE SocketKept'
  BY <1>9 DEF PeerSends, callVars, SocketKept, SocketInOrder
<1>10. ASSUME NEW o \in Options, NEW ms \in Timeouts, SetTimeout(o, ms) PROVE SocketKept'
  BY <1>10
  DEF SetTimeout, Call, applyConfiguredTimeout, SyncTypeOK, SocketKept, SocketInOrder,
      isConnected, Exchanges
<1>11. ASSUME NEW o \in {"connect"} \cup Exchanges, NEW n \in Nat,
              NEW request \in Nat \cup {NullData}, NEW limit \in Nat,
              BeginConnect(o, n, request, limit)
       PROVE SocketKept'
  BY <1>11 DEF BeginConnect, Disconnect, SocketKept, SocketInOrder, isConnected
<1>12. ASSUME NEW f \in Fds, AddressConnects(f) PROVE SocketKept'
  BY <1>12, SyncAssumption
  DEF AddressConnects, Finish, configureSocket, CallsInOrder, SocketKept, SocketInOrder,
      isConnected, NoFd
<1>13. ASSUME NEW payload \in Nat \cup {NullData}, BeginSend(payload) PROVE SocketKept'
  BY <1>13 DEF BeginSend, Finish, netVars, SocketKept, SocketInOrder, isConnected
<1>14. ASSUME NEW n \in Nat, Sends(n) PROVE SocketKept'
  BY <1>14
  DEF Sends, AllSent, EnterReceive, Finish, netVars, CallsInOrder, SocketKept,
      SocketInOrder, Exchanges
<1>15. ASSUME NEW o \in Receives, NEW size \in Nat, BeginReceive(o, size)
       PROVE SocketKept'
  BY <1>15 DEF BeginReceive, Finish, netVars, SocketKept, SocketInOrder, isConnected
<1>16. ASSUME NEW k \in 1..Len(inbox), RecvReturns(k) PROVE SocketKept'
  BY <1>16
  DEF RecvReturns, Arrives, Finish, CallsInOrder, SocketKept, SocketInOrder, Receives
<1>17. ASSUME NEW error \in Errors, SendFails(error) PROVE SocketKept'
  BY <1>17 DEF SendFails, Finish, netVars, CallsInOrder, SocketKept, SocketInOrder
<1>18. ASSUME NEW error \in Errors, RecvFails(error) PROVE SocketKept'
  BY <1>18 DEF RecvFails, Finish, CallsInOrder, SocketKept, SocketInOrder, Receives
<1>19. CASE UNCHANGED syncVars
  BY <1>19 DEF syncVars, netVars, callVars, SocketKept, SocketInOrder, isConnected
<1> QED
  BY <1>1, <1>2, <1>3, <1>4, <1>5, <1>6, <1>7, <1>8, <1>9, <1>10, <1>11, <1>12, <1>13,
     <1>14, <1>15, <1>16, <1>17, <1>18, <1>19, SyncSteps

\* A receive begins without a delimiter.
LEMMA NothingIsNoDelimiter == ~HasDelimiter(<<>>)
  BY DEF HasDelimiter

\* How a chunk ends an operation.
LEMMA ChunkEnds ==
  ASSUME SyncTypeOK, CallsInOrder, LoopGoesOn, NEW k \in 1..Len(inbox), RecvReturns(k)
  PROVE  /\ pc = "recv" /\ op' = op /\ want' = want /\ eof' = eof /\ rest' = rest
         /\ \/ /\ pc' = "recv" /\ result' = result /\ lastError' = "none" /\ handed' = handed
               /\ Manner # "receiveSome" /\ Len(out') # want
               /\ Manner = "receiveUntilDelimiter" => ~HasDelimiter(out')
            \/ /\ pc' = (IF op \in Exchanges THEN "close" ELSE "idle")
               /\ result' = "Success" /\ lastError' = "none" /\ handed' = handed \o out'
               /\ Manner = "receiveExact" => Len(out') = want
               /\ Manner = "receiveUntilDelimiter" => HasDelimiter(out')
               /\ Manner # "receiveUntilClosed"
            \/ /\ pc' = (IF op \in Exchanges THEN "close" ELSE "idle")
               /\ result' = "Failed" /\ lastError' = "EMSGSIZE" /\ handed' = handed \o out'
               /\ Len(out') = want
               /\ Manner \in {"receiveUntilDelimiter", "receiveUntilClosed"}
               /\ Manner = "receiveUntilDelimiter" => ~HasDelimiter(out')
         /\ Len(out') <= want
<1> DEFINE chunk == SubSeq(inbox, 1, k)
<1>1. /\ pc = "recv" /\ op' = op /\ want' = want /\ eof' = eof /\ rest' = rest
      /\ k \in 1..Smaller(RecvSize, Len(inbox))
      /\ Arrives(chunk) /\ out' = out \o chunk
  BY DEF RecvReturns, Arrives
<1>4. /\ lastError = "none" /\ Len(out) < want /\ Len(out) \in Nat /\ want \in Nat
      /\ out \in Seq(Bytes) /\ inbox \in Seq(Bytes) /\ Len(inbox) \in Nat
  BY <1>1 DEF LoopGoesOn, SyncTypeOK
<1>5. RecvSize \in Nat /\ RecvSize <= want - Len(out)
  BY <1>4, SyncAssumption DEF RecvSize, Smaller
<1>6. Len(out') <= want
  <2>1. k <= RecvSize /\ k \in Nat
    BY <1>1, <1>4, <1>5 DEF Smaller
  <2>2. Len(out') = Len(out) + k
    BY ChunkFacts
  <2> QED
    BY <1>4, <1>5, <2>1, <2>2
<1> HIDE DEF chunk
<1>2. op \in Receives \cup Exchanges /\ Manner \in Receives
  BY <1>1 DEF CallsInOrder, Manner, Receives, Exchanges
<1>3. /\ Manner = "receiveSome" => DoneWith(chunk)
      /\ Manner = "receiveExact" => (DoneWith(chunk) <=> Len(out') = want)
      /\ Manner = "receiveUntilDelimiter" => (DoneWith(chunk) <=> HasDelimiter(out'))
      /\ Manner = "receiveUntilClosed" => ~DoneWith(chunk)
  BY <1>1, <1>2 DEF DoneWith
<1>7. CASE DoneWith(chunk)
  BY <1>1, <1>2, <1>3, <1>6, <1>7 DEF Arrives, Finish
<1>8. CASE ~DoneWith(chunk) /\ Len(out') = want
  <2>1. result' = "Failed" /\ lastError' = "EMSGSIZE" /\ pc' = (IF op \in Exchanges THEN "close" ELSE "idle")
    BY <1>1, <1>8 DEF Arrives, Finish
  <2>2. handed' = handed \o out'
    BY <1>1, <1>8 DEF Arrives
  <2> QED
    BY <1>1, <1>2, <1>3, <1>6, <1>8, <2>1, <2>2 DEF Receives
<1>9. CASE ~DoneWith(chunk) /\ Len(out') # want
  <2>1. UNCHANGED <<pc, result, lastError>> /\ handed' = handed
    BY <1>1, <1>9 DEF Arrives
  <2> QED
    BY <1>1, <1>2, <1>3, <1>4, <1>6, <1>9, <2>1
<1> QED
  BY <1>7, <1>8, <1>9

\* A loop of receives is left at its delimiter, its end and its limit.
LEMMA LoopStep ==
  ASSUME SyncTypeOK, CallsInOrder, LoopGoesOn, [SyncNext]_syncVars
  PROVE  LoopGoesOn'
<1>1. CASE PeerCloses
  BY <1>1 DEF PeerCloses, callVars, LoopGoesOn
<1>2. CASE Close
  BY <1>2 DEF Close, callVars, LoopGoesOn
<1>3. CASE ExchangeCloses
  BY <1>3 DEF ExchangeCloses, LoopGoesOn
<1>4. CASE AddressFails
  BY <1>4 DEF AddressFails, LoopGoesOn
<1>5. CASE BeginShutdown
  BY <1>5 DEF BeginShutdown, Finish, LoopGoesOn
<1>6. CASE Shutdown
  BY <1>6 DEF Shutdown, Finish, EnterReceive, SyncTypeOK, CallsInOrder, LoopGoesOn
<1>7. CASE ShutdownFails
  BY <1>7 DEF ShutdownFails, Finish, LoopGoesOn
<1>8. CASE RecvEof
  BY <1>8 DEF RecvEof, LoopGoesOn
<1>9. ASSUME NEW b \in Bytes, PeerSends(b) PROVE LoopGoesOn'
  BY <1>9 DEF PeerSends, callVars, LoopGoesOn
<1>10. ASSUME NEW o \in Options, NEW ms \in Timeouts, SetTimeout(o, ms) PROVE LoopGoesOn'
  BY <1>10 DEF SetTimeout, Call, LoopGoesOn
<1>11. ASSUME NEW o \in {"connect"} \cup Exchanges, NEW n \in Nat,
              NEW request \in Nat \cup {NullData}, NEW limit \in Nat,
              BeginConnect(o, n, request, limit)
       PROVE LoopGoesOn'
  BY <1>11 DEF BeginConnect, Call, LoopGoesOn
<1>12. ASSUME NEW f \in Fds, AddressConnects(f) PROVE LoopGoesOn'
  BY <1>12 DEF AddressConnects, Finish, LoopGoesOn
<1>13. ASSUME NEW payload \in Nat \cup {NullData}, BeginSend(payload) PROVE LoopGoesOn'
  BY <1>13 DEF BeginSend, Finish, LoopGoesOn
<1>14. ASSUME NEW n \in Nat, Sends(n) PROVE LoopGoesOn'
  <2>1. pc = "send" /\ lastError = "none" /\ op \in {"sendAll", "exchangeOnce", "exchangeOnceUntilClosed"}
    BY <1>14 DEF Sends, LoopGoesOn, CallsInOrder, Exchanges
  <2>2. op' = op /\ want' = want /\ want \in Nat
    BY <1>14 DEF Sends, SyncTypeOK
  <2>3. AllSent => LoopGoesOn'
    <3>1. CASE op = "exchangeOnce"
      BY <2>1, <2>2, <3>1 DEF AllSent, EnterReceive, Finish, LoopGoesOn
    <3>2. CASE op = "exchangeOnceUntilClosed"
      BY <2>1, <2>2, <3>2 DEF AllSent, LoopGoesOn
    <3>3. CASE op = "sendAll"
      BY <2>1, <2>2, <3>3 DEF AllSent, Finish, LoopGoesOn
    <3> QED
      BY <2>1, <3>1, <3>2, <3>3
  <2> QED
    BY <1>14, <2>1, <2>3 DEF Sends, LoopGoesOn
<1>15. ASSUME NEW o \in Receives, NEW size \in Nat, BeginReceive(o, size)
       PROVE LoopGoesOn'
  BY <1>15, NothingIsNoDelimiter DEF BeginReceive, Finish, LoopGoesOn
<1>16. ASSUME NEW k \in 1..Len(inbox), RecvReturns(k) PROVE LoopGoesOn'
  <2>1. Len(out') \in Nat /\ want \in Nat
    BY <1>16 DEF SyncTypeOK
  <2> QED
    BY <1>16, <2>1, ChunkEnds DEF LoopGoesOn, Manner
<1>17. ASSUME NEW error \in Errors, SendFails(error) PROVE LoopGoesOn'
  BY <1>17 DEF SendFails, Finish, LoopGoesOn
<1>18. ASSUME NEW error \in Errors, RecvFails(error) PROVE LoopGoesOn'
  BY <1>18 DEF RecvFails, Finish, LoopGoesOn
<1>19. CASE UNCHANGED syncVars
  BY <1>19 DEF syncVars, callVars, LoopGoesOn
<1> QED
  BY <1>1, <1>2, <1>3, <1>4, <1>5, <1>6, <1>7, <1>8, <1>9, <1>10, <1>11, <1>12, <1>13,
     <1>14, <1>15, <1>16, <1>17, <1>18, <1>19, SyncSteps

\* Every step keeps what was handed out, what is in the buffer and what the kernel
\* still has as the parts of one stream.
LEMMA StreamStep ==
  ASSUME SyncTypeOK, CallsInOrder, LoopGoesOn, StreamKept, [SyncNext]_syncVars
  PROVE  StreamKept'
<1>1. CASE PeerCloses
  BY <1>1 DEF PeerCloses, callVars, StreamKept, StreamIntact, isConnected
<1>2. CASE Close
  BY <1>2 DEF Close, Disconnect, callVars, StreamKept, StreamIntact
<1>3. CASE ExchangeCloses
  BY <1>3 DEF ExchangeCloses, Disconnect, StreamKept, StreamIntact
<1>4. CASE AddressFails
  BY <1>4 DEF AddressFails, netVars, CallsInOrder, StreamKept, StreamIntact
<1>5. CASE BeginShutdown
  BY <1>5 DEF BeginShutdown, netVars, StreamKept, StreamIntact, isConnected
<1>6. CASE Shutdown
  BY <1>6
  DEF Shutdown, Finish, EnterReceive, netVars, StreamKept, StreamIntact, isConnected
<1>7. CASE ShutdownFails
  BY <1>7 DEF ShutdownFails, Finish, netVars, StreamKept, StreamIntact, isConnected
<1>8. CASE RecvEof
  BY <1>8 DEF RecvEof, Finish, CallsInOrder, StreamKept, StreamIntact, isConnected
<1>9. ASSUME NEW b \in Bytes, PeerSends(b) PROVE StreamKept'
  <2> DEFINE held == IF pc = "recv" THEN out ELSE <<>>
  <2>1. /\ held \in Seq(Bytes) /\ held' = held /\ handed \in Seq(Bytes) /\ inbox \in Seq(Bytes)
        /\ isConnected /\ isConnected' /\ stream = (handed \o held) \o inbox
        /\ stream' = Append(stream, b) /\ inbox' = Append(inbox, b) /\ handed' = handed
    BY <1>9 DEF PeerSends, callVars, SyncTypeOK, StreamKept, StreamIntact, isConnected
  <2> HIDE DEF held
  <2>2. \A s, t \in Seq(Bytes) : Append(s \o t, b) = s \o Append(t, b)
    OBVIOUS
  <2>3. handed \o held \in Seq(Bytes)
    BY <2>1, ConcatProperties
  <2>4. stream' = (handed \o held) \o Append(inbox, b)
    BY <2>1, <2>2, <2>3, Zenon
  <2> QED
    BY <2>1, <2>4 DEF StreamKept, StreamIntact, held
<1>10. ASSUME NEW o \in Options, NEW ms \in Timeouts, SetTimeout(o, ms) PROVE StreamKept'
  BY <1>10 DEF SetTimeout, Call, StreamKept, StreamIntact, isConnected
<1>11. ASSUME NEW o \in {"connect"} \cup Exchanges, NEW n \in Nat,
              NEW request \in Nat \cup {NullData}, NEW limit \in Nat,
              BeginConnect(o, n, request, limit)
       PROVE StreamKept'
  BY <1>11 DEF BeginConnect, Call, Disconnect, StreamKept, StreamIntact
<1>12. ASSUME NEW f \in Fds, AddressConnects(f) PROVE StreamKept'
  BY <1>12 DEF AddressConnects, Finish, CallsInOrder, StreamKept, StreamIntact
<1>13. ASSUME NEW payload \in Nat \cup {NullData}, BeginSend(payload) PROVE StreamKept'
  BY <1>13 DEF BeginSend, NoBuffer, netVars, StreamKept, StreamIntact, isConnected
<1>14. ASSUME NEW n \in Nat, Sends(n) PROVE StreamKept'
  BY <1>14
  DEF Sends, AllSent, EnterReceive, Finish, netVars, CallsInOrder, StreamKept,
      StreamIntact, isConnected, Exchanges
<1>15. ASSUME NEW o \in Receives, NEW size \in Nat, BeginReceive(o, size)
       PROVE StreamKept'
  BY <1>15 DEF BeginReceive, netVars, StreamKept, StreamIntact, isConnected
<1>16. ASSUME NEW k \in 1..Len(inbox), RecvReturns(k) PROVE StreamKept'
  <2>1. /\ pc = "recv" /\ stream' = stream /\ isConnected /\ isConnected'
        /\ stream = (handed \o out) \o inbox
        /\ out \in Seq(Bytes) /\ inbox \in Seq(Bytes) /\ handed \in Seq(Bytes)
    BY <1>16 DEF RecvReturns, StreamKept, StreamIntact, SyncTypeOK, isConnected
  <2>2. out' \in Seq(Bytes) /\ inbox' \in Seq(Bytes) /\ out' \o inbox' = out \o inbox
    BY <1>16, ChunkFacts
  <2>3. stream = (handed \o out') \o inbox'
    <3>1. /\ out \in Seq(Bytes) /\ inbox \in Seq(Bytes) /\ handed \in Seq(Bytes)
          /\ out' \in Seq(Bytes) /\ inbox' \in Seq(Bytes)
      BY <2>1, <2>2
    <3>2. (handed \o out) \o inbox = handed \o (out \o inbox)
      BY <3>1
    <3>3. (handed \o out') \o inbox' = handed \o (out' \o inbox')
      BY <3>1
    <3>4. stream = (handed \o out) \o inbox /\ out' \o inbox' = out \o inbox
      BY <2>1, <2>2
    <3> QED
      BY <3>2, <3>3, <3>4, Zenon
  <2>4. \/ pc' = "recv" /\ handed' = handed
        \/ pc' # "recv" /\ handed' = handed \o out'
    BY <1>16, ChunkEnds
  <2>5. CASE pc' = "recv" /\ handed' = handed
    BY <2>1, <2>3, <2>5 DEF StreamKept, StreamIntact
  <2>6. CASE pc' # "recv" /\ handed' = handed \o out'
    <3>1. handed' \o <<>> = handed'
      BY <2>1, <2>2, <2>6, ConcatProperties, ConcatEmptySeq
    <3> QED
      BY <2>1, <2>3, <2>6, <3>1 DEF StreamKept, StreamIntact
  <2> QED
    BY <2>4, <2>5, <2>6
<1>17. ASSUME NEW error \in Errors, SendFails(error) PROVE StreamKept'
  BY <1>17 DEF SendFails, Finish, netVars, StreamKept, StreamIntact, isConnected
<1>18. ASSUME NEW error \in Errors, RecvFails(error) PROVE StreamKept'
  BY <1>18 DEF RecvFails, Finish, CallsInOrder, StreamKept, StreamIntact, isConnected
<1>19. CASE UNCHANGED syncVars
  BY <1>19 DEF syncVars, netVars, callVars, StreamKept, StreamIntact, isConnected
<1> QED
  BY <1>1, <1>2, <1>3, <1>4, <1>5, <1>6, <1>7, <1>8, <1>9, <1>10, <1>11, <1>12, <1>13,
     <1>14, <1>15, <1>16, <1>17, <1>18, <1>19, SyncSteps

\* Every way out of an operation leaves result, error and buffer in agreement.
LEMMA ResultStep ==
  ASSUME SyncTypeOK, CallsInOrder, LoopGoesOn, ResultKept, [SyncNext]_syncVars
  PROVE  ResultKept'
<1>1. CASE PeerCloses
  BY <1>1
  DEF PeerCloses, callVars, ResultKept, ResultIsHonest, JustReceived, Agreement, Manner
<1>2. CASE Close
  BY <1>2
  DEF Close, Disconnect, callVars, ResultKept, ResultIsHonest, JustReceived, isConnected
<1>3. CASE ExchangeCloses
  BY <1>3
  DEF ExchangeCloses, Disconnect, CallsInOrder, ResultKept, ResultIsHonest, JustReceived,
      Agreement, isConnected, Exchanges
<1>4. CASE AddressFails
  BY <1>4
  DEF AddressFails, ConnectFails, CallsInOrder, ResultKept, ResultIsHonest, JustReceived,
      isConnected
<1>5. CASE BeginShutdown
  BY <1>5
  DEF BeginShutdown, Finish, ResultKept, ResultIsHonest, JustReceived, isConnected,
      Exchanges
<1>6. CASE Shutdown
  BY <1>6
  DEF Shutdown, Finish, EnterReceive, CallsInOrder, LoopGoesOn, ResultKept,
      ResultIsHonest, JustReceived, Agreement, Manner, Exchanges
<1>7. CASE ShutdownFails
  BY <1>7
  DEF ShutdownFails, Finish, CallsInOrder, ResultKept, ResultIsHonest, Agreement, Manner
<1>8. CASE RecvEof
  BY <1>8 DEF RecvEof, Finish, LoopGoesOn, ResultKept, ResultIsHonest, Agreement, Manner
<1>9. ASSUME NEW b \in Bytes, PeerSends(b) PROVE ResultKept'
  BY <1>9
  DEF PeerSends, callVars, ResultKept, ResultIsHonest, JustReceived, Agreement, Manner
<1>10. ASSUME NEW o \in Options, NEW ms \in Timeouts, SetTimeout(o, ms) PROVE ResultKept'
  BY <1>10
  DEF SetTimeout, Call, applyConfiguredTimeout, ResultKept, ResultIsHonest, Manner
<1>11. ASSUME NEW o \in {"connect"} \cup Exchanges, NEW n \in Nat,
              NEW request \in Nat \cup {NullData}, NEW limit \in Nat,
              BeginConnect(o, n, request, limit)
       PROVE ResultKept'
  BY <1>11
  DEF BeginConnect, Call, ConnectFails, Disconnect, ResultKept, ResultIsHonest,
      JustReceived, isConnected
<1>12. ASSUME NEW f \in Fds, AddressConnects(f) PROVE ResultKept'
  BY <1>12
  DEF AddressConnects, Finish, CallsInOrder, ResultKept, ResultIsHonest, JustReceived,
      Manner
<1>13. ASSUME NEW payload \in Nat \cup {NullData}, BeginSend(payload) PROVE ResultKept'
  BY <1>13
  DEF BeginSend, NoBuffer, Finish, ResultKept, ResultIsHonest, JustReceived, Agreement,
      Manner
<1>14. ASSUME NEW n \in Nat, Sends(n) PROVE ResultKept'
  <2>1. pc = "send" /\ lastError = "none" /\ op \in {"sendAll", "exchangeOnce", "exchangeOnceUntilClosed"}
    BY <1>14 DEF Sends, LoopGoesOn, CallsInOrder, Exchanges
  <2>2. op' = op /\ want' = want /\ want \in Nat /\ pc \notin {"idle", "close"}
    BY <1>14, <2>1 DEF Sends, SyncTypeOK
  <2>3. CASE n < rest
    <3>1. pc' = "send"
      BY <1>14, <2>1, <2>3 DEF Sends
    <3> QED
      BY <3>1 DEF ResultKept, ResultIsHonest, JustReceived
  <2>4. CASE ~(n < rest)
    <3>1. AllSent /\ rest' = 0
      BY <1>14, <2>4 DEF Sends, SyncTypeOK
    <3>2. CASE op = "exchangeOnce" /\ want # 0
      <4>1. pc' = "recv"
        BY <3>1, <3>2 DEF AllSent, EnterReceive
      <4> QED
        BY <4>1 DEF ResultKept, ResultIsHonest, JustReceived
    <3>3. CASE op = "exchangeOnce" /\ want = 0
      <4>1. pc' = "close" /\ result' = "InvalidArgument" /\ lastError' = "none" /\ out' = <<>>
        BY <3>1, <3>3 DEF AllSent, EnterReceive, Finish, Exchanges
      <4>2. Manner' = "receiveSome"
        BY <3>3, <2>2 DEF Manner
      <4> QED
        BY <4>1, <4>2 DEF ResultKept, ResultIsHonest, Agreement
    <3>4. CASE op = "exchangeOnceUntilClosed"
      <4>1. pc' = "shutdown"
        BY <3>1, <3>4 DEF AllSent
      <4> QED
        BY <4>1 DEF ResultKept, ResultIsHonest, JustReceived
    <3>5. CASE op = "sendAll"
      <4>1. pc' = "idle" /\ result' = "Success" /\ lastError' = "none" /\ op' = "sendAll"
        BY <3>1, <3>5, <2>1, <2>2 DEF AllSent, Finish, Exchanges
      <4> QED
        BY <4>1, <3>1 DEF ResultKept, ResultIsHonest, JustReceived, Receives
    <3> QED
      BY <2>1, <3>2, <3>3, <3>4, <3>5
  <2> QED
    BY <2>3, <2>4
<1>15. ASSUME NEW o \in Receives, NEW size \in Nat, BeginReceive(o, size)
       PROVE ResultKept'
  BY <1>15, NothingIsNoDelimiter
  DEF BeginReceive, Finish, ResultKept, ResultIsHonest, JustReceived, Agreement, Manner
<1>16. ASSUME NEW k \in 1..Len(inbox), RecvReturns(k) PROVE ResultKept'
  <2>1. pc = "recv" /\ op \in Receives \cup Exchanges /\ Len(out) < want
    BY <1>16 DEF RecvReturns, CallsInOrder, LoopGoesOn
  <2>2. Manner' = Manner
    BY <1>16, ChunkEnds DEF Manner
  <2>3. JustReceived' =>
         /\ Manner = "receiveExact" => (result' = "Success" <=> Len(out') = want)
         /\ Manner = "receiveUntilDelimiter" => (result' = "Success" <=> HasDelimiter(out'))
         /\ ~(Manner = "receiveUntilClosed" /\ result' = "Success")
         /\ lastError' = "EMSGSIZE" => Len(out') = want
         /\ result' # "Closed"
    BY <1>16, ChunkEnds DEF JustReceived
  <2>4. pc' \in {"idle", "close"} => Agreement' /\ result' # "InvalidArgument" /\ lastError' # "address"
    BY <1>16, ChunkEnds DEF Agreement
  <2>5. op' = op /\ want' = want
    BY <1>16, ChunkEnds
  <2>6. op # "sendAll"
    BY <2>1 DEF Receives, Exchanges
  <2> QED
    BY <2>2, <2>3, <2>4, <2>5, <2>6 DEF ResultKept, ResultIsHonest, Agreement
<1>17. ASSUME NEW error \in Errors, SendFails(error) PROVE ResultKept'
  BY <1>17
  DEF SendFails, Finish, classifySocketError, CallsInOrder, ResultKept, ResultIsHonest,
      Agreement, Manner, Exchanges, Errors
<1>18. ASSUME NEW error \in Errors, RecvFails(error) PROVE ResultKept'
  BY <1>18
  DEF RecvFails, Finish, classifySocketError, LoopGoesOn, ResultKept, ResultIsHonest,
      Agreement, Manner, Errors
<1>19. CASE UNCHANGED syncVars
  BY <1>19
  DEF syncVars, netVars, callVars, ResultKept, ResultIsHonest, JustReceived, Agreement,
      Manner, isConnected
<1> QED
  BY <1>1, <1>2, <1>3, <1>4, <1>5, <1>6, <1>7, <1>8, <1>9, <1>10, <1>11, <1>12, <1>13,
     <1>14, <1>15, <1>16, <1>17, <1>18, <1>19, SyncSteps

\* The inductive invariant.
SyncInvariant ==
    /\ SyncTypeOK /\ CallsInOrder /\ SocketKept
    /\ LoopGoesOn /\ StreamKept /\ ResultKept

\* A client that was just constructed satisfies the invariant.
LEMMA SyncInitially == SyncInit => SyncInvariant
<1> SUFFICES ASSUME SyncInit PROVE SyncInvariant
  OBVIOUS
<1>1. SyncTypeOK
  <2>1. [o \in Options |-> toTimeval(0)] \in [Options -> Nat \X Nat]
    BY TimevalType
  <2> QED
    BY <2>1, EmptySeq DEF SyncInit, SyncTypeOK, Operations, IOResults
<1>2. CallsInOrder /\ LoopGoesOn
  BY DEF SyncInit, CallsInOrder, LoopGoesOn
<1>3. SocketKept
  BY DEF SyncInit, SocketKept, SocketInOrder, isConnected, Exchanges
<1>4. StreamKept
  BY DEF SyncInit, StreamKept, StreamIntact, isConnected
<1>5. ResultKept
  BY
  DEF SyncInit, ResultKept, ResultIsHonest, JustReceived, isConnected, Receives,
      Exchanges
<1> QED
  BY <1>1, <1>2, <1>3, <1>4, <1>5 DEF SyncInvariant

\* The calls, the socket, the stream and the results stay in order whatever the peer
\* and the system calls of cTCPSyncClient_V2 do.
THEOREM SyncInvariantHolds == SyncSpec => []SyncInvariant
<1>1. SyncInvariant /\ [SyncNext]_syncVars => SyncInvariant'
  BY SyncTypeStep, CallsStep, SocketStep, LoopStep, StreamStep, ResultStep
  DEF SyncInvariant
<1> QED
  BY <1>1, SyncInitially, PTL DEF SyncSpec

\* The members, buffers and socket options of the client keep their types.
THEOREM SyncTypeCorrect == SyncSpec => []SyncTypeOK
<1>1. SyncInvariant => SyncTypeOK
  BY DEF SyncInvariant
<1> QED
  BY <1>1, SyncInvariantHolds, PTL

\* What the receives have returned, what is in the buffer of the one under way and what
\* the kernel still holds are the bytes the peer sent, in order, without loss or
\* repetition, however the reads divide them (receiveExact, receiveUntilDelimiter,
\* receiveUntilClosed).
THEOREM StreamStaysIntact == SyncSpec => []StreamIntact
<1>1. SyncInvariant => StreamIntact
  BY DEF SyncInvariant, StreamKept
<1> QED
  BY <1>1, SyncInvariantHolds, PTL

\* The result of a call, the error it recorded and the buffer it returns agree, whichever
\* system call failed, timed out or met the end of the stream (classifySocketError).
THEOREM ResultsAreHonest == SyncSpec => []ResultIsHonest
<1>1. SyncInvariant => ResultIsHonest
  BY DEF SyncInvariant, ResultKept
<1> QED
  BY <1>1, SyncInvariantHolds, PTL

\* Between the calls no descriptor but m_socket is open, and a connected socket has the
\* timeouts that were set, unless setsockopt refused them (close, configureSocket).
THEOREM SocketStaysInOrder == SyncSpec => []SocketInOrder
<1>1. SyncInvariant => SocketInOrder
  BY DEF SyncInvariant, SocketKept
<1> QED
  BY <1>1, SyncInvariantHolds, PTL

====
