---------------------------- MODULE ThreadQueue ----------------------------
(***************************************************************************)
(* cThreadQueue_V2 (cThreadQueue_V2.h): queues behind a mutex each, with a *)
(* copy of the size that is read without the mutex.  A step is one         *)
(* critical section or one read of the cached size; a reader that looks in *)
(* the middle of a critical section sees the size from before it.  The     *)
(* elements are numbered in the order in which they are pushed.            *)
(*                                                                         *)
(* An allocation may fail in any push.  In the bulk operations the         *)
(* exception then leaves the critical section without syncCachedSizeLocked *)
(* and destroys the elements that are on their way.  Some queues are       *)
(* Private: they are filled by anybody, without failures, and emptied by   *)
(* one consumer alone.                                                     *)
(***************************************************************************)
EXTENDS Integers, Sequences, SequencesExt, FiniteSets

CONSTANTS Queues,
          Private,      \* the queues that only the soloist takes elements from
          Pollers,    \* threads that poll empty() and then call getFront()
          Soloist,      \* one of them
          MaxPushed,    \* bound: how many elements are ever pushed
          MaxBulk       \* bound: the size of a bulk operation

ASSUME QueueAssumption ==
    /\ MaxPushed \in Nat /\ MaxBulk \in Nat \ {0}
    /\ Private \subseteq Queues
    /\ Soloist \in Pollers

VARIABLES m_queue, m_queueSize,
          pushed,       \* how many elements there have been
          saw,          \* the queue a consumer has found not empty, if any
          delivered,    \* the elements handed out
          lost,         \* the elements destroyed unseen
          torn,         \* the queues whose last bulk operation failed
          underflow     \* the queues whose getFront() threw the underflow_error

vars == <<m_queue, m_queueSize, pushed, saw, delivered, lost, torn, underflow>>

NoQueue == "none"

TypeOK ==
    /\ m_queue \in [Queues -> Seq(1..MaxPushed)]
    /\ m_queueSize \in [Queues -> 0..MaxPushed]
    /\ pushed \in 0..MaxPushed
    /\ saw \in [Pollers -> Queues \cup {NoQueue}]
    /\ delivered \subseteq 1..MaxPushed
    /\ lost \subseteq 1..MaxPushed
    /\ torn \subseteq Queues
    /\ underflow \subseteq Queues

Init ==
    /\ m_queue = [q \in Queues |-> <<>>]
    /\ m_queueSize = [q \in Queues |-> 0]
    /\ pushed = 0
    /\ saw = [c \in Pollers |-> NoQueue]
    /\ delivered = {}
    /\ lost = {}
    /\ torn = {}
    /\ underflow = {}

-----------------------------------------------------------------------------
\* The next n elements to be pushed.
NextElements(n) == [k \in 1..n |-> pushed + k]

\* The end of an operation on q that leaves it as s: syncCachedSizeLocked.
Settle(q, s) ==
    /\ m_queue' = [m_queue EXCEPT ![q] = s]
    /\ m_queueSize' = [m_queueSize EXCEPT ![q] = Len(s)]
    /\ torn' = torn \ {q}

\* The exception leaves a bulk operation: the cached size stays as it was.
Unwind(q, s) ==
    /\ q \notin Private
    /\ m_queue' = [m_queue EXCEPT ![q] = s]
    /\ torn' = torn \cup {q}
    /\ UNCHANGED m_queueSize

\* push(element), emplace: a failure has no effect.
Push(q) ==
    /\ pushed < MaxPushed
    /\ pushed' = pushed + 1
    /\ Settle(q, Append(m_queue[q], pushed + 1))
    /\ UNCHANGED <<saw, delivered, lost, underflow>>

\* push(std::queue), of n > 0 elements, of which k arrive.
PushAll(q, n, k) ==
    /\ pushed + n <= MaxPushed
    /\ pushed' = pushed + n
    /\ LET s == m_queue[q] \o SubSeq(NextElements(n), 1, k)
       IN IF k = n THEN Settle(q, s) ELSE Unwind(q, s)
    /\ lost' = lost \cup {pushed + i : i \in (k + 1)..n}
    /\ UNCHANGED <<saw, delivered, underflow>>

\* tryGetFront, in all its forms.
TryGetFront(q) ==
    /\ m_queue[q] # <<>>
    /\ delivered' = delivered \cup {Head(m_queue[q])}
    /\ Settle(q, Tail(m_queue[q]))

\* Mutant: the cached size is not brought up to date.
GetFrontManyUnsynced(q, n, k) ==
    LET m == IF n < Len(m_queue[q]) THEN n ELSE Len(m_queue[q])
    IN /\ k = m
       /\ m_queue' = [m_queue EXCEPT ![q] = SubSeq(@, k + 1, Len(@))]
       /\ delivered' = delivered \cup {m_queue[q][i] : i \in 1..k}
       /\ UNCHANGED <<m_queueSize, torn, pushed, saw, lost, underflow>>

\* getFront(n): the first n elements, or all; a failure at the element after
\* the k-th destroys the k elements already taken out.
GetFrontMany(q, n, k) ==
    LET m == IF n < Len(m_queue[q]) THEN n ELSE Len(m_queue[q])
        rest == SubSeq(m_queue[q], k + 1, Len(m_queue[q]))
        first == {m_queue[q][i] : i \in 1..k}
    IN /\ k <= m
       /\ IF k = m
          THEN Settle(q, rest) /\ delivered' = delivered \cup first /\ UNCHANGED lost
          ELSE Unwind(q, rest) /\ lost' = lost \cup first /\ UNCHANGED delivered
       /\ UNCHANGED <<pushed, saw, underflow>>

GetAll(q) ==
    /\ delivered' = delivered \cup ToSet(m_queue[q])
    /\ Settle(q, <<>>)
    /\ UNCHANGED <<pushed, saw, lost, underflow>>

Clear(q) ==
    /\ lost' = lost \cup ToSet(m_queue[q])
    /\ Settle(q, <<>>)
    /\ UNCHANGED <<pushed, saw, delivered, underflow>>

\* operator=(std::queue&&), with n new elements.
Replace(q, n) ==
    /\ pushed + n <= MaxPushed
    /\ pushed' = pushed + n
    /\ lost' = lost \cup ToSet(m_queue[q])
    /\ Settle(q, NextElements(n))
    /\ UNCHANGED <<saw, delivered, underflow>>

\* Mutant: the source keeps its elements.
MoveFromCopies(q, r) ==
    /\ q # r
    /\ lost' = lost \cup ToSet(m_queue[q])
    /\ m_queue' = [m_queue EXCEPT ![q] = m_queue[r]]
    /\ m_queueSize' = [m_queueSize EXCEPT ![q] = Len(m_queue[r])]
    /\ torn' = torn \ {q}
    /\ UNCHANGED <<pushed, saw, delivered, underflow>>

\* moveFrom, under both mutexes.
MoveFrom(q, r) ==
    /\ q # r
    /\ lost' = lost \cup ToSet(m_queue[q])
    /\ m_queue' = [m_queue EXCEPT ![q] = m_queue[r], ![r] = <<>>]
    /\ m_queueSize' = [m_queueSize EXCEPT ![q] = Len(m_queue[r]), ![r] = 0]
    /\ torn' = torn \ {q, r}
    /\ UNCHANGED <<pushed, saw, delivered, underflow>>

-----------------------------------------------------------------------------
(* A consumer that asks empty() before it calls getFront().                *)

Poll(c, q) ==
    /\ saw[c] = NoQueue
    /\ q \in Private => c = Soloist
    /\ m_queueSize[q] # 0
    /\ saw' = [saw EXCEPT ![c] = q]
    /\ UNCHANGED <<m_queue, m_queueSize, pushed, delivered, lost, torn, underflow>>

GetFront(c) ==
    /\ saw[c] # NoQueue
    /\ saw' = [saw EXCEPT ![c] = NoQueue]
    /\ IF m_queue[saw[c]] = <<>>
       THEN underflow' = underflow \cup {saw[c]} /\ UNCHANGED <<m_queue, m_queueSize, delivered, torn>>
       ELSE TryGetFront(saw[c]) /\ UNCHANGED underflow
    /\ UNCHANGED <<pushed, lost>>

Next ==
    \/ \E q \in Queues : Push(q)
    \/ \E q \in Queues : \E n \in 1..MaxBulk : \E k \in 0..n : PushAll(q, n, k)
    \/ \E c \in Pollers : GetFront(c) \/ \E q \in Queues : Poll(c, q)
    \/ \E q \in Queues \ Private :
          \/ GetAll(q)
          \/ Clear(q)
          \/ \E n \in 1..MaxBulk : \E k \in 0..n : GetFrontMany(q, n, k)
          \/ \E n \in 0..MaxBulk : Replace(q, n)
          \/ \E r \in Queues \ Private : MoveFrom(q, r)

Spec == Init /\ [][Next]_vars

-----------------------------------------------------------------------------
\* Nothing is duplicated and nothing disappears: every element pushed is in one
\* queue, was handed out, or was destroyed by a caller's clear, replacement or
\* failed operation, and a queue holds its elements in the order of the pushes.
FifoExactlyOnce ==
    /\ \A q \in Queues : \A i, j \in DOMAIN m_queue[q] : i < j => m_queue[q][i] < m_queue[q][j]
    /\ \A q, r \in Queues : q # r => ToSet(m_queue[q]) \cap ToSet(m_queue[r]) = {}
    /\ delivered \cap lost = {}
    /\ LET queued == UNION {ToSet(m_queue[q]) : q \in Queues}
       IN /\ queued \cap (delivered \cup lost) = {}
          /\ queued \cup delivered \cup lost = 1..pushed

\* The cached size, which empty() and size() read by default, is wrong only after a
\* bulk operation failed, and only until the next operation completes; and so a
\* single consumer may trust empty(): its getFront() does not throw, as long as it
\* is the only one to take elements out and allocations succeed.
CachedSizeHeals ==
    /\ \A q \in Queues : m_queueSize[q] # Len(m_queue[q]) => q \in torn
    /\ underflow \cap Private = {}
=============================================================================
