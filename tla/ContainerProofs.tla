--------------------------- MODULE ContainerProofs ---------------------------
(***************************************************************************)
(* Proofs about the two containers: ThreadQueue, for all queues, pollers   *)
(* and bulk sizes, and SimpleContainer, for all producers, consumers,      *)
(* items, batches, counts and offsets.                                     *)
(*                                                                         *)
(* Of the queues are proved the types, that no element is duplicated, lost *)
(* or overtaken, and that the cached size is wrong only after a failed     *)
(* bulk operation.  No queue is longer than what was pushed so far, which  *)
(* bounds the cached size (Types).  Every operation but moveFrom leaves    *)
(* one queue with a part of its old elements, in their order, followed by  *)
(* some of the new ones, and accounts for the rest (Operation), so that    *)
(* the order and the account of the elements are kept for all of them by   *)
(* one lemma.  The trust of the single consumer in empty() rests on facts  *)
(* about what it has seen (SoloistTrusts).                                 *)
(*                                                                         *)
(* Of the container are proved the types and its three invariants.  Every  *)
(* grab deals the items out into what stays and what is returned (Deals),  *)
(* and so ExactlyOnce is inductive; so is NoSleeperBesideItems, by counts. *)
(* What the loop of the selective grab computes is shown by induction over *)
(* its iterations.  SetInduction derives that induction from the library's *)
(* theorem on minimal elements, for the set of the numbers that satisfy    *)
(* the claim; LoopExists and LoopUnfolds give the recursive function its   *)
(* equation, and SelectedUpTo is the invariant of the loop.                *)
(***************************************************************************)
EXTENDS ThreadQueue, SimpleContainer, SequenceTheorems, FiniteSetTheorems, WellFoundedInduction, TLAPS

-----------------------------------------------------------------------------
(* The queues.                                                             *)

Elements == 1..MaxPushed

Types == TypeOK /\ \A q \in Queues : Len(m_queue[q]) <= pushed

Ordered(s) == \A i, j \in DOMAIN s : i < j => s[i] < s[j]

\* What the proofs use of sequences; s takes the place of a queue's content.

\* Appending element e at the back.
LEMMA AppendFacts ==
  ASSUME NEW s \in Seq(Elements), NEW e \in Elements
  PROVE  /\ Append(s, e) \in Seq(Elements)
         /\ Len(Append(s, e)) = Len(s) + 1
         /\ ToSet(Append(s, e)) = ToSet(s) \cup {e}
         /\ Ordered(s) /\ (\A x \in ToSet(s) : x < e) => Ordered(Append(s, e))
<1>1. /\ Append(s, e) \in Seq(Elements)
      /\ Len(Append(s, e)) = Len(s) + 1
      /\ DOMAIN s = 1..Len(s)
      /\ DOMAIN Append(s, e) = 1..(Len(s) + 1)
      /\ \A i \in 1..Len(s) : Append(s, e)[i] = s[i]
      /\ Append(s, e)[Len(s) + 1] = e
      /\ Len(s) \in Nat
  OBVIOUS
<1>2. ToSet(Append(s, e)) = ToSet(s) \cup {e}
  BY <1>1 DEF ToSet
<1>3. ASSUME Ordered(s), \A x \in ToSet(s) : x < e PROVE Ordered(Append(s, e))
  BY <1>1, <1>3 DEF Ordered, ToSet
<1> QED
  BY <1>1, <1>2, <1>3

\* Taking the first k elements.
LEMMA RestFacts ==
  ASSUME NEW s \in Seq(Elements), NEW k \in 0..Len(s)
  PROVE  LET rest == SubSeq(s, k + 1, Len(s))
             first == {s[i] : i \in 1..k}
         IN /\ rest \in Seq(Elements)
            /\ Len(rest) = Len(s) - k
            /\ first \cup ToSet(rest) = ToSet(s)
            /\ Ordered(s) => Ordered(rest) /\ first \cap ToSet(rest) = {}
<1> DEFINE rest == SubSeq(s, k + 1, Len(s))
           first == {s[i] : i \in 1..k}
<1>1. /\ rest \in Seq(Elements)
      /\ Len(rest) = Len(s) - k
      /\ DOMAIN s = 1..Len(s)
      /\ DOMAIN rest = 1..(Len(s) - k)
      /\ \A i \in 1..(Len(s) - k) : rest[i] = s[k + i]
      /\ Len(s) \in Nat
  OBVIOUS
<1> HIDE DEF rest
<1>2. first \cup ToSet(rest) = ToSet(s)
  <2>1. ASSUME NEW x \in ToSet(s) PROVE x \in first \cup ToSet(rest)
    <3>1. PICK i \in 1..Len(s) : x = s[i]
      BY <1>1, <2>1 DEF ToSet
    <3>2. CASE i <= k
      BY <3>1, <3>2
    <3>3. CASE i > k
      <4>1. i - k \in 1..(Len(s) - k) /\ k + (i - k) = i
        BY <3>1, <3>3, <1>1
      <4> QED BY <4>1, <3>1, <1>1 DEF ToSet
    <3> QED BY <3>1, <3>2, <3>3
  <2>2. ASSUME NEW j \in 1..(Len(s) - k) PROVE rest[j] \in ToSet(s)
    <3>1. k + j \in 1..Len(s)
      BY <1>1
    <3> QED BY <3>1, <1>1 DEF ToSet
  <2>3. first \subseteq ToSet(s)
    BY <1>1 DEF ToSet
  <2>4. ToSet(rest) \subseteq ToSet(s)
    BY <2>2, <1>1 DEF ToSet
  <2> QED BY <2>1, <2>3, <2>4
<1>3. ASSUME Ordered(s) PROVE Ordered(rest) /\ first \cap ToSet(rest) = {}
  <2>1. ASSUME NEW i \in 1..(Len(s) - k), NEW j \in 1..(Len(s) - k), i < j
        PROVE  rest[i] < rest[j]
    <3>1. k + i \in 1..Len(s) /\ k + j \in 1..Len(s) /\ k + i < k + j
      BY <2>1, <1>1
    <3>2. s[k + i] < s[k + j]
      BY <3>1, <1>1, <1>3 DEF Ordered
    <3>3. rest[i] = s[k + i] /\ rest[j] = s[k + j]
      BY <1>1
    <3> QED BY <3>2, <3>3
  <2>2. ASSUME NEW i \in 1..k, NEW j \in 1..(Len(s) - k) PROVE s[i] # rest[j]
    <3>1. i \in 1..Len(s) /\ k + j \in 1..Len(s) /\ i < k + j
      BY <1>1
    <3>2. s[i] < s[k + j]
      BY <3>1, <1>1, <1>3 DEF Ordered
    <3>3. s[i] \in Int /\ s[k + j] \in Int
      BY <3>1, QueueAssumption DEF Elements
    <3> QED BY <3>2, <3>3, <1>1
  <2>3. first \cap ToSet(rest) = {}
    BY <2>2, <1>1 DEF ToSet
  <2>4. Ordered(rest)
    BY <2>1, <1>1 DEF Ordered
  <2> QED BY <2>3, <2>4
<1> QED
  BY <1>1, <1>2, <1>3 DEF rest

\* Appending k new elements, which are larger than all elements there are.
LEMMA ConcatFacts ==
  ASSUME NEW s \in Seq(Elements), NEW n \in Nat, NEW k \in 0..n, pushed \in Nat,
         pushed + n <= MaxPushed
  PROVE  LET new == SubSeq(NextElements(n), 1, k)
         IN /\ s \o new \in Seq(Elements)
            /\ Len(s \o new) = Len(s) + k
            /\ ToSet(s \o new) = ToSet(s) \cup (pushed + 1)..(pushed + k)
            /\ Ordered(s) /\ (\A x \in ToSet(s) : x <= pushed) => Ordered(s \o new)
<1> DEFINE new == SubSeq(NextElements(n), 1, k)
<1> USE QueueAssumption
<1>1. /\ NextElements(n) \in Seq(Elements)
      /\ Len(NextElements(n)) = n
      /\ \A i \in 1..n : NextElements(n)[i] = pushed + i
  BY DEF NextElements, Elements
<1>2. /\ new \in Seq(Elements)
      /\ Len(new) = k
      /\ \A i \in 1..k : new[i] = pushed + i
  BY <1>1
<1> HIDE DEF new
<1>3. /\ s \o new \in Seq(Elements)
      /\ Len(s \o new) = Len(s) + k
      /\ DOMAIN (s \o new) = 1..(Len(s) + k)
      /\ DOMAIN s = 1..Len(s)
      /\ Len(s) \in Nat
  BY <1>2
<1>4. /\ \A i \in 1..Len(s) : (s \o new)[i] = s[i]
      /\ \A i \in 1..k : (s \o new)[Len(s) + i] = pushed + i
  BY <1>2
<1>5. ToSet(s \o new) = ToSet(s) \cup (pushed + 1)..(pushed + k)
  <2>1. ASSUME NEW x \in ToSet(s \o new)
        PROVE  x \in ToSet(s) \cup (pushed + 1)..(pushed + k)
    <3>1. PICK i \in 1..(Len(s) + k) : x = (s \o new)[i]
      BY <1>3, <2>1 DEF ToSet
    <3>2. CASE i <= Len(s)
      <4>1. i \in 1..Len(s)
        BY <3>2, <1>3
      <4> QED BY <4>1, <3>1, <1>3, <1>4 DEF ToSet
    <3>3. CASE i > Len(s)
      <4>1. i - Len(s) \in 1..k /\ Len(s) + (i - Len(s)) = i
        BY <3>1, <3>3, <1>3
      <4>2. x = pushed + (i - Len(s))
        BY <4>1, <3>1, <1>4
      <4> QED BY <4>1, <4>2, <1>3
    <3> QED BY <3>2, <3>3, <1>3
  <2>2. ToSet(s) \subseteq ToSet(s \o new)
    BY <1>3, <1>4 DEF ToSet
  <2>3. ASSUME NEW x \in (pushed + 1)..(pushed + k) PROVE x \in ToSet(s \o new)
    <3>1. x - pushed \in 1..k /\ pushed + (x - pushed) = x
      BY <2>3
    <3>2. (s \o new)[Len(s) + (x - pushed)] = x
      BY <3>1, <1>4
    <3>3. Len(s) + (x - pushed) \in 1..(Len(s) + k)
      BY <3>1, <1>3
    <3> QED BY <3>2, <3>3, <1>3 DEF ToSet
  <2> QED BY <2>1, <2>2, <2>3
<1>6. ASSUME Ordered(s), \A x \in ToSet(s) : x <= pushed PROVE Ordered(s \o new)
  <2> SUFFICES ASSUME NEW i \in 1..(Len(s) + k), NEW j \in 1..(Len(s) + k), i < j
               PROVE  (s \o new)[i] < (s \o new)[j]
    BY <1>3 DEF Ordered
  <2>1. CASE j <= Len(s)
    BY <2>1, <1>3, <1>4, <1>6 DEF Ordered
  <2>2. CASE j > Len(s)
    <3>1. j - Len(s) \in 1..k /\ Len(s) + (j - Len(s)) = j
      BY <2>2, <1>3
    <3>2. (s \o new)[j] = pushed + (j - Len(s))
      BY <3>1, <1>4
    <3>3. CASE i <= Len(s)
      <4>1. i \in 1..Len(s)
        BY <3>3, <1>3
      <4>2. s[i] \in ToSet(s)
        BY <4>1, <1>3 DEF ToSet
      <4>3. s[i] \in Elements
        BY <4>1
      <4>4. s[i] \in Int
        BY <4>3 DEF Elements
      <4>5. (s \o new)[i] <= pushed /\ (s \o new)[i] \in Int
        BY <4>1, <4>2, <4>4, <1>4, <1>6
      <4> QED BY <4>5, <3>1, <3>2, <1>3
    <3>4. CASE i > Len(s)
      <4>1. i - Len(s) \in 1..k /\ Len(s) + (i - Len(s)) = i
        BY <3>4, <1>3
      <4>2. (s \o new)[i] = pushed + (i - Len(s))
        BY <4>1, <1>4
      <4> QED BY <4>1, <4>2, <3>1, <3>2, <1>3
    <3> QED BY <3>3, <3>4, <1>3
  <2> QED BY <2>1, <2>2, <1>3
<1> QED
  BY <1>3, <1>5, <1>6 DEF new
-----------------------------------------------------------------------------
(* The account of the elements.                                            *)

\* What FifoExactlyOnce says, element by element.
Account ==
    /\ \A q \in Queues : Ordered(m_queue[q])
    /\ \A q, r \in Queues : q # r => ToSet(m_queue[q]) \cap ToSet(m_queue[r]) = {}
    /\ delivered \cap lost = {}
    /\ \A q \in Queues : ToSet(m_queue[q]) \cap (delivered \cup lost) = {}
    /\ \A x : x \in 1..pushed <=>
                 \/ x \in delivered \/ x \in lost
                 \/ \E q \in Queues : x \in ToSet(m_queue[q])

\* An operation that leaves q as s, hands out the elements of D and destroys those
\* of L; what was pushed meanwhile is new.
Operation(q, s, D, L) ==
    /\ Settle(q, s) \/ Unwind(q, s)
    /\ s \in Seq(Elements) /\ Ordered(s)
    /\ pushed' \in 0..MaxPushed /\ pushed <= pushed' /\ Len(s) <= pushed'
    /\ delivered' = delivered \cup D /\ lost' = lost \cup L
    /\ D \cap L = {} /\ ToSet(s) \cap (D \cup L) = {}
    /\ ToSet(s) \cup D \cup L = ToSet(m_queue[q]) \cup (pushed + 1)..pushed'

\* The elements are in 1..pushed, wherever they are.
LEMMA AccountIsExact == Account <=> FifoExactlyOnce
<1> DEFINE queued == UNION {ToSet(m_queue[q]) : q \in Queues}
<1>1. \A x : x \in queued <=> \E q \in Queues : x \in ToSet(m_queue[q])
  OBVIOUS
<1>2. (\A q \in Queues : ToSet(m_queue[q]) \cap (delivered \cup lost) = {})
      <=> queued \cap (delivered \cup lost) = {}
  BY <1>1
<1>3. (\A x : x \in 1..pushed <=> \/ x \in delivered \/ x \in lost
                               \/ \E q \in Queues : x \in ToSet(m_queue[q]))
      <=> queued \cup delivered \cup lost = 1..pushed
  BY <1>1
<1>4. (\A q \in Queues : Ordered(m_queue[q])) <=>
      \A q \in Queues : \A i, j \in DOMAIN m_queue[q] : i < j => m_queue[q][i] < m_queue[q][j]
  BY DEF Ordered
<1> HIDE DEF queued
<1> QED
  BY <1>2, <1>3, <1>4 DEF Account, FifoExactlyOnce, queued

\* An Operation accounts for every element once: what was in the queue and what was
\* pushed is afterwards in the queue, delivered or lost.
LEMMA OperationKeepsAccount ==
  ASSUME Types, Account,
         NEW q \in Queues, NEW s, NEW D, NEW L, Operation(q, s, D, L)
  PROVE  Account'
<1>1. /\ DOMAIN m_queue = Queues /\ pushed \in Nat /\ pushed' \in Nat /\ pushed <= pushed'
      /\ m_queue'[q] = s
      /\ \A r \in Queues \ {q} : m_queue'[r] = m_queue[r]
      /\ \A x \in (pushed + 1)..pushed' : x \notin 1..pushed
      /\ 1..pushed' = 1..pushed \cup (pushed + 1)..pushed'
  BY QueueAssumption DEF Types, TypeOK, Operation, Settle, Unwind
<1> DEFINE new == (pushed + 1)..pushed'
           old == 1..pushed
           Q == [r \in Queues |-> ToSet(m_queue[r])]
           R == [r \in Queues |-> ToSet(m_queue'[r])]
<1>2. /\ R[q] \cup D \cup L = Q[q] \cup new
      /\ R[q] \cap (D \cup L) = {} /\ D \cap L = {}
      /\ \A r \in Queues \ {q} : R[r] = Q[r]
      /\ delivered' = delivered \cup D /\ lost' = lost \cup L
      /\ new \cap old = {} /\ 1..pushed' = old \cup new
  BY <1>1 DEF Operation
<1>3. /\ \A r, t \in Queues : r # t => Q[r] \cap Q[t] = {}
      /\ delivered \cap lost = {}
      /\ \A r \in Queues : Q[r] \cap (delivered \cup lost) = {}
      /\ \A x : x \in old <=> x \in delivered \/ x \in lost \/ \E r \in Queues : x \in Q[r]
  BY DEF Account
<1> HIDE DEF new, old, Q, R
<1>4. \A r \in Queues : Q[r] \subseteq old /\ delivered \subseteq old /\ lost \subseteq old
  BY <1>3
<1>5. \A r, t \in Queues : r # t => R[r] \cap R[t] = {}
  BY <1>2, <1>3, <1>4
<1>6. delivered' \cap lost' = {}
  BY <1>2, <1>3, <1>4
<1>7. \A r \in Queues : R[r] \cap (delivered' \cup lost') = {}
  BY <1>2, <1>3, <1>4
<1>8. \A x : x \in 1..pushed' <=> x \in delivered' \/ x \in lost' \/ \E r \in Queues : x \in R[r]
  <2>1. ASSUME NEW x, x \in 1..pushed'
        PROVE  x \in delivered' \/ x \in lost' \/ \E r \in Queues : x \in R[r]
    BY <1>2, <1>3, <1>4, <2>1
  <2>2. ASSUME NEW x, x \in delivered' \/ x \in lost' \/ \E r \in Queues : x \in R[r]
        PROVE  x \in 1..pushed'
    BY <1>2, <1>3, <1>4, <2>2
  <2> QED BY <2>1, <2>2
<1>9. \A r \in Queues : Ordered(m_queue'[r])
  BY <1>1 DEF Account, Operation
<1> QED
  BY <1>5, <1>6, <1>7, <1>8, <1>9 DEF Account, Ordered, ToSet, R

-----------------------------------------------------------------------------
(* Every operation but moveFrom is an Operation.                           *)

\* What the invariant says of one queue.
LEMMA ElementsOfQueue ==
  ASSUME Types, Account, NEW q \in Queues
  PROVE  /\ m_queue[q] \in Seq(Elements) /\ Ordered(m_queue[q])
         /\ Len(m_queue[q]) \in Nat /\ Len(m_queue[q]) <= pushed
         /\ pushed \in Nat /\ pushed <= MaxPushed
         /\ \A x \in ToSet(m_queue[q]) : x \in Int /\ x <= pushed
         /\ (pushed + 1)..pushed = {}
<1>1. /\ m_queue[q] \in Seq(Elements) /\ Len(m_queue[q]) <= pushed
      /\ pushed \in Nat /\ pushed <= MaxPushed
  BY QueueAssumption DEF Types, TypeOK, Elements
<1>2. Ordered(m_queue[q]) /\ ToSet(m_queue[q]) \subseteq 1..pushed
  BY DEF Account
<1> QED
  BY <1>1, <1>2

\* push: the next element goes to the end.
LEMMA PushIsOperation ==
  ASSUME Types, Account, NEW q \in Queues, Push(q)
  PROVE  Operation(q, Append(m_queue[q], pushed + 1), {}, {})
<1>1. pushed + 1 \in Elements /\ pushed' = pushed + 1 /\ (pushed + 1)..pushed' = {pushed + 1}
  BY ElementsOfQueue, QueueAssumption DEF Push, Elements
<1>2. /\ pushed \in Nat
      /\ \A x \in ToSet(m_queue[q]) : x \in Int /\ x <= pushed
  BY ElementsOfQueue
<1>3. \A x \in ToSet(m_queue[q]) : x < pushed + 1
  BY <1>2
<1>4. LET s == Append(m_queue[q], pushed + 1)
      IN /\ s \in Seq(Elements) /\ Ordered(s)
         /\ Len(s) = Len(m_queue[q]) + 1
         /\ ToSet(s) = ToSet(m_queue[q]) \cup {pushed + 1}
  BY <1>1, <1>3, ElementsOfQueue, AppendFacts
<1> QED
  BY <1>1, <1>4, ElementsOfQueue, QueueAssumption DEF Push, Elements, Operation

\* A bulk push that stops after k of n elements loses the rest.
LEMMA PushAllIsOperation ==
  ASSUME Types, Account, NEW q \in Queues, NEW n \in 1..MaxBulk, NEW k \in 0..n, PushAll(q, n, k)
  PROVE  Operation(q, m_queue[q] \o SubSeq(NextElements(n), 1, k), {}, (pushed + k + 1)..(pushed + n))
<1> DEFINE s == m_queue[q] \o SubSeq(NextElements(n), 1, k)
<1>1. n \in Nat /\ k \in Nat /\ k <= n /\ pushed + n <= MaxPushed /\ pushed' = pushed + n
  BY QueueAssumption DEF PushAll
<1>2. /\ s \in Seq(Elements)
      /\ Len(s) = Len(m_queue[q]) + k
      /\ ToSet(s) = ToSet(m_queue[q]) \cup (pushed + 1)..(pushed + k)
      /\ Ordered(s)
  BY <1>1, ElementsOfQueue, ConcatFacts
<1>3. (Settle(q, s) \/ Unwind(q, s)) /\ delivered' = delivered
  BY DEF PushAll
<1>4. lost' = lost \cup (pushed + k + 1)..(pushed + n)
  <2>1. {pushed + i : i \in (k + 1)..n} = (pushed + k + 1)..(pushed + n)
    <3>1. ASSUME NEW x \in (pushed + k + 1)..(pushed + n)
          PROVE  x - pushed \in (k + 1)..n /\ pushed + (x - pushed) = x
      BY <1>1, ElementsOfQueue
    <3>2. ASSUME NEW i \in (k + 1)..n PROVE pushed + i \in (pushed + k + 1)..(pushed + n)
      BY <1>1, ElementsOfQueue
    <3> QED BY <3>1, <3>2
  <2> QED BY <2>1 DEF PushAll
<1>5. /\ pushed \in Nat /\ Len(m_queue[q]) \in Nat /\ Len(m_queue[q]) <= pushed
      /\ \A x \in ToSet(m_queue[q]) : x \in Int /\ x <= pushed
  BY ElementsOfQueue
<1>6. /\ (pushed + 1)..pushed' = (pushed + 1)..(pushed + k) \cup (pushed + k + 1)..(pushed + n)
      /\ (pushed + 1)..(pushed + k) \cap (pushed + k + 1)..(pushed + n) = {}
      /\ pushed' \in 0..MaxPushed /\ pushed <= pushed' /\ Len(s) <= pushed'
  <2>1. Len(s) = Len(m_queue[q]) + k
    BY <1>2
  <2> HIDE DEF s
  <2> QED BY <2>1, <1>1, <1>5, QueueAssumption
<1>7. \A x \in ToSet(m_queue[q]) : x \notin (pushed + k + 1)..(pushed + n)
  BY <1>1, <1>5
<1> HIDE DEF s
<1>8. Operation(q, s, {}, (pushed + k + 1)..(pushed + n))
  BY <1>2, <1>3, <1>4, <1>6, <1>7 DEF Operation
<1> QED
  BY <1>8 DEF s

\* tryGetFront delivers the first element.
LEMMA TryGetFrontIsOperation ==
  ASSUME Types, Account, NEW q \in Queues, TryGetFront(q), pushed' = pushed, lost' = lost
  PROVE  Operation(q, Tail(m_queue[q]), {Head(m_queue[q])}, {})
<1>1. /\ 1 \in 0..Len(m_queue[q])
      /\ Tail(m_queue[q]) = SubSeq(m_queue[q], 1 + 1, Len(m_queue[q]))
      /\ {Head(m_queue[q])} = {m_queue[q][i] : i \in 1..1}
      /\ Len(Tail(m_queue[q])) = Len(m_queue[q]) - 1
  BY ElementsOfQueue DEF TryGetFront
<1>2. LET s == Tail(m_queue[q])
      IN /\ s \in Seq(Elements) /\ Ordered(s)
         /\ {Head(m_queue[q])} \cup ToSet(s) = ToSet(m_queue[q])
         /\ {Head(m_queue[q])} \cap ToSet(s) = {}
  <2>1. m_queue[q] \in Seq(Elements) /\ Ordered(m_queue[q])
    BY ElementsOfQueue
  <2>2. LET s == SubSeq(m_queue[q], 1 + 1, Len(m_queue[q]))
            first == {m_queue[q][i] : i \in 1..1}
        IN /\ s \in Seq(Elements)
           /\ first \cup ToSet(s) = ToSet(m_queue[q])
           /\ Ordered(m_queue[q]) => Ordered(s) /\ first \cap ToSet(s) = {}
    BY <2>1, <1>1, RestFacts
  <2> QED BY <2>1, <2>2, <1>1, Zenon
<1> QED
  BY <1>1, <1>2, ElementsOfQueue DEF TryGetFront, Operation

\* A bulk get that takes k elements delivers them, or loses them when it throws.
LEMMA GetFrontManyIsOperation ==
  ASSUME Types, Account, NEW q \in Queues, NEW n \in 1..MaxBulk, NEW k \in 0..n,
         GetFrontMany(q, n, k)
  PROVE  \E D, L : Operation(q, SubSeq(m_queue[q], k + 1, Len(m_queue[q])), D, L)
<1> DEFINE rest == SubSeq(m_queue[q], k + 1, Len(m_queue[q]))
           first == {m_queue[q][i] : i \in 1..k}
<1>1. k \in 0..Len(m_queue[q])
  BY ElementsOfQueue, QueueAssumption DEF GetFrontMany
<1>2. /\ rest \in Seq(Elements) /\ Ordered(rest) /\ Len(rest) = Len(m_queue[q]) - k
      /\ first \cup ToSet(rest) = ToSet(m_queue[q]) /\ first \cap ToSet(rest) = {}
  BY <1>1, ElementsOfQueue, RestFacts
<1>3. /\ Settle(q, rest) \/ Unwind(q, rest)
      /\ pushed' = pushed
      /\ \/ delivered' = delivered \cup first /\ lost' = lost
         \/ lost' = lost \cup first /\ delivered' = delivered
  BY DEF GetFrontMany
<1> HIDE DEF rest, first
<1>4. Len(rest) <= pushed
  BY <1>1, <1>2, ElementsOfQueue
<1>5. Operation(q, rest, first, {}) \/ Operation(q, rest, {}, first)
  BY <1>2, <1>3, <1>4, ElementsOfQueue DEF Operation
<1> QED
  BY <1>5 DEF rest

\* The empty queue.
LEMMA EmptyFacts ==
  <<>> \in Seq(Elements) /\ Ordered(<<>>) /\ ToSet(<<>>) = {} /\ Len(<<>>) = 0
BY DEF Ordered, ToSet

\* getAll delivers everything.
LEMMA GetAllIsOperation ==
  ASSUME Types, Account, NEW q \in Queues, GetAll(q)
  PROVE  Operation(q, <<>>, ToSet(m_queue[q]), {})
BY EmptyFacts, ElementsOfQueue DEF GetAll, Operation

\* clear loses everything.
LEMMA ClearIsOperation ==
  ASSUME Types, Account, NEW q \in Queues, Clear(q)
  PROVE  Operation(q, <<>>, {}, ToSet(m_queue[q]))
BY EmptyFacts, ElementsOfQueue DEF Clear, Operation

\* An assignment loses what the queue held and takes the new elements.
LEMMA ReplaceIsOperation ==
  ASSUME Types, Account, NEW q \in Queues, NEW n \in 0..MaxBulk, Replace(q, n)
  PROVE  Operation(q, NextElements(n), {}, ToSet(m_queue[q]))
<1> DEFINE s == NextElements(n)
<1>1. n \in Nat /\ pushed + n <= MaxPushed /\ pushed' = pushed + n
  BY QueueAssumption DEF Replace
<1>2. /\ <<>> \o SubSeq(s, 1, n) = s
      /\ Len(s) = n
  BY <1>1, ElementsOfQueue DEF NextElements
<1>3. /\ s \in Seq(Elements) /\ ToSet(s) = (pushed + 1)..pushed' /\ Ordered(s)
  <2>1. LET t == <<>> \o SubSeq(NextElements(n), 1, n)
        IN /\ t \in Seq(Elements)
           /\ ToSet(t) = ToSet(<<>>) \cup (pushed + 1)..(pushed + n)
           /\ Ordered(<<>>) /\ (\A x \in ToSet(<<>>) : x <= pushed) => Ordered(t)
    <3>1. n \in 0..n /\ pushed \in Nat
      BY <1>1, ElementsOfQueue
    <3> HIDE DEF s
    <3> QED BY <3>1, <1>1, EmptyFacts, ConcatFacts, Zenon
  <2> QED BY <2>1, <1>1, <1>2, EmptyFacts
<1> HIDE DEF s
<1>4. /\ pushed \in Nat /\ pushed' \in 0..MaxPushed /\ pushed <= pushed' /\ n <= pushed'
      /\ \A x \in ToSet(m_queue[q]) : x \in Int /\ x <= pushed
  BY <1>1, ElementsOfQueue, QueueAssumption
<1>5. ToSet(s) \cap ToSet(m_queue[q]) = {}
  BY <1>3, <1>4
<1>6. Settle(q, s) /\ delivered' = delivered /\ lost' = lost \cup ToSet(m_queue[q])
  BY DEF Replace, s
<1>7. Operation(q, s, {}, ToSet(m_queue[q]))
  BY <1>2, <1>3, <1>4, <1>5, <1>6 DEF Operation
<1> QED
  BY <1>7 DEF s
-----------------------------------------------------------------------------
(* Types, account and cached size from step to step.                       *)

\* The size that is read without the mutex.
CacheInv == \A q \in Queues : m_queueSize[q] # Len(m_queue[q]) => q \in torn

\* What the single consumer of a private queue has seen is still there: nobody else
\* looks at the queue, and no operation on it failed.
SoloistTrusts ==
    /\ torn \cap Private = {}
    /\ \A c \in Pollers :
          saw[c] # NoQueue /\ saw[c] \in Private => c = Soloist /\ m_queue[saw[c]] # <<>>

\* The part of the types that an Operation leaves to the rest of its action.
PollTypes == saw \in [Pollers -> Queues \cup {NoQueue}] /\ underflow \subseteq Queues

\* An Operation keeps the types, and no queue outgrows what was pushed.
LEMMA OperationKeepsTypes ==
  ASSUME Types, Account, PollTypes',
         NEW q \in Queues, NEW s, NEW D, NEW L, Operation(q, s, D, L)
  PROVE  Types'
<1>1. /\ m_queue' = [m_queue EXCEPT ![q] = s] /\ s \in Seq(Elements)
      /\ m_queueSize' = m_queueSize \/ m_queueSize' = [m_queueSize EXCEPT ![q] = Len(s)]
      /\ torn' = torn \ {q} \/ torn' = torn \cup {q}
      /\ pushed' \in 0..MaxPushed /\ pushed <= pushed' /\ Len(s) <= pushed'
  BY DEF Operation, Settle, Unwind
<1>2. /\ m_queue \in [Queues -> Seq(Elements)]
      /\ m_queueSize \in [Queues -> 0..MaxPushed]
      /\ pushed \in 0..MaxPushed
      /\ delivered \subseteq Elements /\ lost \subseteq Elements /\ torn \subseteq Queues
      /\ \A r \in Queues : Len(m_queue[r]) <= pushed
  BY DEF Types, TypeOK, Elements
<1>3. Len(s) \in 0..MaxPushed
  BY <1>1, QueueAssumption
<1>4. /\ m_queue' \in [Queues -> Seq(Elements)]
      /\ m_queueSize' \in [Queues -> 0..MaxPushed]
      /\ torn' \subseteq Queues
  BY <1>1, <1>2, <1>3
<1>5. \A r \in Queues : Len(m_queue'[r]) <= pushed'
  <2> SUFFICES ASSUME NEW r \in Queues PROVE Len(m_queue'[r]) <= pushed'
    OBVIOUS
  <2>1. CASE r = q
    BY <2>1, <1>1, <1>2
  <2>2. CASE r # q
    <3>1. m_queue'[r] = m_queue[r] /\ Len(m_queue[r]) \in Nat
      BY <2>2, <1>1, <1>2
    <3> QED BY <3>1, <1>1, <1>2, QueueAssumption
  <2> QED BY <2>1, <2>2
<1>6. delivered' \subseteq Elements /\ lost' \subseteq Elements
  <2>1. D \cup L \subseteq ToSet(m_queue[q]) \cup (pushed + 1)..pushed'
    BY DEF Operation
  <2>2. (pushed + 1)..pushed' \subseteq Elements
    BY <1>1, <1>2, QueueAssumption DEF Elements
  <2>3. ToSet(m_queue[q]) \subseteq Elements
    <3>1. m_queue[q] \in Seq(Elements)
      BY <1>2
    <3> QED BY <3>1 DEF ToSet
  <2> QED BY <2>1, <2>2, <2>3, <1>2 DEF Operation
<1> QED
  BY <1>1, <1>4, <1>5, <1>6 DEF Types, TypeOK, Elements, PollTypes

\* An Operation leaves the cached size right, or the queue torn; a private queue is
\* never torn.
LEMMA OperationKeepsCache ==
  ASSUME Types, CacheInv, NEW q \in Queues, NEW s, NEW D, NEW L, Operation(q, s, D, L)
  PROVE  CacheInv' /\ (torn \cap Private = {} => torn' \cap Private = {})
<1>1. /\ m_queue' = [m_queue EXCEPT ![q] = s]
      /\ \/ m_queueSize' = [m_queueSize EXCEPT ![q] = Len(s)] /\ torn' = torn \ {q}
         \/ m_queueSize' = m_queueSize /\ torn' = torn \cup {q} /\ q \notin Private
  BY DEF Operation, Settle, Unwind
<1>2. DOMAIN m_queue = Queues /\ DOMAIN m_queueSize = Queues
  BY DEF Types, TypeOK
<1> QED
  BY <1>1, <1>2 DEF CacheInv

\* moveFrom deals with two queues.
LEMMA MoveFromKeeps ==
  ASSUME Types, Account, CacheInv, NEW q \in Queues, NEW r \in Queues, MoveFrom(q, r)
  PROVE  Types' /\ Account' /\ CacheInv'
<1>1. /\ q # r
      /\ m_queue' = [m_queue EXCEPT ![q] = m_queue[r], ![r] = <<>>]
      /\ m_queueSize' = [m_queueSize EXCEPT ![q] = Len(m_queue[r]), ![r] = 0]
      /\ torn' = torn \ {q, r}
      /\ lost' = lost \cup ToSet(m_queue[q])
      /\ UNCHANGED <<pushed, saw, delivered, underflow>>
  BY DEF MoveFrom
<1>2. /\ DOMAIN m_queue = Queues /\ DOMAIN m_queueSize = Queues
      /\ m_queue \in [Queues -> Seq(Elements)]
      /\ m_queueSize \in [Queues -> 0..MaxPushed]
      /\ \A t \in Queues : Len(m_queue[t]) <= pushed
      /\ pushed \in 0..MaxPushed
      /\ delivered \subseteq Elements /\ lost \subseteq Elements
  BY DEF Types, TypeOK, Elements
<1>3. /\ m_queue'[q] = m_queue[r] /\ m_queue'[r] = <<>>
      /\ \A t \in Queues \ {q, r} : m_queue'[t] = m_queue[t]
      /\ m_queueSize'[q] = Len(m_queue[r]) /\ m_queueSize'[r] = Len(<<>>)
      /\ \A t \in Queues \ {q, r} : m_queueSize'[t] = m_queueSize[t]
  BY <1>1, <1>2
<1>4. CacheInv'
  BY <1>1, <1>3 DEF CacheInv
<1>5. Account'
  <2> DEFINE Q == [t \in Queues |-> ToSet(m_queue[t])]
             R == [t \in Queues |-> ToSet(m_queue'[t])]
  <2>1. /\ R[q] = Q[r] /\ R[r] = {} /\ \A t \in Queues \ {q, r} : R[t] = Q[t]
        /\ lost' = lost \cup Q[q] /\ delivered' = delivered /\ pushed' = pushed
    <3>1. m_queue'[q] = m_queue[r] /\ m_queue'[r] = <<>>
      BY <1>3
    <3>2. ToSet(m_queue'[q]) = ToSet(m_queue[r]) /\ ToSet(m_queue'[r]) = {}
      BY <3>1, EmptyFacts, Zenon
    <3>3. \A t \in Queues \ {q, r} : ToSet(m_queue'[t]) = ToSet(m_queue[t])
      BY <1>3, Zenon
    <3> QED BY <3>2, <3>3, <1>1, Zenon
  <2>2. /\ \A t, u \in Queues : t # u => Q[t] \cap Q[u] = {}
        /\ delivered \cap lost = {}
        /\ \A t \in Queues : Q[t] \cap (delivered \cup lost) = {}
        /\ \A x : x \in 1..pushed <=> x \in delivered \/ x \in lost \/ \E t \in Queues : x \in Q[t]
    BY DEF Account
  <2> HIDE DEF Q, R
  <2>3. \A t, u \in Queues : t # u => R[t] \cap R[u] = {}
    BY <1>1, <2>1, <2>2
  <2>4. delivered' \cap lost' = {} /\ \A t \in Queues : R[t] \cap (delivered' \cup lost') = {}
    BY <1>1, <2>1, <2>2
  <2>5. ASSUME NEW x
        PROVE  x \in 1..pushed' <=> x \in delivered' \/ x \in lost' \/ \E t \in Queues : x \in R[t]
    BY <1>1, <2>1, <2>2
  <2>6. \A t \in Queues : Ordered(m_queue'[t])
    <3> SUFFICES ASSUME NEW t \in Queues PROVE Ordered(m_queue'[t])
      OBVIOUS
    <3>1. m_queue'[t] = m_queue[t] \/ m_queue'[t] = m_queue[r] \/ m_queue'[t] = <<>>
      BY <1>3
    <3>2. Ordered(m_queue[t]) /\ Ordered(m_queue[r]) /\ Ordered(<<>>)
      BY EmptyFacts DEF Account
    <3> QED BY <3>1, <3>2, Zenon
  <2>7. /\ \A t, u \in Queues : t # u => ToSet(m_queue'[t]) \cap ToSet(m_queue'[u]) = {}
        /\ \A t \in Queues : ToSet(m_queue'[t]) \cap (delivered' \cup lost') = {}
        /\ \A x : x \in 1..pushed' <=> \/ x \in delivered' \/ x \in lost'
                                     \/ \E t \in Queues : x \in ToSet(m_queue'[t])
    BY <2>3, <2>4, <2>5 DEF R
  <2> QED BY <2>4, <2>6, <2>7 DEF Account, Ordered, ToSet
<1>6. Types'
  <2>1. m_queue' \in [Queues -> Seq(Elements)]
    <3>1. m_queue[r] \in Seq(Elements) /\ <<>> \in Seq(Elements)
      BY <1>2, EmptyFacts
    <3> QED BY <3>1, <1>1, <1>2
  <2>2. m_queueSize' \in [Queues -> 0..MaxPushed]
    <3>1. Len(m_queue[r]) \in 0..MaxPushed /\ 0 \in 0..MaxPushed
      BY <1>2, QueueAssumption
    <3>2. m_queueSize \in [Queues -> 0..MaxPushed]
      BY <1>2
    <3>3. m_queueSize' = [m_queueSize EXCEPT ![q] = Len(m_queue[r]), ![r] = 0]
      BY <1>1
    <3> QED BY <3>1, <3>2, <3>3, Zenon
  <2>3. \A t \in Queues : Len(m_queue'[t]) <= pushed'
    <3>1. Len(m_queue'[r]) <= pushed /\ Len(m_queue'[q]) <= pushed
      BY <1>2, <1>3, EmptyFacts
    <3>2. \A t \in Queues \ {q, r} : Len(m_queue'[t]) <= pushed
      BY <1>2, <1>3
    <3> QED BY <3>1, <3>2, <1>1
  <2>4. lost' \subseteq Elements
    <3>1. m_queue[q] \in Seq(Elements)
      BY <1>2
    <3> QED BY <3>1, <1>1, <1>2 DEF ToSet
  <2> QED BY <1>1, <1>2, <2>1, <2>2, <2>3, <2>4 DEF Types, TypeOK, Elements
<1> QED
  BY <1>4, <1>5, <1>6

-----------------------------------------------------------------------------
(* The theorems.                                                           *)

QueueInv ==
    /\ Types /\ Account /\ CacheInv /\ SoloistTrusts
    /\ underflow \cap Private = {}

\* Empty queues fulfil the invariant.
LEMMA InitEstablishesQueueInv == Init => QueueInv
<1> SUFFICES ASSUME Init PROVE QueueInv
  OBVIOUS
<1> USE QueueAssumption
<1>1. \A q \in Queues : m_queue[q] = <<>> /\ m_queueSize[q] = 0
  BY DEF Init
<1>2. \A q \in Queues : ToSet(m_queue[q]) = {} /\ Ordered(m_queue[q]) /\ Len(m_queue[q]) = 0
  BY <1>1, EmptyFacts
<1>3. m_queue \in [Queues -> Seq(Elements)] /\ m_queueSize \in [Queues -> 0..MaxPushed]
  BY EmptyFacts DEF Init
<1>4. Types
  BY <1>2, <1>3 DEF Init, Types, TypeOK, Elements
<1>5. Account
  BY <1>2 DEF Init, Account
<1>6. CacheInv /\ SoloistTrusts /\ underflow \cap Private = {}
  BY <1>1, <1>2 DEF Init, CacheInv, SoloistTrusts
<1> QED
  BY <1>4, <1>5, <1>6 DEF QueueInv

\* An Operation keeps the invariant, if it leaves something in a private queue that
\* was not empty, and throws at no single consumer.
LEMMA OperationKeepsQueueInv ==
  ASSUME QueueInv, PollTypes', underflow' \cap Private = {},
         NEW q \in Queues, NEW s, NEW D, NEW L, Operation(q, s, D, L),
         \A c \in Pollers :
            saw'[c] # NoQueue /\ saw'[c] \in Private => saw'[c] = saw[c] /\ (saw[c] = q => s # <<>>)
  PROVE  QueueInv'
<1>1. Types' /\ Account' /\ CacheInv' /\ torn' \cap Private = {}
  BY OperationKeepsTypes, OperationKeepsAccount, OperationKeepsCache
     DEF QueueInv, SoloistTrusts
<1>2. m_queue' = [m_queue EXCEPT ![q] = s] /\ DOMAIN m_queue = Queues
  BY DEF Operation, Settle, Unwind, QueueInv, Types, TypeOK
<1>3. \A c \in Pollers : saw'[c] # NoQueue /\ saw'[c] \in Private
                           => c = Soloist /\ m_queue'[saw'[c]] # <<>>
  BY <1>2, QueueAssumption DEF QueueInv, SoloistTrusts
<1> QED
  BY <1>1, <1>3 DEF QueueInv, SoloistTrusts

\* The pushes: no queue gets empty under its soloist.
LEMMA PushesKeepQueueInv ==
  ASSUME QueueInv, NEW q \in Queues,
         \/ Push(q)
         \/ \E n \in 1..MaxBulk : \E k \in 0..n : PushAll(q, n, k)
  PROVE  QueueInv'
<1>1. saw' = saw /\ underflow' = underflow /\ Types /\ Account /\ PollTypes'
  BY DEF Push, PushAll, QueueInv, Types, TypeOK, PollTypes
<1>2. CASE Push(q)
  <2>1. Operation(q, Append(m_queue[q], pushed + 1), {}, {})
    BY <1>1, <1>2, PushIsOperation
  <2>2. Append(m_queue[q], pushed + 1) # <<>>
    BY <1>1, ElementsOfQueue
  <2> QED BY <1>1, <2>1, <2>2, OperationKeepsQueueInv DEF QueueInv
<1>3. ASSUME NEW n \in 1..MaxBulk, NEW k \in 0..n, PushAll(q, n, k) PROVE QueueInv'
  <2> DEFINE s == m_queue[q] \o SubSeq(NextElements(n), 1, k)
             L == (pushed + k + 1)..(pushed + n)
  <2>1. Operation(q, s, {}, L)
    BY <1>1, <1>3, PushAllIsOperation
  <2>2. /\ n \in Nat /\ k \in Nat /\ k \in 0..n /\ pushed + n <= MaxPushed
        /\ m_queue[q] \in Seq(Elements) /\ pushed \in Nat
    BY <1>1, <1>3, ElementsOfQueue, QueueAssumption DEF PushAll
  <2>3. m_queue[q] # <<>> => s # <<>>
    <3>1. Len(m_queue[q]) \in Nat /\ (m_queue[q] # <<>> => Len(m_queue[q]) # 0)
      BY <2>2
    <3>2. Len(s) = Len(m_queue[q]) + k
      BY <2>2, ConcatFacts
    <3> HIDE DEF s
    <3>3. m_queue[q] # <<>> => Len(s) # 0
      BY <3>1, <3>2, <2>2
    <3> QED BY <3>3, EmptyFacts
  <2> HIDE DEF s, L
  <2>4. \A c \in Pollers : saw[c] # NoQueue /\ saw[c] \in Private => m_queue[saw[c]] # <<>>
    BY DEF QueueInv, SoloistTrusts
  <2> QED BY <1>1, <2>1, <2>3, <2>4, OperationKeepsQueueInv DEF QueueInv
<1> QED
  BY <1>2, <1>3

\* Whoever takes from a queue that is not private disturbs no single consumer.
LEMMA TakesKeepQueueInv ==
  ASSUME QueueInv, NEW q \in Queues \ Private,
         \/ GetAll(q) \/ Clear(q)
         \/ \E n \in 1..MaxBulk : \E k \in 0..n : GetFrontMany(q, n, k)
         \/ \E n \in 0..MaxBulk : Replace(q, n)
  PROVE  QueueInv'
<1>1. saw' = saw /\ underflow' = underflow /\ Types /\ Account /\ PollTypes'
  BY DEF GetAll, Clear, GetFrontMany, Replace, QueueInv, Types, TypeOK, PollTypes
<1>2. \E s, D, L : Operation(q, s, D, L)
  BY <1>1, GetAllIsOperation, ClearIsOperation, GetFrontManyIsOperation, ReplaceIsOperation
<1> QED
  BY <1>1, <1>2, OperationKeepsQueueInv DEF QueueInv

\* moveFrom exchanges two queues that are nobody's own.
LEMMA MoveFromKeepsQueueInv ==
  ASSUME QueueInv, NEW q \in Queues \ Private, NEW r \in Queues \ Private, MoveFrom(q, r)
  PROVE  QueueInv'
<1>1. Types' /\ Account' /\ CacheInv'
  BY MoveFromKeeps DEF QueueInv
<1>2. /\ saw' = saw /\ underflow' = underflow /\ torn' = torn \ {q, r}
      /\ m_queue' = [m_queue EXCEPT ![q] = m_queue[r], ![r] = <<>>]
      /\ DOMAIN m_queue = Queues
  BY DEF MoveFrom, QueueInv, Types, TypeOK
<1>3. \A p \in Private : m_queue'[p] = m_queue[p]
  BY <1>2, QueueAssumption
<1> QED
  BY <1>1, <1>2, <1>3 DEF QueueInv, SoloistTrusts

\* Looking at a queue changes nothing in it.
LEMMA LookingKeeps ==
  ASSUME Types, Account, CacheInv, PollTypes',
         UNCHANGED <<m_queue, m_queueSize, pushed, delivered, lost, torn>>
  PROVE  Types' /\ Account' /\ CacheInv'
<1>1. Types'
  BY DEF Types, TypeOK, PollTypes
<1>2. CacheInv'
  BY DEF CacheInv
<1>3. Account'
  <2>1. \A q \in Queues : Ordered(m_queue'[q])
    BY DEF Account
  <2>2. /\ \A q, r \in Queues : q # r => ToSet(m_queue'[q]) \cap ToSet(m_queue'[r]) = {}
        /\ delivered' \cap lost' = {}
        /\ \A q \in Queues : ToSet(m_queue'[q]) \cap (delivered' \cup lost') = {}
        /\ \A x : x \in 1..pushed' <=> \/ x \in delivered' \/ x \in lost'
                                     \/ \E q \in Queues : x \in ToSet(m_queue'[q])
    BY DEF Account
  <2> QED BY <2>1, <2>2 DEF Account, Ordered, ToSet
<1> QED
  BY <1>1, <1>2, <1>3

\* A consumer looks at the cached size; the soloist may rely on it.
LEMMA PollKeepsQueueInv ==
  ASSUME QueueInv, NEW c \in Pollers, NEW q \in Queues, Poll(c, q)
  PROVE  QueueInv'
<1>1. /\ q \in Private => c = Soloist
      /\ m_queueSize[q] # 0 /\ saw' = [saw EXCEPT ![c] = q]
      /\ UNCHANGED <<m_queue, m_queueSize, pushed, delivered, lost, torn, underflow>>
      /\ saw \in [Pollers -> Queues \cup {NoQueue}]
  BY DEF Poll, QueueInv, Types, TypeOK
<1>2. q \in Private => m_queue[q] # <<>>
  BY <1>1, EmptyFacts DEF QueueInv, CacheInv, SoloistTrusts
<1>3. SoloistTrusts'
  BY <1>1, <1>2 DEF QueueInv, SoloistTrusts
<1>4. Types' /\ Account' /\ CacheInv'
  <2>1. PollTypes'
    BY <1>1 DEF QueueInv, Types, TypeOK, PollTypes
  <2> QED BY <1>1, <2>1, LookingKeeps DEF QueueInv
<1> QED
  BY <1>1, <1>3, <1>4 DEF QueueInv

\* A consumer takes the element it saw, which only others can have taken before.
LEMMA GetFrontKeepsQueueInv ==
  ASSUME QueueInv, NEW c \in Pollers, GetFront(c)
  PROVE  QueueInv'
<1> DEFINE q == saw[c]
<1>1. /\ q # NoQueue /\ q \in Queues
      /\ saw \in [Pollers -> Queues \cup {NoQueue}] /\ underflow \subseteq Queues
      /\ saw' = [saw EXCEPT ![c] = NoQueue] /\ pushed' = pushed /\ lost' = lost
      /\ Types /\ Account
  BY DEF GetFront, QueueInv, Types, TypeOK
<1>2. \A d \in Pollers : saw'[d] # NoQueue => d # c /\ saw'[d] = saw[d]
  BY <1>1
<1>3. CASE m_queue[q] = <<>>
  <2>1. /\ UNCHANGED <<m_queue, m_queueSize, delivered, torn>>
        /\ underflow' = underflow \cup {q}
    BY <1>3 DEF GetFront
  <2>2. q \notin Private
    BY <1>1, <1>3 DEF QueueInv, SoloistTrusts
  <2>3. SoloistTrusts'
    BY <2>1, <1>2 DEF QueueInv, SoloistTrusts
  <2>4. Types' /\ Account' /\ CacheInv'
    <3>1. PollTypes'
      BY <1>1, <2>1 DEF PollTypes
    <3> QED BY <1>1, <2>1, <3>1, LookingKeeps DEF QueueInv
  <2> QED BY <2>1, <2>2, <2>3, <2>4 DEF QueueInv
<1>4. CASE m_queue[q] # <<>>
  <2>1. TryGetFront(q) /\ underflow' = underflow
    BY <1>4 DEF GetFront
  <2>2. Operation(q, Tail(m_queue[q]), {Head(m_queue[q])}, {})
    BY <1>1, <2>1, TryGetFrontIsOperation
  <2>3. \A d \in Pollers : saw'[d] # NoQueue /\ saw'[d] \in Private
                             => saw'[d] = saw[d] /\ saw[d] # q
    BY <1>1, <1>2 DEF QueueInv, SoloistTrusts
  <2>4. PollTypes' /\ underflow' \cap Private = {}
    BY <1>1, <2>1 DEF PollTypes, QueueInv
  <2> HIDE DEF q
  <2> QED BY <1>1, <2>2, <2>3, <2>4, OperationKeepsQueueInv
<1> QED
  BY <1>3, <1>4

\* The invariant holds in every reachable state.
LEMMA QueueInvariant == Spec => []QueueInv
<1>1. QueueInv /\ [Next]_vars => QueueInv'
  <2> SUFFICES ASSUME QueueInv, [Next]_vars PROVE QueueInv'
    OBVIOUS
  <2>1. CASE Next
    BY <2>1, PushesKeepQueueInv, TakesKeepQueueInv, MoveFromKeepsQueueInv, PollKeepsQueueInv,
       GetFrontKeepsQueueInv, Zenon DEF Next
  <2>2. CASE UNCHANGED vars
    <3>1. PollTypes'
      BY <2>2 DEF vars, PollTypes, QueueInv, Types, TypeOK
    <3>2. Types' /\ Account' /\ CacheInv'
      BY <2>2, <3>1, LookingKeeps DEF vars, QueueInv
    <3>3. SoloistTrusts' /\ underflow' \cap Private = {}
      BY <2>2 DEF vars, QueueInv, SoloistTrusts
    <3> QED BY <3>2, <3>3 DEF QueueInv
  <2> QED BY <2>1, <2>2
<1> QED
  BY InitEstablishesQueueInv, <1>1, PTL DEF Spec

\* Every variable of cThreadQueue_V2's model keeps its type; the cached size is never
\* larger than what was pushed.
THEOREM QueueTypeCorrect == Spec => []TypeOK
<1>1. QueueInv => TypeOK
  BY DEF QueueInv, Types
<1> QED
  BY QueueInvariant, <1>1, PTL

\* No operation of cThreadQueue_V2, failing or not, duplicates or forgets an
\* element, or lets one overtake another in its queue.
THEOREM EveryElementOnce == Spec => []FifoExactlyOnce
<1>1. QueueInv => FifoExactlyOnce
  BY AccountIsExact DEF QueueInv
<1> QED
  BY QueueInvariant, <1>1, PTL

\* The size read without the mutex is wrong only while a failed bulk operation is
\* the last one on the queue, and a single consumer may trust empty().
THEOREM CacheHeals == Spec => []CachedSizeHeals
<1>1. QueueInv => CachedSizeHeals
  BY DEF QueueInv, CacheInv, CachedSizeHeals
<1> QED
  BY QueueInvariant, <1>1, PTL

-----------------------------------------------------------------------------
(* The container: what is proved of sequences, and of dealing them out.    *)

\* The sequence s is dealt out: a and b hold its elements, each of them once.
Deals(s, a, b) ==
    /\ a \in Seq(Items) /\ b \in Seq(Items)
    /\ Len(a) + Len(b) = Len(s)
    /\ ToSet(a) \cup ToSet(b) = ToSet(s)
    /\ IsInjective(s) => IsInjective(a \o b)

\* The elements of a concatenation, and when each is there once.
LEMMA ConcatOnce ==
  ASSUME NEW S, NEW s \in Seq(S), NEW t \in Seq(S)
  PROVE  /\ s \o t \in Seq(S) /\ Len(s \o t) = Len(s) + Len(t)
         /\ ToSet(s \o t) = ToSet(s) \cup ToSet(t)
         /\ IsInjective(s \o t) <=> IsInjective(s) /\ IsInjective(t) /\ ToSet(s) \cap ToSet(t) = {}
<1> DEFINE u == s \o t
<1>1. /\ u \in Seq(S) /\ Len(u) = Len(s) + Len(t) /\ Len(s) \in Nat /\ Len(t) \in Nat
      /\ \A i \in 1..(Len(s) + Len(t)) : u[i] = IF i <= Len(s) THEN s[i] ELSE t[i - Len(s)]
      /\ DOMAIN s = 1..Len(s) /\ DOMAIN t = 1..Len(t) /\ DOMAIN u = 1..(Len(s) + Len(t))
  BY ConcatProperties, LenProperties
<1> HIDE DEF u
<1>2. \A i \in DOMAIN s : i \in DOMAIN u /\ u[i] = s[i]
  BY <1>1
<1>3. \A i \in DOMAIN t : i + Len(s) \in DOMAIN u /\ u[i + Len(s)] = t[i]
  <2> SUFFICES ASSUME NEW i \in DOMAIN t PROVE i + Len(s) \in DOMAIN u /\ u[i + Len(s)] = t[i]
    OBVIOUS
  <2>1. i + Len(s) \in 1..(Len(s) + Len(t)) /\ ~(i + Len(s) <= Len(s)) /\ (i + Len(s)) - Len(s) = i
    BY <1>1
  <2> QED
    BY <1>1, <2>1
<1>4. \A j \in DOMAIN u : \/ j \in DOMAIN s /\ u[j] = s[j]
                          \/ \E i \in DOMAIN t : j = i + Len(s) /\ u[j] = t[i]
  <2> SUFFICES ASSUME NEW j \in DOMAIN u, j \notin DOMAIN s
               PROVE  \E i \in DOMAIN t : j = i + Len(s) /\ u[j] = t[i]
    BY <1>2
  <2>1. j - Len(s) \in DOMAIN t /\ j = (j - Len(s)) + Len(s)
    BY <1>1
  <2> QED
    BY <2>1, <1>3
<1>5. ToSet(u) = ToSet(s) \cup ToSet(t)
  BY <1>2, <1>3, <1>4 DEF ToSet
<1>6. ASSUME IsInjective(u) PROVE IsInjective(s) /\ IsInjective(t) /\ ToSet(s) \cap ToSet(t) = {}
  <2>1. IsInjective(s)
    BY <1>2, <1>6 DEF IsInjective
  <2>2. IsInjective(t)
    <3> SUFFICES ASSUME NEW i \in DOMAIN t, NEW j \in DOMAIN t, t[i] = t[j] PROVE i = j
      BY DEF IsInjective
    <3>1. i + Len(s) = j + Len(s)
      BY <1>3, <1>6 DEF IsInjective
    <3> QED
      BY <3>1, <1>1
  <2>3. \A i \in DOMAIN s, j \in DOMAIN t : s[i] # t[j]
    <3> SUFFICES ASSUME NEW i \in DOMAIN s, NEW j \in DOMAIN t, s[i] = t[j] PROVE FALSE
      OBVIOUS
    <3>1. i = j + Len(s)
      BY <1>2, <1>3, <1>6 DEF IsInjective
    <3> QED
      BY <3>1, <1>1
  <2> QED
    BY <2>1, <2>2, <2>3 DEF ToSet
<1>7. ASSUME IsInjective(s), IsInjective(t), ToSet(s) \cap ToSet(t) = {} PROVE IsInjective(u)
  <2>1. \A i \in DOMAIN s, j \in DOMAIN t : s[i] # t[j]
    BY <1>7 DEF ToSet
  <2> QED
    BY <2>1, <1>4, <1>7 DEF IsInjective
<1> QED
  BY <1>1, <1>5, <1>6, <1>7 DEF u

\* A sequence of one element.
LEMMA SingletonSeq ==
  ASSUME NEW S, NEW s \in Seq(S), NEW e \in S
  PROVE  /\ <<e>> \in Seq(S) /\ Len(<<e>>) = 1 /\ ToSet(<<e>>) = {e} /\ IsInjective(<<e>>)
         /\ Append(s, e) = s \o <<e>>
<1>1. <<e>> \in Seq(S) /\ Len(<<e>>) = 1 /\ DOMAIN <<e>> = {1} /\ <<e>>[1] = e
  OBVIOUS
<1>2. ToSet(<<e>>) = {e} /\ IsInjective(<<e>>)
  BY <1>1 DEF ToSet, IsInjective
<1>3. Append(s, e) = s \o <<e>>
  BY AppendIsConcat
<1> QED
  BY <1>1, <1>2, <1>3

\* An element more, at the end.
LEMMA AppendOnce ==
  ASSUME NEW S, NEW s \in Seq(S), NEW e \in S
  PROVE  /\ Append(s, e) \in Seq(S) /\ Len(Append(s, e)) = Len(s) + 1
         /\ ToSet(Append(s, e)) = ToSet(s) \cup {e}
         /\ IsInjective(Append(s, e)) <=> IsInjective(s) /\ e \notin ToSet(s)
<1>1. /\ s \o <<e>> \in Seq(S) /\ Len(s \o <<e>>) = Len(s) + 1
      /\ ToSet(s \o <<e>>) = ToSet(s) \cup {e}
      /\ IsInjective(s \o <<e>>) <=> IsInjective(s) /\ IsInjective(<<e>>) /\ ToSet(s) \cap {e} = {}
  <2> DEFINE t == <<e>>
  <2>1. t \in Seq(S) /\ Len(t) = 1 /\ ToSet(t) = {e}
    BY SingletonSeq
  <2> HIDE DEF t
  <2>2. /\ s \o t \in Seq(S) /\ Len(s \o t) = Len(s) + Len(t)
        /\ ToSet(s \o t) = ToSet(s) \cup ToSet(t)
        /\ IsInjective(s \o t) <=> IsInjective(s) /\ IsInjective(t) /\ ToSet(s) \cap ToSet(t) = {}
    BY <2>1, ConcatOnce
  <2> QED
    BY <2>1, <2>2 DEF t
<1>2. IsInjective(<<e>>) /\ Append(s, e) = s \o <<e>>
  BY SingletonSeq
<1> QED
  BY <1>1, <1>2

LEMMA EmptyOnce == ToSet(<<>>) = {} /\ IsInjective(<<>>) /\ Len(<<>>) = 0 /\ \A S : <<>> \in Seq(S)
  BY EmptySeq DEF ToSet, IsInjective

\* A sequence cut after its k-th element.
LEMMA Cut ==
  ASSUME NEW S, NEW s \in Seq(S), NEW k \in 0..Len(s)
  PROVE  /\ SubSeq(s, 1, k) \in Seq(S) /\ Len(SubSeq(s, 1, k)) = k
         /\ SubSeq(s, k + 1, Len(s)) \in Seq(S) /\ Len(SubSeq(s, k + 1, Len(s))) = Len(s) - k
         /\ SubSeq(s, 1, k) \o SubSeq(s, k + 1, Len(s)) = s
<1>1. Len(s) \in Nat /\ k \in Nat /\ k <= Len(s) /\ \A i \in 1..Len(s) : s[i] \in S
  BY LenProperties
<1>2. \A i \in 1..k : s[i] \in S
  BY <1>1
<1>3. \A i \in (k + 1)..Len(s) : s[i] \in S
  BY <1>1
<1>4. /\ SubSeq(s, 1, k) \in Seq(S) /\ Len(SubSeq(s, 1, k)) = k
      /\ \A i \in 1..k : SubSeq(s, 1, k)[i] = s[i]
  <2>1. /\ SubSeq(s, 1, k) \in Seq(S)
        /\ Len(SubSeq(s, 1, k)) = IF 1 <= k THEN k - 1 + 1 ELSE 0
        /\ \A i \in 1..(k - 1 + 1) : SubSeq(s, 1, k)[i] = s[1 + i - 1]
    BY <1>1, <1>2, SubSeqProperties
  <2> QED
    BY <2>1, <1>1
<1>5. /\ SubSeq(s, k + 1, Len(s)) \in Seq(S)
      /\ Len(SubSeq(s, k + 1, Len(s))) = Len(s) - k
      /\ \A i \in 1..(Len(s) - k) : SubSeq(s, k + 1, Len(s))[i] = s[k + i]
  <2>1. /\ SubSeq(s, k + 1, Len(s)) \in Seq(S)
        /\ Len(SubSeq(s, k + 1, Len(s))) = IF k + 1 <= Len(s) THEN Len(s) - (k + 1) + 1 ELSE 0
        /\ \A i \in 1..(Len(s) - (k + 1) + 1) : SubSeq(s, k + 1, Len(s))[i] = s[k + 1 + i - 1]
    BY <1>1, <1>3, SubSeqProperties
  <2> QED
    BY <2>1, <1>1
<1>6. SubSeq(s, 1, k) \o SubSeq(s, k + 1, Len(s)) = s
  <2> DEFINE a == SubSeq(s, 1, k)
             b == SubSeq(s, k + 1, Len(s))
  <2>1. /\ a \o b \in Seq(S) /\ Len(a \o b) = Len(a) + Len(b)
        /\ \A i \in 1..Len(a) + Len(b) : (a \o b)[i] = IF i <= Len(a) THEN a[i] ELSE b[i - Len(a)]
    BY <1>4, <1>5, ConcatProperties
  <2>2. \A i \in 1..Len(s) : (a \o b)[i] = s[i]
    <3> HIDE DEF a, b
    <3> SUFFICES ASSUME NEW i \in 1..Len(s) PROVE (a \o b)[i] = s[i]
      OBVIOUS
    <3>1. Len(a) = k /\ Len(b) = Len(s) - k
      BY <1>4, <1>5 DEF a, b
    <3>2. CASE i <= k
      BY <3>1, <3>2, <2>1, <1>1, <1>4 DEF a
    <3>3. CASE i > k
      <4>1. i - k \in 1..(Len(s) - k) /\ k + (i - k) = i
        BY <1>1, <3>3
      <4>2. b[i - k] = s[k + (i - k)]
        BY <1>5, <4>1 DEF b
      <4>3. i \in 1..Len(a) + Len(b) /\ ~(i <= Len(a))
        BY <1>1, <3>1, <3>3
      <4>4. (a \o b)[i] = b[i - Len(a)]
        BY <2>1, <4>3
      <4> QED
        BY <4>1, <4>2, <4>4, <3>1
    <3>4. i <= k \/ i > k
      BY <1>1
    <3> QED
      BY <3>2, <3>3, <3>4
  <2>3. Len(a \o b) = Len(s)
    <3>1. Len(a) = k /\ Len(b) = Len(s) - k
      BY <1>4, <1>5
    <3> HIDE DEF a, b
    <3> QED
      BY <3>1, <2>1, <1>1
  <2> QED
    BY <2>1, <2>2, <2>3, SeqEqual
<1> QED
  BY <1>4, <1>5, <1>6

\* The order of the two parts does not matter.
LEMMA DealsParts ==
  ASSUME NEW s, NEW a \in Seq(Items), NEW b \in Seq(Items),
         Len(a) + Len(b) = Len(s),
         ToSet(a) \cup ToSet(b) = ToSet(s),
         IsInjective(s) => IsInjective(a) /\ IsInjective(b) /\ ToSet(a) \cap ToSet(b) = {}
  PROVE  Deals(s, a, b)
  BY ConcatOnce DEF Deals

\* grabItemsUnlocked deals out the items, and takes at least one if there is one.
LEMMA FirstItemsDeal ==
  ASSUME NEW items \in Seq(Items), NEW count \in Nat
  PROVE  /\ Deals(items, OtherItems(items, count), FirstItems(items, count))
         /\ Len(OtherItems(items, count)) <= Len(items)
         /\ count > 0 /\ items # <<>> => Len(OtherItems(items, count)) < Len(items)
<1>1. actualCount(items, count) \in 0..Len(items) /\ Len(items) \in Nat
  BY LenProperties DEF actualCount
<1> DEFINE k == actualCount(items, count)
           b == FirstItems(items, count)
           a == OtherItems(items, count)
<1>2. /\ b \in Seq(Items) /\ Len(b) = k /\ a \in Seq(Items) /\ Len(a) = Len(items) - k
      /\ b \o a = items
  BY <1>1, Cut DEF FirstItems, OtherItems
<1>3. count > 0 /\ items # <<>> => k > 0
  <2>1. items # <<>> => Len(items) \in Nat \ {0}
    BY EmptySeq
  <2> QED
    BY <2>1 DEF actualCount
<1> HIDE DEF k, a, b
<1>4. /\ ToSet(items) = ToSet(b) \cup ToSet(a)
      /\ IsInjective(items) => IsInjective(b) /\ IsInjective(a) /\ ToSet(b) \cap ToSet(a) = {}
  <2>1. a \in Seq(Items) /\ b \in Seq(Items)
    BY <1>2
  <2>2. /\ ToSet(b \o a) = ToSet(b) \cup ToSet(a)
        /\ IsInjective(b \o a) <=> IsInjective(b) /\ IsInjective(a) /\ ToSet(b) \cap ToSet(a) = {}
    BY <2>1, ConcatOnce
  <2> QED
    BY <1>2, <2>2
<1>5. Len(a) + Len(b) = Len(items) /\ Len(a) <= Len(items) /\ (k > 0 => Len(a) < Len(items))
  BY <1>1, <1>2 DEF k
<1>6. Deals(items, a, b)
  BY <1>2, <1>4, <1>5, DealsParts
<1> QED
  BY <1>3, <1>5, <1>6 DEF a, b

\* Induction, for sets of numbers: a set of naturals that holds 0 and the
\* successor of each of its members holds them all.
LEMMA SetInduction ==
  ASSUME NEW S \in SUBSET Nat, 0 \in S, \A n \in S : n + 1 \in S
  PROVE  S = Nat
<1> DEFINE T == Nat \ S
           R == {ss \in Nat \X Nat : ss[1] < ss[2]}
<1>1. SUFFICES ASSUME T # {} PROVE FALSE
  OBVIOUS
<1>2. IsWellFoundedOn(R, Nat)
  BY NatLessThanWellFounded DEF OpToRel
<1>3. PICK x \in T : \A y \in T : ~(<<y, x>> \in R)
  <2> HIDE DEF R
  <2> QED
    BY <1>1, <1>2, WFMin, Zenon
<1>4. x \in Nat /\ x # 0
  OBVIOUS
<1>5. x - 1 \in Nat /\ x - 1 < x /\ (x - 1) + 1 = x
  BY <1>4
<1>6. x - 1 \in T
  BY <1>5
<1>7. <<x - 1, x>> \in R
  BY <1>4, <1>5
<1> QED
  BY <1>3, <1>6, <1>7

\* f is the loop of a selective grab, up to the n-th item behind the offset.
IsLoop(f, n, items, verdict, count, offset) ==
    f = [k \in 0..n |-> IF k = 0 THEN SelectBegins(items, offset)
                        ELSE SelectItem(f[k - 1], items[actualCount(items, offset) + k], verdict, count)]

\* There is such a loop of every length,
LEMMA LoopExists ==
  ASSUME NEW items, NEW verdict, NEW count, NEW offset
  PROVE  \A n \in Nat : \E f : IsLoop(f, n, items, verdict, count, offset)
<1> DEFINE Body(f, k) == SelectItem(f[k - 1], items[actualCount(items, offset) + k], verdict, count)
           S == {n \in Nat : \E f : IsLoop(f, n, items, verdict, count, offset)}
<1>1. 0 \in S
  <2> DEFINE f == [k \in 0..0 |-> SelectBegins(items, offset)]
  <2>1. f = [k \in 0..0 |-> IF k = 0 THEN SelectBegins(items, offset) ELSE Body(f, k)]
    OBVIOUS
  <2> QED
    BY <2>1, 0 \in Nat, Zenon DEF IsLoop
<1>2. ASSUME NEW n \in S PROVE n + 1 \in S
  <2>1. PICK f : IsLoop(f, n, items, verdict, count, offset)
    BY <1>2
  <2>2. f = [k \in 0..n |-> IF k = 0 THEN SelectBegins(items, offset) ELSE Body(f, k)]
    BY <2>1, Zenon DEF IsLoop
  <2> DEFINE g == [k \in 0..(n + 1) |-> IF k \in 0..n THEN f[k] ELSE Body(f, n + 1)]
  <2>3. ASSUME NEW k \in 0..(n + 1)
        PROVE  g[k] = IF k = 0 THEN SelectBegins(items, offset) ELSE Body(g, k)
    <3>1. CASE k = 0
      <4>1. 0 \in 0..n /\ 0 \in 0..(n + 1)
        OBVIOUS
      <4> QED
        BY <2>2, <3>1, <4>1
    <3>2. CASE k # 0 /\ k \in 0..n
      <4>1. k - 1 \in 0..n /\ k - 1 \in 0..(n + 1)
        BY <3>2
      <4>2. g[k] = f[k] /\ g[k - 1] = f[k - 1]
        BY <3>2, <4>1
      <4>3. f[k] = Body(f, k)
        BY <2>2, <3>2
      <4> QED
        BY <3>2, <4>2, <4>3, Zenon
    <3>3. CASE k \notin 0..n
      <4>1. k = n + 1 /\ k # 0 /\ n \in 0..n /\ n \in 0..(n + 1) /\ k - 1 = n
        BY <3>3
      <4>2. g[k] = Body(f, n + 1) /\ g[n] = f[n] /\ f[n] = f[(n + 1) - 1]
        BY <3>3, <4>1
      <4>3. Body(f, n + 1) = Body(g, k)
        <5>1. g[k - 1] = f[(n + 1) - 1] /\ k = n + 1
          BY <4>1, <4>2
        <5> QED
          BY <5>1, Zenon
      <4> QED
        BY <4>1, <4>2, <4>3, Zenon
    <3> QED
      BY <3>1, <3>2, <3>3
  <2>4. g = [k \in 0..(n + 1) |-> IF k = 0 THEN SelectBegins(items, offset) ELSE Body(g, k)]
    BY <2>3, Zenon
  <2>5. IsLoop(g, n + 1, items, verdict, count, offset)
    BY <2>4, Zenon DEF IsLoop
  <2> QED
    BY <2>5
<1>3. S = Nat
  <2> HIDE DEF S
  <2>1. S \in SUBSET Nat
    BY DEF S
  <2> QED
    BY <1>1, <1>2, <2>1, SetInduction, Zenon
<1> QED
  BY <1>3, Zenon

\* and so SelectLoop is one, as its definition says.
LEMMA LoopUnfolds ==
  ASSUME NEW items \in Seq(Items), NEW verdict, NEW count, NEW offset \in Nat
  PROVE  LET loop == SelectLoop(items, verdict, count, offset)
             skipped == actualCount(items, offset)
         IN /\ loop[0] = SelectBegins(items, offset)
            /\ \A k \in 1..(Len(items) - skipped) :
                  loop[k] = SelectItem(loop[k - 1], items[skipped + k], verdict, count)
            /\ skipped \in 0..Len(items)
<1> DEFINE skipped == actualCount(items, offset)
           n == Len(items) - skipped
           loop == SelectLoop(items, verdict, count, offset)
           chosen == CHOOSE f : IsLoop(f, n, items, verdict, count, offset)
<1>1. skipped \in 0..Len(items) /\ n \in Nat
  BY LenProperties DEF actualCount
<1>2. IsLoop(chosen, n, items, verdict, count, offset)
  <2>1. \E f : IsLoop(f, n, items, verdict, count, offset)
    <3> HIDE DEF n
    <3> QED
      BY <1>1, LoopExists, Zenon
  <2> QED
    BY <2>1, Zenon
<1>3. chosen = loop
  BY Zenon DEF SelectLoop, IsLoop
<1>4. loop = [k \in 0..n |-> IF k = 0 THEN SelectBegins(items, offset)
                             ELSE SelectItem(loop[k - 1], items[skipped + k], verdict, count)]
  BY <1>2, <1>3, Zenon DEF IsLoop
<1> HIDE DEF loop, n, skipped, chosen
<1>5. loop[0] = SelectBegins(items, offset)
  <2>1. 0 \in 0..n
    BY <1>1
  <2> QED
    BY <1>4, <2>1, Zenon
<1>6. \A k \in 1..n : loop[k] = SelectItem(loop[k - 1], items[skipped + k], verdict, count)
  <2>1. \A k \in 1..n : k \in 0..n /\ k # 0
    BY <1>1
  <2> QED
    BY <1>4, <2>1, Zenon
<1> QED
  BY <1>1, <1>5, <1>6 DEF loop, n, skipped

SelectStates == [kept : Seq(Items), chosen : Seq(Items), over : BOOLEAN, requeue : BOOLEAN]

\* One iteration, case by case.
LEMMA SelectItemCases ==
  ASSUME NEW st \in SelectStates, NEW x \in Items, NEW verdict, NEW count \in Nat
  PROVE  LET next == SelectItem(st, x, verdict, count)
             judged == IF st.over THEN "skip" ELSE verdict[x]
         IN /\ next \in SelectStates
            /\ judged = "grab" => /\ next.kept = st.kept /\ next.chosen = Append(st.chosen, x)
                                  /\ next.over = (Len(st.chosen) + 1 >= count)
                                  /\ next.requeue = st.requeue
            /\ judged # "grab" => /\ next.kept = Append(st.kept, x) /\ next.chosen = st.chosen
                                  /\ next.over = (st.over \/ judged \in {"stop", "stop_and_requeue"})
                                  /\ next.requeue = (st.requeue \/ judged = "stop_and_requeue")
<1> DEFINE next == SelectItem(st, x, verdict, count)
<1>1. /\ st.kept \in Seq(Items) /\ st.chosen \in Seq(Items)
      /\ st.over \in BOOLEAN /\ st.requeue \in BOOLEAN
      /\ Append(st.kept, x) \in Seq(Items) /\ Append(st.chosen, x) \in Seq(Items)
      /\ (Len(st.chosen) + 1 >= count) \in BOOLEAN
  BY AppendProperties DEF SelectStates
<1>2. CASE st.over \/ (verdict[x] \notin {"grab", "stop", "stop_and_requeue"})
  <2>1. next = [st EXCEPT !.kept = Append(@, x)]
    BY <1>2 DEF SelectItem
  <2>2. next \in SelectStates
    BY <1>1, <2>1, Zenon DEF SelectStates
  <2>3. next.kept = Append(st.kept, x) /\ next.chosen = st.chosen /\ next.over = st.over /\ next.requeue = st.requeue
    BY <2>1 DEF SelectStates
  <2> QED
    BY <1>1, <1>2, <2>2, <2>3
<1>3. CASE ~st.over /\ verdict[x] = "grab"
  <2>1. next = [st EXCEPT !.chosen = Append(@, x), !.over = Len(st.chosen) + 1 >= count]
    BY <1>3 DEF SelectItem
  <2>2. next \in SelectStates
    BY <1>1, <2>1, Zenon DEF SelectStates
  <2>3. /\ next.kept = st.kept /\ next.chosen = Append(st.chosen, x)
        /\ next.over = (Len(st.chosen) + 1 >= count) /\ next.requeue = st.requeue
    BY <2>1 DEF SelectStates
  <2> QED
    BY <1>1, <1>3, <2>2, <2>3
<1>4. CASE ~st.over /\ verdict[x] = "stop"
  <2>1. next = [st EXCEPT !.kept = Append(@, x), !.over = TRUE]
    BY <1>4 DEF SelectItem
  <2>2. next \in SelectStates
    BY <1>1, <2>1, Zenon DEF SelectStates
  <2>3. next.kept = Append(st.kept, x) /\ next.chosen = st.chosen /\ next.over = TRUE /\ next.requeue = st.requeue
    BY <2>1 DEF SelectStates
  <2> QED
    BY <1>1, <1>4, <2>2, <2>3
<1>5. CASE ~st.over /\ verdict[x] = "stop_and_requeue"
  <2>1. next = [st EXCEPT !.kept = Append(@, x), !.over = TRUE, !.requeue = TRUE]
    BY <1>5 DEF SelectItem
  <2>2. next \in SelectStates
    BY <1>1, <2>1, Zenon DEF SelectStates
  <2>3. next.kept = Append(st.kept, x) /\ next.chosen = st.chosen /\ next.over = TRUE /\ next.requeue = TRUE
    BY <2>1 DEF SelectStates
  <2> QED
    BY <1>1, <1>5, <2>2, <2>3
<1> QED
  BY <1>2, <1>3, <1>4, <1>5

\* An element more is dealt to either side.
LEMMA DealsOneMore ==
  ASSUME NEW s \in Seq(Items), NEW a, NEW b, Deals(s, a, b), NEW x \in Items
  PROVE  /\ Deals(Append(s, x), Append(a, x), b)
         /\ Deals(Append(s, x), a, Append(b, x))
<1>1. /\ a \in Seq(Items) /\ b \in Seq(Items) /\ Len(a) + Len(b) = Len(s)
      /\ ToSet(a) \cup ToSet(b) = ToSet(s)
      /\ IsInjective(s) => IsInjective(a) /\ IsInjective(b) /\ ToSet(a) \cap ToSet(b) = {}
  BY ConcatOnce DEF Deals
<1>2. /\ Append(s, x) \in Seq(Items) /\ Len(Append(s, x)) = Len(s) + 1
      /\ ToSet(Append(s, x)) = ToSet(s) \cup {x}
      /\ IsInjective(Append(s, x)) <=> IsInjective(s) /\ x \notin ToSet(s)
  BY AppendOnce
<1>3. /\ Append(a, x) \in Seq(Items) /\ Len(Append(a, x)) = Len(a) + 1
      /\ ToSet(Append(a, x)) = ToSet(a) \cup {x}
      /\ IsInjective(Append(a, x)) <=> IsInjective(a) /\ x \notin ToSet(a)
  BY <1>1, AppendOnce
<1>4. /\ Append(b, x) \in Seq(Items) /\ Len(Append(b, x)) = Len(b) + 1
      /\ ToSet(Append(b, x)) = ToSet(b) \cup {x}
      /\ IsInjective(Append(b, x)) <=> IsInjective(b) /\ x \notin ToSet(b)
  BY <1>1, AppendOnce
<1>5. Len(a) \in Nat /\ Len(b) \in Nat
  BY <1>1, LenProperties
<1>6. Deals(Append(s, x), Append(a, x), b)
  <2>1. Len(Append(a, x)) + Len(b) = Len(Append(s, x))
    BY <1>1, <1>2, <1>3, <1>5
  <2>2. ToSet(Append(a, x)) \cup ToSet(b) = ToSet(Append(s, x))
    BY <1>1, <1>2, <1>3
  <2>3. IsInjective(Append(s, x)) =>
          IsInjective(Append(a, x)) /\ IsInjective(b) /\ ToSet(Append(a, x)) \cap ToSet(b) = {}
    BY <1>1, <1>2, <1>3
  <2> QED
    BY <1>1, <1>3, <2>1, <2>2, <2>3, DealsParts
<1>7. Deals(Append(s, x), a, Append(b, x))
  <2>1. Len(a) + Len(Append(b, x)) = Len(Append(s, x))
    BY <1>1, <1>2, <1>4, <1>5
  <2>2. ToSet(a) \cup ToSet(Append(b, x)) = ToSet(Append(s, x))
    BY <1>1, <1>2, <1>4
  <2>3. IsInjective(Append(s, x)) =>
          IsInjective(a) /\ IsInjective(Append(b, x)) /\ ToSet(a) \cap ToSet(Append(b, x)) = {}
    BY <1>1, <1>2, <1>4
  <2> QED
    BY <1>1, <1>4, <2>1, <2>2, <2>3, DealsParts
<1> QED
  BY <1>6, <1>7

\* The prefixes of a sequence.
LEMMA PrefixGrows ==
  ASSUME NEW items \in Seq(Items), NEW m \in Nat, m + 1 \in 1..Len(items)
  PROVE  /\ SubSeq(items, 1, m) \in Seq(Items)
         /\ items[m + 1] \in Items
         /\ SubSeq(items, 1, m + 1) = Append(SubSeq(items, 1, m), items[m + 1])
<1>1. Len(items) \in Nat /\ m \in 0..Len(items) /\ m + 1 \in 0..Len(items) /\ items[m + 1] \in Items
  BY LenProperties
<1>2. SubSeq(items, 1, m) \in Seq(Items)
  BY <1>1, Cut
<1>3. SubSeq(items, 1, m + 1) = SubSeq(items, 1, (m + 1) - 1) \o <<items[m + 1]>>
  <2>1. 1 \in 1..Len(items) /\ m + 1 \in 1..Len(items)
    BY <1>1
  <2> QED
    BY <2>1, SubSeqRecursiveSecond
<1>4. (m + 1) - 1 = m
  OBVIOUS
<1> QED
  BY <1>1, <1>2, <1>3, <1>4, AppendIsConcat

\* After k items the loop has dealt out the items it has gone over.
LEMMA LoopDeals ==
  ASSUME NEW items \in Seq(Items), NEW verdict, NEW count \in Nat, NEW offset \in Nat,
         NEW m \in 0..(Len(items) - actualCount(items, offset))
  PROVE  LET st == SelectLoop(items, verdict, count, offset)[m]
         IN /\ st \in SelectStates
            /\ Deals(SubSeq(items, 1, actualCount(items, offset) + m), st.kept, st.chosen)
<1> DEFINE skipped == actualCount(items, offset)
           n == Len(items) - skipped
           loop == SelectLoop(items, verdict, count, offset)
           Dealt(k) == /\ loop[k] \in SelectStates
                       /\ Deals(SubSeq(items, 1, skipped + k), loop[k].kept, loop[k].chosen)
           S == {k \in Nat : k <= n => Dealt(k)}
<1>1. /\ loop[0] = SelectBegins(items, offset)
      /\ \A k \in 1..n : loop[k] = SelectItem(loop[k - 1], items[skipped + k], verdict, count)
      /\ skipped \in 0..Len(items)
  BY LoopUnfolds
<1>2. Len(items) \in Nat /\ skipped \in Nat /\ n \in Nat /\ skipped + n = Len(items)
  BY <1>1, LenProperties
<1>3. SelectBegins(items, offset) \in SelectStates
  <2>1. SubSeq(items, 1, skipped) \in Seq(Items) /\ <<>> \in Seq(Items)
    BY <1>1, Cut, EmptySeq
  <2> QED
    BY <2>1, Zenon DEF SelectBegins, SelectStates
<1>4. /\ SelectBegins(items, offset).kept = SubSeq(items, 1, skipped)
      /\ SelectBegins(items, offset).chosen = <<>>
  BY DEF SelectBegins
<1> HIDE DEF loop, skipped, n
<1>5. 0 \in S
  <2> DEFINE s == SubSeq(items, 1, skipped)
  <2>1. s \in Seq(Items) /\ <<>> \in Seq(Items) /\ Len(<<>>) = 0 /\ ToSet(<<>>) = {} /\ IsInjective(<<>>)
    BY <1>1, Cut, EmptyOnce
  <2> HIDE DEF s
  <2>2. Len(s) + Len(<<>>) = Len(s)
    BY <2>1, LenProperties
  <2>3. Deals(s, s, <<>>)
    BY <2>1, <2>2, DealsParts
  <2>4. skipped + 0 = skipped
    BY <1>2
  <2>5. Dealt(0)
    BY <1>1, <1>3, <1>4, <2>3, <2>4 DEF s
  <2> QED
    BY <2>5
<1>6. ASSUME NEW k \in S PROVE k + 1 \in S
  <2> SUFFICES ASSUME k + 1 <= n PROVE Dealt(k + 1)
    OBVIOUS
  <2>1. k \in Nat /\ k <= n /\ k + 1 \in 1..n /\ (k + 1) - 1 = k
    BY <1>2
  <2>2. Dealt(k)
    BY <2>1
  <2> DEFINE x == items[skipped + (k + 1)]
             s == SubSeq(items, 1, skipped + k)
             st == loop[k]
  <2>3. loop[k + 1] = SelectItem(st, x, verdict, count)
    BY <1>1, <2>1
  <2>4. /\ s \in Seq(Items) /\ x \in Items
        /\ SubSeq(items, 1, skipped + (k + 1)) = Append(s, x)
    <3>1. skipped + k \in Nat /\ (skipped + k) + 1 = skipped + (k + 1) /\ (skipped + k) + 1 \in 1..Len(items)
      BY <1>2, <2>1
    <3> QED
      BY <3>1, PrefixGrows
  <2>5. st \in SelectStates /\ Deals(s, st.kept, st.chosen)
    BY <2>2
  <2> HIDE DEF x, s, st
  <2>6. /\ Deals(Append(s, x), Append(st.kept, x), st.chosen)
        /\ Deals(Append(s, x), st.kept, Append(st.chosen, x))
    BY <2>4, <2>5, DealsOneMore
  <2> DEFINE next == SelectItem(st, x, verdict, count)
  <2>7. /\ next \in SelectStates
        /\ \/ next.kept = st.kept /\ next.chosen = Append(st.chosen, x)
           \/ next.kept = Append(st.kept, x) /\ next.chosen = st.chosen
    BY <2>4, <2>5, SelectItemCases
  <2> HIDE DEF next
  <2>8. Deals(Append(s, x), next.kept, next.chosen)
    BY <2>6, <2>7
  <2> QED
    BY <2>3, <2>4, <2>7, <2>8 DEF next
<1>7. S = Nat
  <2> HIDE DEF S
  <2>1. S \in SUBSET Nat
    BY DEF S
  <2> QED
    BY <1>5, <1>6, <2>1, SetInduction, Zenon
<1>8. Dealt(m)
  <2>1. m \in Nat /\ m <= n
    BY <1>2 DEF n, skipped
  <2>2. m \in S
    <3> HIDE DEF S
    <3> QED
      BY <1>7, <2>1
  <2> QED
    BY <2>1, <2>2
<1> QED
  BY <1>8 DEF loop, skipped

\* A selective grab deals out the items.
LEMMA SelectionDeals ==
  ASSUME NEW items \in Seq(Items), NEW verdict, NEW count \in Nat, NEW offset \in Nat
  PROVE  LET s == Selection(items, verdict, count, offset)
         IN Deals(items, s.items, s.result)
<1> DEFINE end == SelectLoop(items, verdict, count, offset)[Len(items) - actualCount(items, offset)]
           s == Selection(items, verdict, count, offset)
<1>1. end \in SelectStates /\ Deals(items, end.kept, end.chosen)
  <2> DEFINE skipped == actualCount(items, offset)
             n == Len(items) - skipped
  <2>1. n \in 0..n /\ skipped + n = Len(items)
    BY LenProperties DEF actualCount
  <2>2. end \in SelectStates /\ Deals(SubSeq(items, 1, skipped + n), end.kept, end.chosen)
    BY <2>1, LoopDeals
  <2>3. SubSeq(items, 1, Len(items)) = items
    BY SubSeqFull
  <2> QED
    BY <2>1, <2>2, <2>3
<1>2. s = IF end.requeue THEN [items |-> end.kept \o end.chosen, result |-> <<>>]
                         ELSE [items |-> end.kept, result |-> end.chosen]
  BY DEF Selection
<1> HIDE DEF end, s
<1>3. ASSUME end.requeue PROVE Deals(items, s.items, s.result)
  <2> DEFINE a == end.kept
             b == end.chosen
  <2>1. s.items = a \o b /\ s.result = <<>>
    BY <1>2, <1>3
  <2>2. /\ a \in Seq(Items) /\ b \in Seq(Items) /\ Len(a) + Len(b) = Len(items)
        /\ ToSet(a) \cup ToSet(b) = ToSet(items)
        /\ IsInjective(items) => IsInjective(a \o b)
    BY <1>1 DEF Deals
  <2> HIDE DEF a, b
  <2>3. a \o b \in Seq(Items) /\ Len(a \o b) = Len(items) /\ ToSet(a \o b) = ToSet(items)
    BY <2>2, ConcatOnce
  <2> DEFINE c == a \o b
  <2>4. c \in Seq(Items) /\ Len(c) = Len(items) /\ ToSet(c) = ToSet(items) /\ (IsInjective(items) => IsInjective(c))
    BY <2>2, <2>3
  <2> HIDE DEF c
  <2>5. <<>> \in Seq(Items) /\ Len(<<>>) = 0 /\ ToSet(<<>>) = {} /\ IsInjective(<<>>)
    BY EmptyOnce
  <2>6. Len(c) + Len(<<>>) = Len(items)
    BY <2>4, <2>5, LenProperties
  <2>7. Deals(items, c, <<>>)
    BY <2>4, <2>5, <2>6, DealsParts
  <2> QED
    BY <2>1, <2>7 DEF c
<1>4. ASSUME ~end.requeue PROVE Deals(items, s.items, s.result)
  <2>1. s.items = end.kept /\ s.result = end.chosen
    BY <1>2, <1>4
  <2> QED
    BY <1>1, <2>1
<1> QED
  BY <1>3, <1>4 DEF s

\* One that is broken off deals them out to the container and to its exception.
LEMMA SelectionThrowsDeals ==
  ASSUME NEW items \in Seq(Items), NEW verdict, NEW count \in Nat, NEW offset \in Nat,
         NEW k \in Nat, k < Len(items) - actualCount(items, offset)
  PROVE  LET s == SelectionThrows(items, verdict, count, offset, k)
         IN Deals(items, s.items, s.lost)
<1> DEFINE skipped == actualCount(items, offset)
           st == SelectLoop(items, verdict, count, offset)[k]
           gone == SubSeq(items, 1, skipped + k)
           rest == SubSeq(items, skipped + k + 1, Len(items))
           s == SelectionThrows(items, verdict, count, offset, k)
<1>1. skipped \in Nat /\ k \in 0..(Len(items) - skipped) /\ skipped + k \in 0..Len(items)
  BY LenProperties DEF actualCount
<1>2. st \in SelectStates /\ Deals(gone, st.kept, st.chosen)
  BY <1>1, LoopDeals
<1>3. gone \in Seq(Items) /\ rest \in Seq(Items) /\ gone \o rest = items
  BY <1>1, Cut
<1>4. s.items = st.kept \o rest /\ s.lost = st.chosen
  BY DEF SelectionThrows
<1> HIDE DEF skipped, st, gone, rest, s
<1> DEFINE a == st.kept
           b == st.chosen
<1>5. /\ a \in Seq(Items) /\ b \in Seq(Items) /\ Len(a) + Len(b) = Len(gone)
      /\ ToSet(a) \cup ToSet(b) = ToSet(gone)
      /\ IsInjective(gone) => IsInjective(a \o b)
  BY <1>2 DEF Deals
<1> HIDE DEF a, b
<1>6. /\ Len(items) = Len(gone) + Len(rest) /\ ToSet(items) = ToSet(gone) \cup ToSet(rest)
      /\ IsInjective(items) <=> IsInjective(gone) /\ IsInjective(rest) /\ ToSet(gone) \cap ToSet(rest) = {}
  <2>1. /\ Len(gone \o rest) = Len(gone) + Len(rest) /\ ToSet(gone \o rest) = ToSet(gone) \cup ToSet(rest)
        /\ IsInjective(gone \o rest) <=>
             IsInjective(gone) /\ IsInjective(rest) /\ ToSet(gone) \cap ToSet(rest) = {}
    <3>1. gone \in Seq(Items) /\ rest \in Seq(Items)
      BY <1>3
    <3> QED
      BY <3>1, ConcatOnce
  <2> QED
    BY <1>3, <2>1
<1>7. /\ a \o rest \in Seq(Items) /\ Len(a \o rest) = Len(a) + Len(rest)
      /\ ToSet(a \o rest) = ToSet(a) \cup ToSet(rest)
      /\ IsInjective(a \o rest) <=> IsInjective(a) /\ IsInjective(rest) /\ ToSet(a) \cap ToSet(rest) = {}
      /\ IsInjective(a \o b) <=> IsInjective(a) /\ IsInjective(b) /\ ToSet(a) \cap ToSet(b) = {}
  <2>1. /\ a \o rest \in Seq(Items) /\ Len(a \o rest) = Len(a) + Len(rest)
        /\ ToSet(a \o rest) = ToSet(a) \cup ToSet(rest)
        /\ IsInjective(a \o rest) <=> IsInjective(a) /\ IsInjective(rest) /\ ToSet(a) \cap ToSet(rest) = {}
    BY <1>3, <1>5, ConcatOnce
  <2>2. IsInjective(a \o b) <=> IsInjective(a) /\ IsInjective(b) /\ ToSet(a) \cap ToSet(b) = {}
    BY <1>5, ConcatOnce
  <2> QED
    BY <2>1, <2>2
<1> DEFINE c == a \o rest
<1>8. /\ c \in Seq(Items) /\ ToSet(c) \cup ToSet(b) = ToSet(items)
      /\ IsInjective(items) => IsInjective(c) /\ IsInjective(b) /\ ToSet(c) \cap ToSet(b) = {}
  BY <1>5, <1>6, <1>7
<1>9. Len(c) + Len(b) = Len(items)
  <2>1. Len(a) \in Nat /\ Len(b) \in Nat /\ Len(rest) \in Nat
    BY <1>3, <1>5, LenProperties
  <2>2. Len(a) + Len(b) = Len(gone)
    BY <1>5
  <2>3. Len(items) = Len(gone) + Len(rest)
    BY <1>6
  <2>4. Len(c) = Len(a) + Len(rest)
    BY <1>7
  <2> HIDE DEF c
  <2> QED
    BY <2>1, <2>2, <2>3, <2>4
<1> HIDE DEF c
<1>10. Deals(items, c, b)
  BY <1>5, <1>8, <1>9, DealsParts
<1> QED
  BY <1>4, <1>10 DEF a, b, c, s

-----------------------------------------------------------------------------
(* The types, and every item once.                                         *)

\* What a batch is.
LEMMA BatchFacts ==
  ASSUME NEW batch \in Batches, ContainerTypeOK
  PROVE  batch \in Seq(Items) /\ Len(batch) \in Nat \ {0} /\ ToSet(batch) \subseteq fresh
<1>1. PICK n \in 1..MaxBatch : batch \in [1..n -> fresh]
  BY DEF Batches
<1>2. n \in Nat \ {0} /\ fresh \subseteq Items
  BY ContainerAssumption DEF ContainerTypeOK
<1>3. batch \in Seq(Items) /\ Len(batch) = n /\ DOMAIN batch = 1..n
  BY <1>1, <1>2
<1> QED
  BY <1>1, <1>2, <1>3 DEF ToSet

\* What is known of the surplus.
LEMMA CappedFacts ==
  ASSUME NEW n \in Nat, NEW items \in Seq(Items)
  PROVE  Capped(n, items) \in Nat /\ (Capped(n, items) = n \/ Capped(n, items) = Len(items))
<1>1. Len(items) \in Nat
  BY LenProperties
<1> QED
  BY <1>1 DEF Capped

\* An exception destroys what the container has dealt to it.
Destroys(items, gone) ==
    /\ Deals(m_items, items, gone)
    /\ m_items' = items
    /\ destroyed' = destroyed \cup ToSet(gone)
    /\ surplus' = Capped(surplus, items)
    /\ UNCHANGED <<inserting, cpc, wanted, fresh, taken, cleared, hollow>>

\* The steps, with the grabs as one kind of step: consumer c takes what the
\* container deals out.
LEMMA ContainerSteps ==
  ASSUME ContainerTypeOK, [ContainerNext]_containerVars
  PROVE  \/ \E p \in Producers, batch \in Batches, back \in BOOLEAN : Insert(p, batch, back)
         \/ \E p \in Producers, batch \in Batches : InsertThrows(p, batch)
         \/ \E p \in Producers : InsertNotifies(p)
         \/ \E c \in Consumers, count \in Counts, k \in 0..Len(m_items) : GrabThrows(c, count, k)
         \/ \E items, gone : Destroys(items, gone)
         \/ NotifyOne \/ NotifyAll \/ ClearItems
         \/ \E c \in Consumers, count \in Counts : GrabTimed(c, count)
         \/ UNCHANGED containerVars
         \/ \E items, result :
              /\ Deals(m_items, items, result) /\ Take(items, result)
              /\ UNCHANGED wanted
              /\ \/ UNCHANGED cpc
                 \/ \E c \in Consumers : /\ cpc[c] = "asleep"
                                         /\ cpc' = [cpc EXCEPT ![c] = "idle"]
                 \/ \E c \in Consumers :
                      /\ cpc[c] = "check"
                      /\ \/ m_items = <<>> /\ cpc' = [cpc EXCEPT ![c] = "asleep"]
                         \/ Len(items) < Len(m_items) /\ cpc' = [cpc EXCEPT ![c] = "idle"]
<1> DEFINE Dealt(items, result) ==
             /\ Deals(m_items, items, result) /\ Take(items, result)
             /\ UNCHANGED wanted
             /\ \/ UNCHANGED cpc
                \/ \E c \in Consumers : /\ cpc[c] = "asleep"
                                        /\ cpc' = [cpc EXCEPT ![c] = "idle"]
                \/ \E c \in Consumers :
                     /\ cpc[c] = "check"
                     /\ \/ m_items = <<>> /\ cpc' = [cpc EXCEPT ![c] = "asleep"]
                        \/ Len(items) < Len(m_items) /\ cpc' = [cpc EXCEPT ![c] = "idle"]
<1>1. m_items \in Seq(Items) /\ Counts \subseteq Nat \ {0} /\ Offsets \subseteq Nat
  BY ContainerAssumption DEF ContainerTypeOK
<1>2. \A c \in Consumers : wanted[c] \in Nat /\ wanted[c] > 0
  <2>1. \A c \in Consumers : wanted[c] \in Counts
    BY DEF ContainerTypeOK
  <2>2. \A n \in Counts : n \in Nat /\ n > 0
    BY <1>1
  <2> QED
    BY <2>1, <2>2, Zenon
<1>3. ASSUME NEW c \in Consumers, NEW count \in Counts, Grab(c, count)
      PROVE  \E items, result : Dealt(items, result)
  <2>1. Deals(m_items, OtherItems(m_items, count), FirstItems(m_items, count))
    BY <1>1, FirstItemsDeal
  <2>2. Dealt(OtherItems(m_items, count), FirstItems(m_items, count))
    BY <1>3, <2>1, Zenon DEF Grab
  <2> QED
    BY <2>2, Zenon
<1>4. ASSUME NEW c \in Consumers, NEW verdict, NEW count \in Counts, NEW offset \in Offsets,
             GrabSelected(c, verdict, count, offset)
      PROVE  \E items, result : Dealt(items, result)
  <2> DEFINE s == Selection(m_items, verdict, count, offset)
  <2>1. Deals(m_items, s.items, s.result)
    <3>1. count \in Nat /\ offset \in Nat
      BY <1>1
    <3> QED
      BY <1>1, <3>1, SelectionDeals
  <2>2. Dealt(s.items, s.result)
    BY <1>4, <2>1, Zenon DEF GrabSelected
  <2> QED
    BY <2>2, Zenon
<1>5. ASSUME NEW c \in Consumers, GrabOrSleep(c)
      PROVE  \E items, result : Dealt(items, result)
  <2> DEFINE items == OtherItems(m_items, wanted[c])
             result == FirstItems(m_items, wanted[c])
  <2>1. Deals(m_items, items, result) /\ (m_items # <<>> => Len(items) < Len(m_items))
    BY <1>1, <1>2, FirstItemsDeal
  <2>2. /\ Take(items, result) /\ UNCHANGED wanted /\ cpc[c] = "check"
        /\ cpc' = [cpc EXCEPT ![c] = IF m_items = <<>> THEN "asleep" ELSE "idle"]
    BY <1>5, Zenon DEF GrabOrSleep
  <2> HIDE DEF items, result
  <2>3. Dealt(items, result)
    BY <2>1, <2>2, Zenon
  <2> QED
    BY <2>3, Zenon
<1>6. ASSUME NEW c \in Consumers, GrabTimesOut(c)
      PROVE  \E items, result : Dealt(items, result)
  <2> DEFINE items == OtherItems(m_items, wanted[c])
             result == FirstItems(m_items, wanted[c])
  <2>1. Deals(m_items, items, result)
    BY <1>1, <1>2, FirstItemsDeal
  <2>2. /\ Take(items, result) /\ UNCHANGED wanted /\ cpc[c] = "asleep"
        /\ cpc' = [cpc EXCEPT ![c] = "idle"]
    BY <1>6, Zenon DEF GrabTimesOut
  <2> HIDE DEF items, result
  <2>3. Dealt(items, result)
    BY <2>1, <2>2, Zenon
  <2> QED
    BY <2>3, Zenon
<1>8. ASSUME NEW c \in Consumers, NEW verdict, NEW count \in Counts, NEW offset \in Offsets,
             NEW k \in 0..Len(m_items), GrabSelectedThrows(c, verdict, count, offset, k)
      PROVE  \E items, gone : Destroys(items, gone)
  <2> DEFINE s == SelectionThrows(m_items, verdict, count, offset, k)
  <2>1. Deals(m_items, s.items, s.lost)
    <3>1. count \in Nat /\ offset \in Nat /\ k \in Nat
      BY <1>1
    <3>2. k < Len(m_items) - actualCount(m_items, offset)
      BY <1>8 DEF GrabSelectedThrows
    <3> QED
      BY <1>1, <3>1, <3>2, SelectionThrowsDeals
  <2>2. Destroys(s.items, s.lost)
    BY <1>8, <2>1, Zenon DEF GrabSelectedThrows, Destroys
  <2> QED
    BY <2>2, Zenon
<1> HIDE DEF Dealt
<1>7. \/ \E p \in Producers, batch \in Batches, back \in BOOLEAN : Insert(p, batch, back)
      \/ \E p \in Producers, batch \in Batches : InsertThrows(p, batch)
      \/ \E p \in Producers : InsertNotifies(p)
      \/ \E c \in Consumers, count \in Counts, k \in 0..Len(m_items) : GrabThrows(c, count, k)
      \/ \E items, gone : Destroys(items, gone)
      \/ NotifyOne \/ NotifyAll \/ ClearItems
      \/ \E c \in Consumers, count \in Counts : GrabTimed(c, count)
      \/ UNCHANGED containerVars
      \/ \E items, result : Dealt(items, result)
  BY <1>3, <1>4, <1>5, <1>6, <1>8, Zenon DEF ContainerNext
<1> QED
  BY <1>7, Zenon DEF Dealt

LEMMA ContainerTypeStep ==
  ASSUME ContainerTypeOK, [ContainerNext]_containerVars
  PROVE  ContainerTypeOK'
<1>1. ASSUME NEW p \in Producers, NEW batch \in Batches, NEW back \in BOOLEAN, Insert(p, batch, back)
      PROVE  ContainerTypeOK'
  <2>1. batch \in Seq(Items) /\ Len(batch) \in Nat \ {0}
    BY BatchFacts
  <2>2. m_items' \in Seq(Items)
    BY <1>1, <2>1, ConcatProperties DEF Insert, Inserted, ContainerTypeOK
  <2>3. surplus' \in Nat
    BY <1>1, <2>1 DEF Insert, ContainerTypeOK
  <2> QED
    BY <1>1, <2>2, <2>3 DEF Insert, ContainerTypeOK
<1>2. ASSUME NEW c \in Consumers, NEW loc \in {"idle", "check", "asleep"},
             cpc' = [cpc EXCEPT ![c] = loc]
      PROVE  cpc' \in [Consumers -> {"idle", "check", "asleep"}]
  BY <1>2, Zenon DEF ContainerTypeOK
<1>3. ASSUME notify_one PROVE cpc' \in [Consumers -> {"idle", "check", "asleep"}]
  BY <1>2, <1>3 DEF notify_one, ContainerTypeOK
<1>4. ASSUME NEW p \in Producers, InsertNotifies(p) PROVE ContainerTypeOK'
  BY <1>3, <1>4 DEF InsertNotifies, ContainerTypeOK
<1>5. CASE NotifyOne
  BY <1>3, <1>5 DEF NotifyOne, ContainerTypeOK
<1>6. CASE NotifyAll
  BY <1>6 DEF NotifyAll, ContainerTypeOK
<1>7. CASE ClearItems
  <2>1. ToSet(m_items) \subseteq Items /\ <<>> \in Seq(Items)
    BY LenProperties, EmptySeq DEF ContainerTypeOK, ToSet
  <2> QED
    BY <1>7, <2>1 DEF ClearItems, ContainerTypeOK
<1>8. ASSUME NEW c \in Consumers, NEW count \in Counts, GrabTimed(c, count) PROVE ContainerTypeOK'
  <2>1. wanted' \in [Consumers -> Counts]
    BY <1>8, Zenon DEF GrabTimed, ContainerTypeOK
  <2> QED
    BY <1>2, <1>8, <2>1 DEF GrabTimed, ContainerTypeOK
<1>9. CASE UNCHANGED containerVars
  BY <1>9 DEF containerVars, ContainerTypeOK
<1>10. ASSUME NEW items, NEW result, Deals(m_items, items, result), Take(items, result), UNCHANGED wanted,
              \/ UNCHANGED cpc
              \/ \E c \in Consumers : cpc' = [cpc EXCEPT ![c] = "idle"]
              \/ \E c \in Consumers : cpc' = [cpc EXCEPT ![c] = "asleep"]
       PROVE  ContainerTypeOK'
  <2>1. cpc' \in [Consumers -> {"idle", "check", "asleep"}]
    BY <1>2, <1>10 DEF ContainerTypeOK
  <2>2. m_items' \in Seq(Items) /\ taken' \in Seq(Items)
    BY <1>10, ConcatProperties DEF Deals, Take, ContainerTypeOK
  <2>3. surplus' \in Nat
    <3>1. items \in Seq(Items) /\ surplus \in Nat /\ surplus' = Capped(surplus, items)
      BY <1>10 DEF Deals, Take, ContainerTypeOK
    <3> QED
      BY <3>1, CappedFacts
  <2> QED
    BY <1>10, <2>1, <2>2, <2>3 DEF Take, ContainerTypeOK
<1>11. ASSUME NEW p \in Producers, NEW batch \in Batches, InsertThrows(p, batch) PROVE ContainerTypeOK'
  <2>1. ToSet(batch) \subseteq Items
    BY BatchFacts DEF ContainerTypeOK
  <2> QED
    BY <1>11, <2>1 DEF InsertThrows, ContainerTypeOK
<1>12. ASSUME NEW c \in Consumers, NEW count \in Counts, NEW k \in 0..Len(m_items), GrabThrows(c, count, k)
       PROVE  ContainerTypeOK'
  <2>1. m_items \in Seq(Items) /\ surplus \in Nat /\ surplus + 1 \in Nat
    BY DEF ContainerTypeOK
  <2>2. SubSeq(m_items, 1, k) \in Seq(Items) /\ ToSet(SubSeq(m_items, 1, k)) \subseteq Items
    <3>1. SubSeq(m_items, 1, k) \in Seq(Items)
      BY <2>1, Cut
    <3> QED
      BY <3>1, LenProperties DEF ToSet
  <2>3. surplus' \in Nat
    BY <1>12, <2>1, CappedFacts DEF GrabThrows
  <2>4. cpc' \in [Consumers -> {"idle", "check", "asleep"}]
    BY <1>2, <1>12 DEF GrabThrows
  <2> QED
    BY <1>12, <2>2, <2>3, <2>4 DEF GrabThrows, ContainerTypeOK
<1>13. ASSUME NEW items, NEW gone, Destroys(items, gone) PROVE ContainerTypeOK'
  <2>1. items \in Seq(Items) /\ gone \in Seq(Items) /\ surplus \in Nat
    BY <1>13 DEF Destroys, Deals, ContainerTypeOK
  <2>2. surplus' \in Nat
    BY <1>13, <2>1, CappedFacts DEF Destroys
  <2>3. ToSet(gone) \subseteq Items
    BY <2>1, LenProperties DEF ToSet
  <2> QED
    BY <1>13, <2>1, <2>2, <2>3 DEF Destroys, ContainerTypeOK
<1> QED
  BY <1>1, <1>4, <1>5, <1>6, <1>7, <1>8, <1>9, <1>10, <1>11, <1>12, <1>13, ContainerSteps

\* ExactlyOnce, without the concatenation.
LEMMA OnceByParts ==
  ASSUME ContainerTypeOK
  PROVE  ExactlyOnce <=>
           /\ IsInjective(m_items) /\ IsInjective(taken) /\ ToSet(m_items) \cap ToSet(taken) = {}
           /\ ToSet(m_items) \cup ToSet(taken) \cup cleared \cup destroyed \cup fresh = Items
           /\ (ToSet(m_items) \cup ToSet(taken)) \cap (cleared \cup destroyed \cup fresh) = {}
           /\ cleared \cap (destroyed \cup fresh) = {}
           /\ fresh \cap (destroyed \cup hollow) = {}
<1>1. m_items \in Seq(Items) /\ taken \in Seq(Items)
  BY DEF ContainerTypeOK
<1>2. /\ ToSet(m_items \o taken) = ToSet(m_items) \cup ToSet(taken)
      /\ IsInjective(m_items \o taken) <=>
           IsInjective(m_items) /\ IsInjective(taken) /\ ToSet(m_items) \cap ToSet(taken) = {}
  BY <1>1, ConcatOnce
<1> QED
  BY <1>2 DEF ExactlyOnce

LEMMA ExactlyOnceStep ==
  ASSUME ContainerTypeOK, ContainerTypeOK', ExactlyOnce, [ContainerNext]_containerVars
  PROVE  ExactlyOnce'
<1>0. /\ m_items \in Seq(Items) /\ taken \in Seq(Items)
      /\ IsInjective(m_items) /\ IsInjective(taken) /\ ToSet(m_items) \cap ToSet(taken) = {}
      /\ ToSet(m_items) \cup ToSet(taken) \cup cleared \cup destroyed \cup fresh = Items
      /\ (ToSet(m_items) \cup ToSet(taken)) \cap (cleared \cup destroyed \cup fresh) = {}
      /\ cleared \cap (destroyed \cup fresh) = {}
      /\ fresh \cap (destroyed \cup hollow) = {}
  BY OnceByParts DEF ContainerTypeOK
<1> DEFINE Goal == /\ IsInjective(m_items') /\ IsInjective(taken') /\ ToSet(m_items') \cap ToSet(taken') = {}
                   /\ ToSet(m_items') \cup ToSet(taken') \cup cleared' \cup destroyed' \cup fresh' = Items
                   /\ (ToSet(m_items') \cup ToSet(taken')) \cap (cleared' \cup destroyed' \cup fresh') = {}
                   /\ cleared' \cap (destroyed' \cup fresh') = {}
                   /\ fresh' \cap (destroyed' \cup hollow') = {}
<1>1. ASSUME NEW p \in Producers, NEW batch \in Batches, NEW back \in BOOLEAN, Insert(p, batch, back)
      PROVE  Goal
  <2>1. batch \in Seq(Items) /\ ToSet(batch) \subseteq fresh /\ IsInjective(batch)
    BY <1>1, BatchFacts DEF Insert
  <2>2. /\ m_items' = m_items \o batch \/ m_items' = batch \o m_items
        /\ fresh' = fresh \ ToSet(batch) /\ taken' = taken /\ cleared' = cleared
        /\ destroyed' = destroyed /\ hollow' = hollow
    BY <1>1 DEF Insert, Inserted
  <2>3. ToSet(batch) \cap ToSet(m_items) = {}
    BY <1>0, <2>1
  <2>4. /\ ToSet(m_items \o batch) = ToSet(m_items) \cup ToSet(batch) /\ IsInjective(m_items \o batch)
        /\ ToSet(batch \o m_items) = ToSet(m_items) \cup ToSet(batch) /\ IsInjective(batch \o m_items)
    BY <1>0, <2>1, <2>3, ConcatOnce
  <2>5. ToSet(m_items') = ToSet(m_items) \cup ToSet(batch) /\ IsInjective(m_items')
    BY <2>2, <2>4
  <2> QED
    BY <1>0, <2>1, <2>2, <2>5
<1>2. ASSUME UNCHANGED <<m_items, taken, cleared, fresh, destroyed, hollow>> PROVE Goal
  BY <1>0, <1>2
<1>3. ASSUME ClearItems PROVE Goal
  <2>1. /\ m_items' = <<>> /\ cleared' = cleared \cup ToSet(m_items) /\ taken' = taken /\ fresh' = fresh
        /\ destroyed' = destroyed /\ hollow' = hollow
    BY <1>3 DEF ClearItems
  <2>2. ToSet(m_items') = {} /\ IsInjective(m_items')
    BY <2>1, EmptyOnce
  <2> QED
    BY <1>0, <2>1, <2>2
<1>4. ASSUME NEW items, NEW result, Deals(m_items, items, result), Take(items, result) PROVE Goal
  <2>1. items \in Seq(Items) /\ result \in Seq(Items)
    BY <1>4 DEF Deals
  <2>2. /\ ToSet(items) \cup ToSet(result) = ToSet(m_items)
        /\ IsInjective(items) /\ IsInjective(result) /\ ToSet(items) \cap ToSet(result) = {}
    BY <1>0, <1>4, <2>1, ConcatOnce DEF Deals
  <2>3. /\ m_items' = items /\ taken' = taken \o result /\ cleared' = cleared /\ fresh' = fresh
        /\ destroyed' = destroyed /\ hollow' = hollow
    BY <1>4 DEF Take
  <2>4. ToSet(taken \o result) = ToSet(taken) \cup ToSet(result) /\ IsInjective(taken \o result)
    <3>1. ToSet(taken) \cap ToSet(result) = {}
      BY <1>0, <2>2
    <3> QED
      BY <1>0, <2>1, <2>2, <3>1, ConcatOnce
  <2> QED
    BY <1>0, <2>2, <2>3, <2>4
<1>12. ASSUME NEW p \in Producers, NEW batch \in Batches, InsertThrows(p, batch) PROVE Goal
  <2>1. ToSet(batch) \subseteq fresh
    BY BatchFacts
  <2>2. /\ m_items' = m_items /\ taken' = taken /\ cleared' = cleared /\ hollow' = hollow
        /\ destroyed' = destroyed \cup ToSet(batch) /\ fresh' = fresh \ ToSet(batch)
    BY <1>12 DEF InsertThrows
  <2> QED
    BY <1>0, <2>1, <2>2
<1>13. ASSUME NEW c \in Consumers, NEW count \in Counts, NEW k \in 0..Len(m_items), GrabThrows(c, count, k)
       PROVE  Goal
  <2>1. ToSet(SubSeq(m_items, 1, k)) \subseteq ToSet(m_items)
    <3> DEFINE a == SubSeq(m_items, 1, k)
               b == SubSeq(m_items, k + 1, Len(m_items))
    <3>1. a \in Seq(Items) /\ b \in Seq(Items) /\ a \o b = m_items
      BY <1>0, Cut
    <3> HIDE DEF a, b
    <3>2. ToSet(a \o b) = ToSet(a) \cup ToSet(b)
      <4>1. a \in Seq(Items) /\ b \in Seq(Items)
        BY <3>1
      <4> QED
        BY <4>1, ConcatOnce
    <3> QED
      BY <3>1, <3>2 DEF a
  <2>2. /\ m_items' = m_items /\ taken' = taken /\ cleared' = cleared /\ destroyed' = destroyed
        /\ fresh' = fresh /\ hollow' = hollow \cup ToSet(SubSeq(m_items, 1, k))
    BY <1>13 DEF GrabThrows
  <2> QED
    BY <1>0, <2>1, <2>2
<1>14. ASSUME NEW items, NEW gone, Destroys(items, gone) PROVE Goal
  <2>1. items \in Seq(Items) /\ gone \in Seq(Items)
    BY <1>14 DEF Destroys, Deals
  <2>2. /\ ToSet(items) \cup ToSet(gone) = ToSet(m_items)
        /\ IsInjective(items) /\ ToSet(items) \cap ToSet(gone) = {}
    BY <1>0, <1>14, <2>1, ConcatOnce DEF Destroys, Deals
  <2>3. /\ m_items' = items /\ destroyed' = destroyed \cup ToSet(gone)
        /\ taken' = taken /\ cleared' = cleared /\ fresh' = fresh /\ hollow' = hollow
    BY <1>14 DEF Destroys
  <2> QED
    BY <1>0, <2>2, <2>3
<1> HIDE DEF Goal
<1>5. ASSUME NEW p \in Producers, InsertNotifies(p) PROVE Goal
  BY <1>2, <1>5 DEF InsertNotifies
<1>6. ASSUME NotifyOne PROVE Goal
  BY <1>2, <1>6 DEF NotifyOne
<1>7. ASSUME NotifyAll PROVE Goal
  BY <1>2, <1>7 DEF NotifyAll
<1>8. ASSUME NEW c \in Consumers, NEW count \in Counts, GrabTimed(c, count) PROVE Goal
  BY <1>2, <1>8 DEF GrabTimed
<1>9. ASSUME UNCHANGED containerVars PROVE Goal
  BY <1>2, <1>9 DEF containerVars
<1>10. Goal
  BY <1>1, <1>3, <1>4, <1>5, <1>6, <1>7, <1>8, <1>9, <1>12, <1>13, <1>14, ContainerSteps, Zenon
<1>11. ContainerTypeOK' /\ Goal => ExactlyOnce'
  <2> SUFFICES ASSUME ContainerTypeOK', Goal PROVE ExactlyOnce'
    OBVIOUS
  <2>1. m_items' \in Seq(Items) /\ taken' \in Seq(Items)
    BY DEF ContainerTypeOK
  <2>2. /\ ToSet(m_items' \o taken') = ToSet(m_items') \cup ToSet(taken')
        /\ IsInjective(m_items' \o taken') <=>
             IsInjective(m_items') /\ IsInjective(taken') /\ ToSet(m_items') \cap ToSet(taken') = {}
    BY <2>1, ConcatOnce
  <2> QED
    BY <2>2 DEF ExactlyOnce, Goal
<1> QED
  BY <1>10, <1>11

-----------------------------------------------------------------------------
(* Sleepers and wake-ups.                                                  *)

Checking == {c \in Consumers : cpc[c] = "check"}

\* The number of wake-ups under way, when one ends and when one begins.
LEMMA WakeupFacts ==
  ASSUME NEW S, IsFiniteSet(S), NEW A \in SUBSET S, NEW x \in S
  PROVE  /\ Cardinality(A) \in Nat
         /\ x \in A => Cardinality(A \ {x}) = Cardinality(A) - 1 /\ Cardinality(A) > 0
         /\ x \notin A => Cardinality(A \cup {x}) = Cardinality(A) + 1
<1>1. IsFiniteSet(A)
  BY FS_Subset
<1>2. Cardinality(A) \in Nat
  BY <1>1, FS_CardinalityType
<1>3. x \in A => Cardinality(A \ {x}) = Cardinality(A) - 1
  BY <1>1, FS_RemoveElement
<1>4. x \notin A => Cardinality(A \cup {x}) = Cardinality(A) + 1
  BY <1>1, FS_AddElement
<1>5. x \in A => Cardinality(A) > 0
  <2>1. x \in A => A # {}
    OBVIOUS
  <2> QED
    BY <1>1, <1>2, <2>1, FS_EmptySet
<1> QED
  BY <1>2, <1>3, <1>4, <1>5

LEMMA NoSleeperStep ==
  ASSUME ContainerTypeOK, ContainerTypeOK', NoSleeperBesideItems, [ContainerNext]_containerVars
  PROVE  NoSleeperBesideItems'
<1> DEFINE I == Cardinality(inserting)
           K == Cardinality(Checking)
           Asleep(f) == \E c \in Consumers : f[c] = "asleep"
           Goal == Asleep(cpc') => Len(m_items') <= Cardinality(inserting') + Cardinality(Checking') + surplus'
<1>0. /\ IsFiniteSet(Producers) /\ IsFiniteSet(Consumers)
      /\ inserting \in SUBSET Producers /\ Checking \in SUBSET Consumers
      /\ inserting' \in SUBSET Producers /\ Checking' \in SUBSET Consumers
      /\ cpc \in [Consumers -> {"idle", "check", "asleep"}]
      /\ surplus \in Nat /\ surplus' \in Nat
  BY ContainerAssumption DEF ContainerTypeOK, Checking
<1>1. I \in Nat /\ K \in Nat /\ Cardinality(inserting') \in Nat /\ Cardinality(Checking') \in Nat
  BY <1>0, FS_Subset, FS_CardinalityType
<1>2. Len(m_items) \in Nat /\ Len(m_items') \in Nat
  BY LenProperties DEF ContainerTypeOK
<1>3. Asleep(cpc) => Len(m_items) <= I + K + surplus
  BY DEF NoSleeperBesideItems, Checking
<1> HIDE DEF I, K
<1>4. ASSUME NEW c \in Consumers, NEW loc \in {"idle", "asleep"}, cpc' = [cpc EXCEPT ![c] = loc]
      PROVE  /\ cpc[c] = "check" => Cardinality(Checking') = K - 1
             /\ cpc[c] # "check" => Checking' = Checking
             /\ loc = "idle" /\ Asleep(cpc') => Asleep(cpc)
  <2>1. \A d \in Consumers : cpc'[d] = IF d = c THEN loc ELSE cpc[d]
    BY <1>0, <1>4
  <2>2. Checking' = {d \in Consumers : cpc'[d] = "check"}
    BY DEF Checking
  <2>3. Checking' = Checking \ {c}
    BY <2>1, <2>2 DEF Checking
  <2>4. c \in Checking <=> cpc[c] = "check"
    BY DEF Checking
  <2>5. c \in Checking => Cardinality(Checking \ {c}) = Cardinality(Checking) - 1
    BY <1>0, WakeupFacts
  <2> QED
    BY <2>1, <2>3, <2>4, <2>5 DEF K
<1>5. ASSUME NEW c \in Consumers, cpc[c] # "check", cpc' = [cpc EXCEPT ![c] = "check"]
      PROVE  Cardinality(Checking') = K + 1 /\ (Asleep(cpc') => Asleep(cpc))
  <2>1. \A d \in Consumers : cpc'[d] = IF d = c THEN "check" ELSE cpc[d]
    BY <1>0, <1>5
  <2>2. Checking' = {d \in Consumers : cpc'[d] = "check"}
    BY DEF Checking
  <2>3. Checking' = Checking \cup {c} /\ c \notin Checking
    BY <1>5, <2>1, <2>2 DEF Checking
  <2>4. c \notin Checking => Cardinality(Checking \cup {c}) = Cardinality(Checking) + 1
    BY <1>0, WakeupFacts
  <2> QED
    BY <2>1, <2>3, <2>4 DEF K
<1>6. UNCHANGED cpc => Checking' = Checking /\ (Asleep(cpc') <=> Asleep(cpc))
  BY DEF Checking
<1>7. ASSUME notify_one
      PROVE  \/ ~Asleep(cpc')
             \/ Asleep(cpc) /\ Cardinality(Checking') = K + 1
  <2> DEFINE sleepers == {c \in Consumers : cpc[c] = "asleep"}
  <2>1. CASE sleepers = {}
    <3>1. UNCHANGED cpc /\ ~Asleep(cpc)
      BY <1>7, <2>1 DEF notify_one
    <3> QED
      BY <1>6, <3>1
  <2>2. CASE sleepers # {}
    <3>1. PICK c \in sleepers : cpc' = [cpc EXCEPT ![c] = "check"]
      BY <1>7, <2>2 DEF notify_one
    <3>2. c \in Consumers /\ cpc[c] # "check"
      OBVIOUS
    <3> QED
      BY <1>5, <2>2, <3>1, <3>2
  <2> QED
    BY <2>1, <2>2
<1>8. ASSUME NEW p \in Producers, NEW batch \in Batches, NEW back \in BOOLEAN, Insert(p, batch, back)
      PROVE  Goal
  <2>1. batch \in Seq(Items) /\ Len(batch) \in Nat /\ m_items \in Seq(Items)
    BY BatchFacts DEF ContainerTypeOK
  <2>2. /\ p \notin inserting /\ inserting' = inserting \cup {p}
        /\ surplus' = surplus + Len(batch) - 1 /\ UNCHANGED cpc
        /\ m_items' = m_items \o batch \/ m_items' = batch \o m_items
    BY <1>8 DEF Insert, Inserted
  <2>3. Len(m_items \o batch) = Len(m_items) + Len(batch) /\ Len(batch \o m_items) = Len(batch) + Len(m_items)
    BY <2>1, ConcatProperties
  <2>4. Len(m_items') = Len(m_items) + Len(batch)
    BY <1>2, <2>1, <2>2, <2>3
  <2>5. Cardinality(inserting') = I + 1
    BY <1>0, <2>2, WakeupFacts DEF I
  <2>6. Cardinality(Checking') = K /\ (Asleep(cpc') <=> Asleep(cpc))
    BY <1>6, <2>2 DEF K
  <2>7. surplus' = surplus + Len(batch) - 1
    BY <2>2
  <2> HIDE DEF Asleep
  <2> QED
    BY <1>0, <1>1, <1>2, <1>3, <2>1, <2>4, <2>5, <2>6, <2>7
<1>9. ASSUME NEW p \in Producers, InsertNotifies(p) PROVE Goal
  <2>1. /\ p \in inserting /\ inserting' = inserting \ {p} /\ notify_one
        /\ surplus' = surplus /\ m_items' = m_items
    BY <1>9 DEF InsertNotifies
  <2>2. Cardinality(inserting') = I - 1
    BY <1>0, <2>1, WakeupFacts DEF I
  <2> HIDE DEF Asleep
  <2> QED
    BY <1>0, <1>1, <1>2, <1>3, <1>7, <2>1, <2>2
<1>10. ASSUME NotifyOne PROVE Goal
  <2>1. notify_one /\ surplus' = surplus /\ m_items' = m_items /\ Cardinality(inserting') = I
    BY <1>10 DEF NotifyOne, I
  <2> HIDE DEF Asleep
  <2> QED
    BY <1>0, <1>1, <1>2, <1>3, <1>7, <2>1
<1>11. ASSUME NotifyAll PROVE Goal
  <2>1. \A c \in Consumers : cpc'[c] # "asleep"
    BY <1>0, <1>11 DEF NotifyAll
  <2> QED
    BY <2>1
<1>12. ASSUME ClearItems PROVE Goal
  <2>1. Len(m_items') = 0
    BY <1>12, EmptySeq DEF ClearItems
  <2> HIDE DEF Asleep
  <2> QED
    BY <1>0, <1>1, <2>1
<1>13. ASSUME NEW c \in Consumers, NEW count \in Counts, GrabTimed(c, count) PROVE Goal
  <2>1. /\ cpc[c] # "check" /\ cpc' = [cpc EXCEPT ![c] = "check"]
        /\ surplus' = surplus /\ m_items' = m_items /\ Cardinality(inserting') = I
    BY <1>13 DEF GrabTimed, I
  <2>2. Cardinality(Checking') = K + 1 /\ (Asleep(cpc') => Asleep(cpc))
    BY <1>5, <2>1
  <2> HIDE DEF Asleep
  <2> QED
    BY <1>0, <1>1, <1>2, <1>3, <2>1, <2>2
<1>14. ASSUME UNCHANGED containerVars PROVE Goal
  <2>1. /\ UNCHANGED cpc /\ surplus' = surplus /\ m_items' = m_items /\ Cardinality(inserting') = I
    BY <1>14 DEF containerVars, I
  <2>2. Cardinality(Checking') = K /\ (Asleep(cpc') <=> Asleep(cpc))
    BY <1>6, <2>1 DEF K
  <2> HIDE DEF Asleep
  <2> QED
    BY <1>3, <2>1, <2>2
<1>15. ASSUME NEW items, NEW result, Deals(m_items, items, result), Take(items, result),
              \/ UNCHANGED cpc
              \/ \E c \in Consumers : cpc[c] = "asleep" /\ cpc' = [cpc EXCEPT ![c] = "idle"]
              \/ \E c \in Consumers :
                   /\ cpc[c] = "check"
                   /\ \/ m_items = <<>> /\ cpc' = [cpc EXCEPT ![c] = "asleep"]
                      \/ Len(items) < Len(m_items) /\ cpc' = [cpc EXCEPT ![c] = "idle"]
       PROVE  Goal
  <2>1. m_items' = items /\ surplus' \in {surplus, Len(m_items')} /\ Cardinality(inserting') = I
    <3>1. items \in Seq(Items) /\ m_items' = items /\ surplus' = Capped(surplus, items)
      BY <1>15 DEF Deals, Take
    <3>2. surplus' = surplus \/ surplus' = Len(items)
      BY <1>0, <3>1, CappedFacts
    <3>3. inserting' = inserting
      BY <1>15 DEF Take
    <3> QED
      BY <3>1, <3>2, <3>3 DEF I
  <2>2. Len(m_items') <= Len(m_items)
    <3>1. result \in Seq(Items) /\ Len(items) + Len(result) = Len(m_items)
      BY <1>15 DEF Deals
    <3>2. Len(result) \in Nat
      BY <3>1, LenProperties
    <3> QED
      BY <1>2, <2>1, <3>1, <3>2
  <2>3. CASE UNCHANGED cpc
    <3>1. Cardinality(Checking') = K /\ (Asleep(cpc') <=> Asleep(cpc))
      BY <1>6, <2>3 DEF K
    <3> HIDE DEF Asleep
    <3> QED
      BY <1>0, <1>1, <1>2, <1>3, <2>1, <2>2, <3>1
  <2>4. ASSUME NEW c \in Consumers, cpc[c] = "asleep", cpc' = [cpc EXCEPT ![c] = "idle"] PROVE Goal
    <3>1. Cardinality(Checking') = K /\ Asleep(cpc)
      BY <1>4, <2>4 DEF K
    <3> HIDE DEF Asleep
    <3> QED
      BY <1>0, <1>1, <1>2, <1>3, <2>1, <2>2, <3>1
  <2>5. ASSUME m_items = <<>> PROVE Goal
    <3>1. Len(m_items) = 0
      BY <2>5, EmptySeq
    <3> HIDE DEF Asleep
    <3> QED
      BY <1>0, <1>1, <1>2, <2>2, <3>1
  <2>6. ASSUME NEW c \in Consumers, cpc[c] = "check", Len(items) < Len(m_items),
               cpc' = [cpc EXCEPT ![c] = "idle"]
        PROVE  Goal
    <3>1. Cardinality(Checking') = K - 1 /\ (Asleep(cpc') => Asleep(cpc))
      BY <1>4, <2>6
    <3>2. Len(m_items') < Len(m_items)
      BY <2>1, <2>6
    <3> HIDE DEF Asleep
    <3> QED
      BY <1>0, <1>1, <1>2, <1>3, <2>1, <3>1, <3>2
  <2> HIDE DEF Goal
  <2> QED
    BY <1>15, <2>3, <2>4, <2>5, <2>6
<1>17. ASSUME NEW p \in Producers, NEW batch \in Batches, InsertThrows(p, batch) PROVE Goal
  <2>1. UNCHANGED cpc /\ surplus' = surplus /\ m_items' = m_items /\ Cardinality(inserting') = I
    BY <1>17 DEF InsertThrows, I
  <2>2. Cardinality(Checking') = K /\ (Asleep(cpc') <=> Asleep(cpc))
    BY <1>6, <2>1 DEF K
  <2> HIDE DEF Asleep
  <2> QED
    BY <1>3, <2>1, <2>2
<1>18. ASSUME NEW c \in Consumers, NEW count \in Counts, NEW k \in 0..Len(m_items), GrabThrows(c, count, k)
       PROVE  Goal
  <2>1. /\ cpc' = [cpc EXCEPT ![c] = "idle"] /\ m_items' = m_items /\ Cardinality(inserting') = I
        /\ surplus' = IF cpc[c] = "check" THEN Capped(surplus + 1, m_items) ELSE surplus
    BY <1>18 DEF GrabThrows, I
  <2>2. /\ cpc[c] = "check" => Cardinality(Checking') = K - 1
        /\ cpc[c] # "check" => Cardinality(Checking') = K
        /\ Asleep(cpc') => Asleep(cpc)
    BY <1>4, <2>1 DEF K
  <2>3. cpc[c] = "check" => surplus' \in {surplus + 1, Len(m_items')}
    <3>1. m_items \in Seq(Items) /\ surplus + 1 \in Nat
      BY <1>0 DEF ContainerTypeOK
    <3>2. Capped(surplus + 1, m_items) \in {surplus + 1, Len(m_items)}
      BY <3>1, CappedFacts
    <3> QED
      BY <2>1, <3>2
  <2>4. cpc[c] # "check" => surplus' = surplus
    BY <2>1
  <2>5. m_items' = m_items /\ Cardinality(inserting') = I
    BY <2>1
  <2> HIDE DEF Asleep
  <2> QED
    BY <1>0, <1>1, <1>2, <1>3, <2>2, <2>3, <2>4, <2>5
<1>19. ASSUME NEW items, NEW gone, Destroys(items, gone) PROVE Goal
  <2>1. /\ items \in Seq(Items) /\ gone \in Seq(Items) /\ Len(items) + Len(gone) = Len(m_items)
        /\ m_items' = items /\ surplus' = Capped(surplus, items)
        /\ UNCHANGED cpc /\ Cardinality(inserting') = I
    BY <1>19 DEF Destroys, Deals, I
  <2>2. surplus' \in {surplus, Len(m_items')}
    BY <1>0, <2>1, CappedFacts
  <2>3. Len(m_items') <= Len(m_items)
    <3>1. Len(gone) \in Nat /\ Len(items) \in Nat
      BY <2>1, LenProperties
    <3> QED
      BY <2>1, <3>1
  <2>4. Cardinality(Checking') = K /\ (Asleep(cpc') <=> Asleep(cpc))
    BY <1>6, <2>1 DEF K
  <2>5. Cardinality(inserting') = I
    BY <2>1
  <2> HIDE DEF Asleep
  <2> QED
    BY <1>0, <1>1, <1>2, <1>3, <2>2, <2>3, <2>4, <2>5
<1> HIDE DEF Goal
<1>16. Goal
  BY <1>8, <1>9, <1>10, <1>11, <1>12, <1>13, <1>14, <1>15, <1>17, <1>18, <1>19, ContainerSteps, Zenon
<1> QED
  BY <1>16 DEF Goal, NoSleeperBesideItems, Checking

-----------------------------------------------------------------------------
(* The loop selects what it means to select.                               *)

\* The positions up to i, and how many they are.
LEMMA UpTo ==
  ASSUME NEW m \in Nat, NEW S \in SUBSET (1..m)
  PROVE  /\ IsFiniteSet(S) /\ Cardinality(S) \in Nat
         /\ \A T \in SUBSET S : IsFiniteSet(T) /\ Cardinality(T) \in Nat /\ Cardinality(T) <= Cardinality(S)
<1>1. IsFiniteSet(1..m)
  BY FS_Interval
<1>2. IsFiniteSet(S)
  BY <1>1, FS_Subset
<1>3. ASSUME NEW T \in SUBSET S PROVE IsFiniteSet(T) /\ Cardinality(T) <= Cardinality(S)
  BY <1>2, FS_Subset
<1> QED
  BY <1>2, <1>3, FS_CardinalityType

\* A position more, behind the others, adds its item at the end.
LEMMA PickGrows ==
  ASSUME NEW items \in Seq(Items), NEW m \in Nat, m + 1 \in 1..Len(items),
         NEW S \in SUBSET (1..m), Pick(items, S) \in Seq(Items)
  PROVE  /\ Pick(items, S \cup {m + 1}) = Append(Pick(items, S), items[m + 1])
         /\ Len(Pick(items, S)) = Cardinality(S)
<1> DEFINE T == S \cup {m + 1}
           n == Cardinality(S)
           At(U, k) == CHOOSE i \in U : Cardinality({j \in U : j <= i}) = k
<1>1. IsFiniteSet(S) /\ n \in Nat /\ \A U \in SUBSET S : Cardinality(U) \in Nat /\ Cardinality(U) <= n
  BY UpTo
<1>2. Cardinality(T) = n + 1
  <2>1. m + 1 \notin S
    OBVIOUS
  <2> QED
    BY <1>1, <2>1, FS_AddElement
<1>3. \A i \in S : {j \in T : j <= i} = {j \in S : j <= i} /\ i \in 1..m
  OBVIOUS
<1>4. {j \in T : j <= m + 1} = T
  <2>1. \A j \in T : j <= m + 1
    OBVIOUS
  <2> QED
    BY <2>1, Zenon
<1>5. \A i \in S : Cardinality({j \in T : j <= i}) <= n
  BY <1>1, <1>3
<1>6. ASSUME NEW k \in 1..n PROVE At(T, k) = At(S, k)
  <2>1. \A i : (i \in T /\ Cardinality({j \in T : j <= i}) = k) <=> (i \in S /\ Cardinality({j \in S : j <= i}) = k)
    <3> SUFFICES ASSUME NEW i PROVE (i \in T /\ Cardinality({j \in T : j <= i}) = k) <=> (i \in S /\ Cardinality({j \in S : j <= i}) = k)
      OBVIOUS
    <3>1. CASE i \in S
      BY <1>3, <3>1
    <3>2. CASE i = m + 1
      <4>1. Cardinality({j \in T : j <= i}) = n + 1 /\ n + 1 # k /\ i \notin S
        BY <1>1, <1>2, <1>4, <3>2
      <4> QED
        BY <4>1
    <3> QED
      BY <3>1, <3>2
  <2> QED
    BY <2>1, Zenon
<1>7. At(T, n + 1) = m + 1
  <2>1. \A i \in T : Cardinality({j \in T : j <= i}) = n + 1 <=> i = m + 1
    <3> SUFFICES ASSUME NEW i \in T
                 PROVE  Cardinality({j \in T : j <= i}) = n + 1 <=> i = m + 1
      BY Zenon
    <3>1. CASE i = m + 1
      BY <1>2, <1>4, <3>1
    <3>2. CASE i \in S
      <4>1. {j \in S : j <= i} \in SUBSET S /\ {j \in T : j <= i} = {j \in S : j <= i} /\ i # m + 1
        BY <1>3, <3>2
      <4>2. Cardinality({j \in T : j <= i}) \in Nat /\ Cardinality({j \in T : j <= i}) <= n
        BY <1>1, <4>1
      <4> HIDE DEF T, n
      <4> QED
        BY <1>1, <4>1, <4>2
    <3> QED
      BY <3>1, <3>2
  <2>2. m + 1 \in T
    OBVIOUS
  <2> HIDE DEF T, n
  <2> QED
    BY <2>1, <2>2, Zenon
<1>8. Pick(items, S) = [k \in 1..n |-> items[At(S, k)]]
  BY DEF Pick
<1>9. Pick(items, T) = [k \in 1..(n + 1) |-> items[At(T, k)]]
  BY <1>2 DEF Pick
<1> DEFINE s == Pick(items, S)
           t == Pick(items, T)
<1> HIDE DEF T, n, At, s, t
<1>10. Len(s) = n /\ s \in Seq(Items) /\ items[m + 1] \in Items
  BY <1>1, <1>8, LenProperties DEF s
<1>11. t = Append(s, items[m + 1])
  <2>1. /\ DOMAIN t = 1..(n + 1) /\ t[n + 1] = items[m + 1]
        /\ \A k \in 1..n : t[k] = s[k]
    BY <1>1, <1>6, <1>7, <1>8, <1>9 DEF s, t
  <2>2. /\ Append(s, items[m + 1]) \in Seq(Items) /\ Len(Append(s, items[m + 1])) = n + 1
        /\ \A k \in 1..n : Append(s, items[m + 1])[k] = s[k]
        /\ Append(s, items[m + 1])[n + 1] = items[m + 1]
    BY <1>10, AppendProperties
  <2> DEFINE u == Append(s, items[m + 1])
  <2>3. u = [k \in 1..(n + 1) |-> u[k]]
    BY <2>2, LenProperties
  <2>4. t = [k \in 1..(n + 1) |-> t[k]]
    BY <1>9 DEF t
  <2>5. \A k \in 1..(n + 1) : u[k] = t[k]
    BY <1>1, <2>1, <2>2
  <2> HIDE DEF u
  <2> QED
    BY <2>3, <2>4, <2>5, Zenon DEF u
<1> QED
  BY <1>10, <1>11 DEF s, t, T, n

\* The positions of a prefix give the prefix.
LEMMA PickPrefix ==
  ASSUME NEW items \in Seq(Items), NEW m \in 0..Len(items)
  PROVE  /\ Pick(items, 1..m) = SubSeq(items, 1, m)
         /\ Pick(items, {}) = <<>>
<1>1. m \in Nat /\ Len(items) \in Nat
  BY LenProperties
<1>2. \A i \in Nat : Cardinality(1..i) = i
  <2>1. \A i \in Nat : 1 \in Int /\ i \in Int
    OBVIOUS
  <2>2. \A i \in Nat : Cardinality(1..i) = IF 1 > i THEN 0 ELSE i - 1 + 1
    BY <2>1, FS_Interval
  <2> QED
    BY <2>2
<1>3. ASSUME NEW k \in 1..m PROVE (CHOOSE i \in 1..m : Cardinality({j \in 1..m : j <= i}) = k) = k
  <2>1. \A i \in 1..m : {j \in 1..m : j <= i} = 1..i /\ i \in Nat
    BY <1>1
  <2>2. \A i \in 1..m : Cardinality({j \in 1..m : j <= i}) = i
    BY <1>2, <2>1
  <2>3. \A i \in 1..m : Cardinality({j \in 1..m : j <= i}) = k <=> i = k
    BY <2>2
  <2> QED
    BY <2>3, Zenon
<1>4. Pick(items, 1..m) = [k \in 1..m |-> items[k]]
  <2>1. Cardinality(1..m) = m
    BY <1>1, <1>2
  <2> DEFINE At(k) == CHOOSE i \in 1..m : Cardinality({j \in 1..m : j <= i}) = k
  <2>2. Pick(items, 1..m) = [k \in 1..m |-> items[At(k)]]
    BY <2>1 DEF Pick
  <2>3. \A k \in 1..m : items[At(k)] = items[k]
    BY <1>3, Zenon
  <2> HIDE DEF At
  <2> QED
    BY <2>2, <2>3, Zenon
<1>5. SubSeq(items, 1, m) = [k \in 1..m |-> items[k]]
  BY <1>1
<1>6. Pick(items, {}) = <<>>
  <2>1. Cardinality({}) = 0 /\ 1..0 = {}
    BY FS_EmptySet
  <2> QED
    BY <2>1 DEF Pick
<1> QED
  BY <1>4, <1>5, <1>6

\* Where the loop is after the items up to position m: it has kept and chosen what
\* SelectionMeans says of these positions, and is over when it cannot reach the next.
SelectedUpTo(st, m, items, verdict, count, offset) ==
    /\ st \in SelectStates
    /\ st.kept = Pick(items, (1..m) \ Chosen(items, verdict, count, offset))
    /\ st.chosen = Pick(items, Chosen(items, verdict, count, offset) \cap (1..m))
    /\ st.over <=> ~Reached(items, verdict, count, offset, m + 1)
    /\ ~st.over => Len(st.chosen) = Cardinality({g \in Judged(items, verdict, offset, {"grab"}) : g < m + 1})
    /\ st.requeue <=> \E s \in Judged(items, verdict, offset, {"stop_and_requeue"}) :
                         s <= m /\ Reached(items, verdict, count, offset, s)

LEMMA SelectedInitially ==
  ASSUME NEW items \in Seq(Items), NEW verdict, NEW count \in Nat \ {0}, NEW offset \in Nat
  PROVE  SelectedUpTo(SelectBegins(items, offset), actualCount(items, offset),
                      items, verdict, count, offset)
<1> DEFINE m == actualCount(items, offset)
           st == SelectBegins(items, offset)
           C == Chosen(items, verdict, count, offset)
<1>1. m \in 0..Len(items) /\ Len(items) \in Nat /\ (m < Len(items) => m = offset) /\ m <= offset
  BY LenProperties DEF actualCount
<1>2. st.kept = SubSeq(items, 1, m) /\ st.chosen = <<>> /\ st.over = FALSE /\ st.requeue = FALSE
  BY DEF SelectBegins
<1>3. st \in SelectStates
  <2>1. SubSeq(items, 1, m) \in Seq(Items) /\ <<>> \in Seq(Items)
    BY <1>1, Cut, EmptySeq
  <2> QED
    BY <2>1, Zenon DEF SelectBegins, SelectStates
<1> HIDE DEF m, st
<1>4. \A how : \A i \in Judged(items, verdict, offset, how) : i \in Nat /\ i > m
  BY <1>1 DEF Judged
<1>5. {g \in Judged(items, verdict, offset, {"grab"}) : g < m + 1} = {}
  BY <1>1, <1>4
<1>6. \A i \in C : i \in Nat /\ i > m
  BY <1>4 DEF Chosen
<1>7. (1..m) \ C = 1..m /\ C \cap (1..m) = {}
  <2> HIDE DEF C
  <2> QED
    BY <1>1, <1>6
<1>8. Reached(items, verdict, count, offset, m + 1)
  <2>1. Cardinality({}) = 0
    BY FS_EmptySet
  <2>2. 0 < count
    OBVIOUS
  <2>3. \A s \in Judged(items, verdict, offset, {"stop", "stop_and_requeue"}) : s >= m + 1
    BY <1>1, <1>4
  <2> QED
    BY <1>5, <2>1, <2>2, <2>3, Zenon DEF Reached
<1>9. /\ st.kept = Pick(items, (1..m) \ C)
      /\ st.chosen = Pick(items, C \cap (1..m))
  BY <1>1, <1>2, <1>7, PickPrefix
<1>10. Len(st.chosen) = Cardinality({g \in Judged(items, verdict, offset, {"grab"}) : g < m + 1})
  BY <1>2, <1>5, FS_EmptySet, EmptySeq
<1>11. ~ \E s \in Judged(items, verdict, offset, {"stop_and_requeue"}) : s <= m
  BY <1>1, <1>4
<1> QED
  BY <1>2, <1>3, <1>8, <1>9, <1>10, <1>11, Zenon DEF SelectedUpTo, m, st

LEMMA SelectedStep ==
  ASSUME NEW items \in Seq(Items), NEW verdict, NEW count \in Nat \ {0}, NEW offset \in Nat,
         NEW m \in Nat, m + 1 \in 1..Len(items), m >= offset, NEW st,
         SelectedUpTo(st, m, items, verdict, count, offset)
  PROVE  SelectedUpTo(SelectItem(st, items[m + 1], verdict, count), m + 1,
                      items, verdict, count, offset)
<1> DEFINE x == items[m + 1]
           next == SelectItem(st, x, verdict, count)
           C == Chosen(items, verdict, count, offset)
           grabs == Judged(items, verdict, offset, {"grab"})
           stops == Judged(items, verdict, offset, {"stop", "stop_and_requeue"})
           requeues == Judged(items, verdict, offset, {"stop_and_requeue"})
           reach(i) == Reached(items, verdict, count, offset, i)
           before(i) == {g \in grabs : g < i}
           judged == IF st.over THEN "skip" ELSE verdict[x]
<1>1. /\ st \in SelectStates
      /\ st.kept = Pick(items, (1..m) \ C) /\ st.chosen = Pick(items, C \cap (1..m))
      /\ st.over <=> ~reach(m + 1)
      /\ ~st.over => Len(st.chosen) = Cardinality(before(m + 1))
      /\ st.requeue <=> \E s \in requeues : s <= m /\ reach(s)
  BY Zenon DEF SelectedUpTo
<1>2. Len(items) \in Nat /\ DOMAIN items = 1..Len(items) /\ x \in Items /\ m + 1 > offset
  BY LenProperties
<1>3. /\ m + 1 \in grabs <=> verdict[x] = "grab"
      /\ m + 1 \in stops <=> verdict[x] \in {"stop", "stop_and_requeue"}
      /\ m + 1 \in requeues <=> verdict[x] = "stop_and_requeue"
  BY <1>2 DEF Judged
<1>4. grabs \subseteq 1..Len(items) /\ stops \subseteq 1..Len(items) /\ requeues \subseteq stops
  BY <1>2 DEF Judged
<1>5. \A i : reach(i) <=> (\A s \in stops : s >= i) /\ Cardinality(before(i)) < count
  BY DEF Reached
<1>6. C = {i \in grabs : reach(i)}
  BY DEF Chosen
<1>7. /\ st.kept \in Seq(Items) /\ st.chosen \in Seq(Items)
      /\ st.over \in BOOLEAN /\ st.requeue \in BOOLEAN
  BY <1>1 DEF SelectStates
<1>8. /\ next \in SelectStates
      /\ judged = "grab" => /\ next.kept = st.kept /\ next.chosen = Append(st.chosen, x)
                            /\ next.over = (Len(st.chosen) + 1 >= count)
                            /\ next.requeue = st.requeue
      /\ judged # "grab" => /\ next.kept = Append(st.kept, x) /\ next.chosen = st.chosen
                            /\ next.over = (st.over \/ judged \in {"stop", "stop_and_requeue"})
                            /\ next.requeue = (st.requeue \/ judged = "stop_and_requeue")
  <2>1. count \in Nat
    OBVIOUS
  <2> QED
    BY <1>1, <1>2, <2>1, SelectItemCases
<1>9. \A i \in Nat : IsFiniteSet(before(i)) /\ Cardinality(before(i)) \in Nat
  <2>1. \A i \in Nat : before(i) \in SUBSET grabs
    OBVIOUS
  <2>2. grabs \in SUBSET (1..Len(items)) /\ Len(items) \in Nat
    BY <1>2, <1>4
  <2> HIDE DEF before, grabs
  <2> QED
    BY <2>1, <2>2, UpTo
<1>10. before(m + 2) = IF verdict[x] = "grab" THEN before(m + 1) \cup {m + 1} ELSE before(m + 1)
  BY <1>3, <1>4
<1>11. m + 1 \notin before(m + 1)
  OBVIOUS
<1>12. Cardinality(before(m + 2)) = IF verdict[x] = "grab" THEN Cardinality(before(m + 1)) + 1
                                                           ELSE Cardinality(before(m + 1))
  <2>1. IsFiniteSet(before(m + 1))
    <3>1. m + 1 \in Nat
      OBVIOUS
    <3> HIDE DEF before
    <3> QED
      BY <1>9, <3>1
  <2> HIDE DEF before
  <2> QED
    BY <1>10, <1>11, <2>1, FS_AddElement
<1>13. (\A s \in stops : s >= m + 2) <=> (\A s \in stops : s >= m + 1) /\ m + 1 \notin stops
  BY <1>4
<1> HIDE DEF next, C, grabs, stops, requeues, reach, before
<1>14. Cardinality(before(m + 1)) \in Nat /\ Cardinality(before(m + 2)) \in Nat
  <2>1. m + 1 \in Nat /\ m + 2 \in Nat
    OBVIOUS
  <2> QED
    BY <1>9, <2>1
<1>15. m + 1 \in C <=> judged = "grab"
  BY <1>1, <1>3, <1>6, <1>7
<1>16. next.over <=> ~reach(m + 2)
  <2>1. CASE st.over
    <3>1. ~reach(m + 1) /\ next.over = TRUE
      BY <1>1, <1>8, <2>1
    <3> QED
      BY <1>5, <1>12, <1>13, <1>14, <3>1
  <2>2. CASE ~st.over /\ verdict[x] = "grab"
    <3>1. reach(m + 1) /\ next.over = (Len(st.chosen) + 1 >= count) /\ Len(st.chosen) = Cardinality(before(m + 1))
      BY <1>1, <1>8, <2>2
    <3>2. m + 1 \notin stops
      BY <1>3, <2>2
    <3>3. reach(m + 2) <=> Cardinality(before(m + 1)) + 1 < count
      <4>1. (\A s \in stops : s >= m + 2)
        BY <1>5, <1>13, <3>1, <3>2
      <4>2. Cardinality(before(m + 2)) = Cardinality(before(m + 1)) + 1
        BY <1>12, <2>2
      <4> QED
        BY <1>5, <4>1, <4>2
    <3>4. (Cardinality(before(m + 1)) + 1 >= count) <=> ~(Cardinality(before(m + 1)) + 1 < count)
      BY <1>14
    <3> QED
      BY <3>1, <3>3, <3>4
  <2>3. CASE ~st.over /\ verdict[x] # "grab"
    <3>1. reach(m + 1) /\ next.over = (verdict[x] \in {"stop", "stop_and_requeue"})
      BY <1>1, <1>8, <2>3
    <3> QED
      BY <1>3, <1>5, <1>12, <1>13, <1>14, <2>3, <3>1
  <2> QED
    BY <2>1, <2>2, <2>3
<1>17. ~next.over => Len(next.chosen) = Cardinality(before(m + 2))
  <2>1. Len(Append(st.chosen, x)) = Len(st.chosen) + 1
    BY <1>2, <1>7, AppendProperties
  <2>2. CASE st.over
    BY <1>8, <2>2
  <2>3. CASE ~st.over /\ verdict[x] = "grab"
    BY <1>1, <1>8, <1>12, <2>1, <2>3
  <2>4. CASE ~st.over /\ verdict[x] # "grab"
    BY <1>1, <1>8, <1>12, <2>4
  <2> QED
    BY <2>2, <2>3, <2>4
<1>18. next.requeue <=> \E s \in requeues : s <= m + 1 /\ reach(s)
  <2>1. \A s \in requeues : s <= m + 1 <=> s <= m \/ s = m + 1
    BY <1>4
  <2>2. (\E s \in requeues : s <= m + 1 /\ reach(s)) <=> st.requeue \/ (m + 1 \in requeues /\ reach(m + 1))
    BY <1>1, <2>1, m + 1 <= m + 1
  <2>3. next.requeue <=> st.requeue \/ judged = "stop_and_requeue"
    BY <1>7, <1>8
  <2> QED
    BY <1>1, <1>3, <2>2, <2>3
<1>19. next.kept = Pick(items, (1..(m + 1)) \ C) /\ next.chosen = Pick(items, C \cap (1..(m + 1)))
  <2> DEFINE A == (1..m) \ C
             B == C \cap (1..m)
  <2>1. A \in SUBSET (1..m) /\ B \in SUBSET (1..m) /\ 1..(m + 1) = (1..m) \cup {m + 1}
    OBVIOUS
  <2>2. CASE m + 1 \in C
    <3>1. (1..(m + 1)) \ C = A /\ C \cap (1..(m + 1)) = B \cup {m + 1}
      BY <2>1, <2>2
    <3>2. Pick(items, B \cup {m + 1}) = Append(Pick(items, B), x)
      BY <1>1, <1>7, <2>1, PickGrows
    <3> QED
      BY <1>1, <1>8, <1>15, <2>2, <3>1, <3>2
  <2>3. CASE m + 1 \notin C
    <3>1. (1..(m + 1)) \ C = A \cup {m + 1} /\ C \cap (1..(m + 1)) = B
      BY <2>1, <2>3
    <3>2. Pick(items, A \cup {m + 1}) = Append(Pick(items, A), x)
      BY <1>1, <1>7, <2>1, PickGrows
    <3> QED
      BY <1>1, <1>8, <1>15, <2>3, <3>1, <3>2
  <2> QED
    BY <2>2, <2>3
<1>20. m + 2 = (m + 1) + 1
  OBVIOUS
<1> QED
  BY <1>8, <1>16, <1>17, <1>18, <1>19, <1>20
  DEF SelectedUpTo, next, C, grabs, requeues, reach, before

\* The loop selects what SelectionMeans says, whatever the items and the verdicts.
LEMMA SelectionMeansLoop ==
  ASSUME NEW items \in Seq(Items), NEW verdict, NEW count \in Nat \ {0}, NEW offset \in Nat
  PROVE  Selection(items, verdict, count, offset) = SelectionMeans(items, verdict, count, offset)
<1> DEFINE skipped == actualCount(items, offset)
           n == Len(items) - skipped
           loop == SelectLoop(items, verdict, count, offset)
           Right(k) == SelectedUpTo(loop[k], skipped + k, items, verdict, count, offset)
           S == {k \in Nat : k <= n => Right(k)}
           C == Chosen(items, verdict, count, offset)
           requeues == Judged(items, verdict, offset, {"stop_and_requeue"})
           reach(i) == Reached(items, verdict, count, offset, i)
<1>1. /\ loop[0] = SelectBegins(items, offset)
      /\ \A k \in 1..n : loop[k] = SelectItem(loop[k - 1], items[skipped + k], verdict, count)
      /\ skipped \in 0..Len(items)
  BY LoopUnfolds
<1>2. /\ Len(items) \in Nat /\ skipped \in Nat /\ n \in Nat /\ skipped + n = Len(items)
      /\ skipped < Len(items) => skipped = offset
  BY <1>1, LenProperties DEF actualCount
<1>3. SelectedUpTo(SelectBegins(items, offset), skipped, items, verdict, count, offset)
  BY SelectedInitially
<1> HIDE DEF loop, skipped, n
<1>4. 0 \in S
  <2>1. skipped + 0 = skipped
    BY <1>2
  <2> QED
    BY <1>1, <1>3, <2>1
<1>5. ASSUME NEW k \in S PROVE k + 1 \in S
  <2> SUFFICES ASSUME k + 1 <= n PROVE Right(k + 1)
    OBVIOUS
  <2>1. k \in Nat /\ k <= n /\ k + 1 \in 1..n /\ (k + 1) - 1 = k
    BY <1>2
  <2>2. Right(k)
    BY <2>1
  <2> DEFINE m == skipped + k
  <2>3. /\ m \in Nat /\ m + 1 = skipped + (k + 1) /\ m + 1 \in 1..Len(items) /\ m >= offset
    BY <1>2, <2>1
  <2>4. loop[k + 1] = SelectItem(loop[k], items[m + 1], verdict, count)
    BY <1>1, <2>1, <2>3
  <2>5. SelectedUpTo(loop[k], m, items, verdict, count, offset)
    BY <2>2
  <2> HIDE DEF m
  <2>6. SelectedUpTo(SelectItem(loop[k], items[m + 1], verdict, count), m + 1, items, verdict, count, offset)
    BY <2>3, <2>5, SelectedStep
  <2> QED
    BY <2>3, <2>4, <2>6
<1>6. S = Nat
  <2> HIDE DEF S
  <2>1. S \in SUBSET Nat
    BY DEF S
  <2> QED
    BY <1>4, <1>5, <2>1, SetInduction, Zenon
<1> DEFINE end == loop[n]
<1>7. SelectedUpTo(end, Len(items), items, verdict, count, offset)
  <2>1. n \in S /\ n <= n
    BY <1>2, <1>6
  <2> QED
    BY <1>2, <2>1
<1>8. C \subseteq 1..Len(items) /\ requeues \subseteq 1..Len(items) /\ DOMAIN items = 1..Len(items)
  BY LenProperties DEF Chosen, Judged
<1>9. /\ end.kept = Pick(items, (1..Len(items)) \ C) /\ end.chosen = Pick(items, C \cap (1..Len(items)))
      /\ end.requeue <=> \E s \in requeues : s <= Len(items) /\ reach(s)
  BY <1>7, Zenon DEF SelectedUpTo
<1> HIDE DEF C, requeues, reach, end
<1>10. (\E s \in requeues : s <= Len(items) /\ reach(s)) <=> \E s \in requeues : reach(s)
  BY <1>2, <1>8
<1>11. C \cap (1..Len(items)) = C
  BY <1>8
<1>12. /\ end.kept = Pick(items, DOMAIN items \ C) /\ end.chosen = Pick(items, C)
       /\ end.requeue <=> \E s \in requeues : reach(s)
  BY <1>8, <1>9, <1>10, <1>11
<1>13. Selection(items, verdict, count, offset)
         = IF end.requeue THEN [items |-> end.kept \o end.chosen, result |-> <<>>]
                          ELSE [items |-> end.kept, result |-> end.chosen]
  BY DEF Selection, end, loop, n, skipped
<1>14. SelectionMeans(items, verdict, count, offset)
         = IF \E s \in requeues : reach(s)
           THEN [items |-> Pick(items, DOMAIN items \ C) \o Pick(items, C), result |-> <<>>]
           ELSE [items |-> Pick(items, DOMAIN items \ C), result |-> Pick(items, C)]
  BY Zenon DEF SelectionMeans, C, requeues, reach
<1> QED
  BY <1>12, <1>13, <1>14

-----------------------------------------------------------------------------
\* The container holds a sequence of items, and what was taken, cleared or not yet
\* inserted are items.
THEOREM ContainerTypeCorrect == ContainerSpec => []ContainerTypeOK
<1>1. ContainerInit => ContainerTypeOK
  BY EmptySeq DEF ContainerInit, ContainerTypeOK
<1>2. ContainerTypeOK /\ [ContainerNext]_containerVars => ContainerTypeOK'
  BY ContainerTypeStep
<1> QED
  BY <1>1, <1>2, PTL DEF ContainerSpec

\* No item is lost, duplicated or handed out twice, by whatever inserts, grabs by
\* count, by predicate or with a timeout, and clears.
THEOREM EveryItemOnce == ContainerSpec => []ExactlyOnce
<1>1. ContainerInit => ExactlyOnce
  <2> SUFFICES ASSUME ContainerInit PROVE ExactlyOnce
    OBVIOUS
  <2>1. ContainerTypeOK
    BY EmptySeq DEF ContainerInit, ContainerTypeOK
  <2> QED
    BY <2>1, EmptyOnce, OnceByParts DEF ContainerInit
<1>2. ContainerTypeOK /\ ContainerTypeOK' /\ ExactlyOnce /\ [ContainerNext]_containerVars => ExactlyOnce'
  BY ExactlyOnceStep
<1> QED
  BY <1>1, <1>2, ContainerTypeCorrect, PTL DEF ContainerSpec

\* A consumer sleeps beside items only if as many wake-ups are under way, but for the
\* surplus of the batches, which notify once.
THEOREM ItemsMeetConsumers == ContainerSpec => []NoSleeperBesideItems
<1>1. ContainerInit => NoSleeperBesideItems
  <2> SUFFICES ASSUME ContainerInit PROVE ~ \E c \in Consumers : cpc[c] = "asleep"
    BY DEF NoSleeperBesideItems
  <2> QED
    BY DEF ContainerInit
<1>2. ContainerTypeOK /\ ContainerTypeOK' /\ NoSleeperBesideItems /\ [ContainerNext]_containerVars
        => NoSleeperBesideItems'
  BY NoSleeperStep
<1> QED
  BY <1>1, <1>2, ContainerTypeCorrect, PTL DEF ContainerSpec

\* The loop of the selective grab selects what its verdicts mean, for every content.
THEOREM SelectiveGrabIsRight == ContainerSpec => []SelectionIsRight
<1>1. ContainerTypeOK => SelectionIsRight
  <2> SUFFICES ASSUME ContainerTypeOK,
                      NEW verdict \in [ToSet(m_items) -> Verdicts], NEW count \in Counts, NEW offset \in Offsets
               PROVE  Selection(m_items, verdict, count, offset)
                        = SelectionMeans(m_items, verdict, count, offset)
    BY Zenon DEF SelectionIsRight
  <2>1. m_items \in Seq(Items) /\ count \in Nat \ {0} /\ offset \in Nat
    BY ContainerAssumption DEF ContainerTypeOK
  <2> QED
    BY <2>1, SelectionMeansLoop
<1> QED
  BY <1>1, ContainerTypeCorrect, PTL
=============================================================================
