-------------------------- MODULE SimpleContainer --------------------------
(***************************************************************************)
(* simple_container_V2 (simple_container_V2.h): a sequence behind a mutex, *)
(* with a condition variable for consumers that wait for items.  One step  *)
(* is one critical section of m_itemsMutex or one notification; insert     *)
(* notifies after it has released the mutex.                               *)
(***************************************************************************)
EXTENDS Naturals, Sequences, SequencesExt, FiniteSets

CONSTANTS Producers, Consumers,
          Items,       \* the values; every one is inserted at most once
          MaxBatch,    \* the longest batch that a producer inserts
          Counts,      \* the counts consumers ask for
          Offsets      \* the offsets of selective grabs

ASSUME ContainerAssumption ==
    /\ IsFiniteSet(Producers) /\ IsFiniteSet(Consumers)
    /\ MaxBatch \in Nat \ {0}
    /\ Counts \subseteq Nat \ {0}
    /\ Offsets \subseteq Nat

VARIABLES m_items,
          inserting,  \* the producers that have inserted and not yet notified
          surplus,    \* the items that no notification speaks for
          cpc,        \* where a consumer is in the timed grab
          wanted,     \* the count it asked for
          fresh,      \* the items not inserted yet
          taken,      \* the items handed to consumers, in the order of the grabs
          cleared,    \* the items dropped by clear()
          destroyed,  \* the items destroyed by the exception of the call that held them
          hollow      \* the items whose value was moved out and destroyed, and whose
                      \* moved-from shell stands in for them

containerVars ==
    <<m_items, inserting, surplus, cpc, wanted, fresh, taken, cleared, destroyed, hollow>>

\* enm_Select
Verdicts == {"skip", "grab", "stop", "stop_and_requeue"}

Batches == UNION {[1..n -> fresh] : n \in 1..MaxBatch}

ContainerTypeOK ==
    /\ m_items \in Seq(Items)
    /\ inserting \subseteq Producers
    /\ surplus \in Nat
    /\ cpc \in [Consumers -> {"idle", "check", "asleep"}]
    /\ wanted \in [Consumers -> Counts]
    /\ fresh \subseteq Items
    /\ taken \in Seq(Items)
    /\ cleared \subseteq Items
    /\ destroyed \subseteq Items /\ hollow \subseteq Items

ContainerInit ==
    /\ m_items = <<>>
    /\ inserting = {}
    /\ surplus = 0
    /\ cpc = [c \in Consumers |-> "idle"]
    /\ wanted \in [Consumers -> Counts]
    /\ fresh = Items
    /\ taken = <<>>
    /\ cleared = {}
    /\ destroyed = {} /\ hollow = {}

-----------------------------------------------------------------------------
(* The sequence operations, under the mutex.                               *)

\* insertItemUnlocked, insertManyUnlocked
Inserted(batch, insert_back) ==
    IF insert_back THEN m_items \o batch ELSE batch \o m_items

\* A count or an offset, as far as there are items.
actualCount(items, count) == IF count < Len(items) THEN count ELSE Len(items)

\* grabItemsUnlocked
FirstItems(items, count) == SubSeq(items, 1, actualCount(items, count))
OtherItems(items, count) == SubSeq(items, actualCount(items, count) + 1, Len(items))

\* Mutant: the limit is tested before the item is added, one item too late.
SelectItemOneTooMany(st, x, verdict, count) ==
    IF st.over THEN [st EXCEPT !.kept = Append(@, x)]
    ELSE CASE verdict[x] = "grab" -> [st EXCEPT !.chosen = Append(@, x),
                                                !.over = Len(st.chosen) >= count]
           [] verdict[x] = "stop" -> [st EXCEPT !.kept = Append(@, x), !.over = TRUE]
           [] verdict[x] = "stop_and_requeue" ->
                [st EXCEPT !.kept = Append(@, x), !.over = TRUE, !.requeue = TRUE]
           [] OTHER -> [st EXCEPT !.kept = Append(@, x)]

\* One iteration of the loop of grab(count, fn, offset), on item x.
SelectItem(st, x, verdict, count) ==
    IF st.over THEN [st EXCEPT !.kept = Append(@, x)]
    ELSE CASE verdict[x] = "grab" -> [st EXCEPT !.chosen = Append(@, x),
                                                !.over = Len(st.chosen) + 1 >= count]
           [] verdict[x] = "stop" -> [st EXCEPT !.kept = Append(@, x), !.over = TRUE]
           [] verdict[x] = "stop_and_requeue" ->
                [st EXCEPT !.kept = Append(@, x), !.over = TRUE, !.requeue = TRUE]
           [] OTHER -> [st EXCEPT !.kept = Append(@, x)]

\* The loop has not judged an item yet; the first ones are skipped for the offset.
SelectBegins(items, offset) ==
    [kept |-> SubSeq(items, 1, actualCount(items, offset)), chosen |-> <<>>,
     over |-> FALSE, requeue |-> FALSE]

\* Where the loop is when it has gone over k items.
SelectLoop(items, verdict, count, offset) ==
    LET skipped == actualCount(items, offset)
        loop[k \in 0..(Len(items) - skipped)] ==
            IF k = 0 THEN SelectBegins(items, offset)
            ELSE SelectItem(loop[k - 1], items[skipped + k], verdict, count)
    IN loop

\* Mutant: the items go back, and are returned as well.
SelectionReturnsBoth(items, verdict, count, offset) ==
    LET end == SelectLoop(items, verdict, count, offset)[Len(items) - actualCount(items, offset)]
    IN [items |-> IF end.requeue THEN end.kept \o end.chosen ELSE end.kept,
        result |-> end.chosen]

\* grab(count, fn, offset): what remains in the container, and the result.
\* Requeued items go to the back.
Selection(items, verdict, count, offset) ==
    LET end == SelectLoop(items, verdict, count, offset)[Len(items) - actualCount(items, offset)]
    IN IF end.requeue
       THEN [items |-> end.kept \o end.chosen, result |-> <<>>]
       ELSE [items |-> end.kept, result |-> end.chosen]

\* grab(count, fn, offset) when fn throws on the item behind the first k, or when
\* the memory for its move or for the requeue cannot be had: returnContainer is
\* destroyed with the items chosen so far, the others stay.
SelectionThrows(items, verdict, count, offset, k) ==
    LET st == SelectLoop(items, verdict, count, offset)[k]
    IN [items |-> st.kept \o SubSeq(items, actualCount(items, offset) + k + 1, Len(items)),
        lost |-> st.chosen]

\* No more items lie without a notification than there are items.
Capped(n, items) == IF n < Len(items) THEN n ELSE Len(items)

-----------------------------------------------------------------------------
(* Producers.                                                              *)

\* insert of one item, or of a batch by copy or by move.  An empty batch returns
\* at once and is no step.
Insert(p, batch, insert_back) ==
    /\ p \notin inserting
    /\ IsInjective(batch)
    /\ m_items' = Inserted(batch, insert_back)
    /\ inserting' = inserting \cup {p}
    /\ surplus' = surplus + Len(batch) - 1
    /\ fresh' = fresh \ ToSet(batch)
    /\ UNCHANGED <<cpc, wanted, taken, cleared, destroyed, hollow>>

\* insert finds no memory: the container is as it was, and what was moved into the
\* call is destroyed with it (a caller that copies still has its items: no step).
InsertThrows(p, batch) ==
    /\ p \notin inserting
    /\ destroyed' = destroyed \cup ToSet(batch)
    /\ fresh' = fresh \ ToSet(batch)
    /\ UNCHANGED <<m_items, inserting, surplus, cpc, wanted, taken, cleared, hollow>>

\* m_cv.notify_one(): one of the sleepers, if there is one, looks again.
notify_one ==
    LET sleepers == {c \in Consumers : cpc[c] = "asleep"}
    IN IF sleepers = {} THEN UNCHANGED cpc
       ELSE \E c \in sleepers : cpc' = [cpc EXCEPT ![c] = "check"]

\* Mutant: the notification of insert is forgotten.
InsertReturns(p) ==
    /\ p \in inserting
    /\ inserting' = inserting \ {p}
    /\ UNCHANGED <<m_items, surplus, cpc, wanted, fresh, taken, cleared, destroyed, hollow>>

InsertNotifies(p) ==
    /\ p \in inserting
    /\ notify_one
    /\ inserting' = inserting \ {p}
    /\ UNCHANGED <<m_items, surplus, wanted, fresh, taken, cleared, destroyed, hollow>>

\* The public notify_one() and notify_all().
NotifyOne ==
    /\ notify_one
    /\ UNCHANGED <<m_items, inserting, surplus, wanted, fresh, taken, cleared, destroyed, hollow>>

NotifyAll ==
    /\ cpc' = [c \in Consumers |-> IF cpc[c] = "asleep" THEN "check" ELSE cpc[c]]
    /\ UNCHANGED <<m_items, inserting, surplus, wanted, fresh, taken, cleared, destroyed, hollow>>

ClearItems ==
    /\ cleared' = cleared \cup ToSet(m_items)
    /\ m_items' = <<>>
    /\ surplus' = 0
    /\ UNCHANGED <<inserting, cpc, wanted, fresh, taken, destroyed, hollow>>

-----------------------------------------------------------------------------
(* Consumers.                                                              *)

Take(items, result) ==
    /\ m_items' = items
    /\ surplus' = Capped(surplus, items)
    /\ taken' = taken \o result
    /\ UNCHANGED <<inserting, fresh, cleared, destroyed, hollow>>

\* grab(count)
Grab(c, count) ==
    /\ cpc[c] = "idle"
    /\ Take(OtherItems(m_items, count), FirstItems(m_items, count))
    /\ UNCHANGED <<cpc, wanted>>

\* grab(count, fn, offset) and the overloads that call it
GrabSelected(c, verdict, count, offset) ==
    /\ cpc[c] = "idle"
    /\ LET s == Selection(m_items, verdict, count, offset) IN Take(s.items, s.result)
    /\ UNCHANGED <<cpc, wanted>>

\* ... and when it ends in an exception.
GrabSelectedThrows(c, verdict, count, offset, k) ==
    /\ cpc[c] = "idle"
    /\ k < Len(m_items) - actualCount(m_items, offset)
    /\ ~SelectLoop(m_items, verdict, count, offset)[k].over
    /\ LET s == SelectionThrows(m_items, verdict, count, offset, k)
       IN /\ m_items' = s.items
          /\ destroyed' = destroyed \cup ToSet(s.lost)
          /\ surplus' = Capped(surplus, s.items)
    /\ UNCHANGED <<inserting, cpc, wanted, fresh, taken, cleared, hollow>>

\* grab(count, timeout) is called ...
GrabTimed(c, count) ==
    /\ cpc[c] = "idle"
    /\ cpc' = [cpc EXCEPT ![c] = "check"]
    /\ wanted' = [wanted EXCEPT ![c] = count]
    /\ UNCHANGED <<m_items, inserting, surplus, fresh, taken, cleared, destroyed, hollow>>

\* ... takes what is there, or sleeps ...
GrabOrSleep(c) ==
    /\ cpc[c] = "check"
    /\ cpc' = [cpc EXCEPT ![c] = IF m_items = <<>> THEN "asleep" ELSE "idle"]
    /\ Take(OtherItems(m_items, wanted[c]), FirstItems(m_items, wanted[c]))
    /\ UNCHANGED wanted

\* ... and looks a last time when the timeout has passed.
GrabTimesOut(c) ==
    /\ cpc[c] = "asleep"
    /\ cpc' = [cpc EXCEPT ![c] = "idle"]
    /\ Take(OtherItems(m_items, wanted[c]), FirstItems(m_items, wanted[c]))
    /\ UNCHANGED wanted

\* grab(count), with or without a timeout, finds no memory when it has moved k
\* items: they are destroyed, and their shells stay in m_items.  A consumer that
\* was about to look leaves items behind that its wake-up spoke for.
GrabThrows(c, count, k) ==
    /\ cpc[c] # "idle" => count = wanted[c]
    /\ k < actualCount(m_items, count)
    /\ hollow' = hollow \cup ToSet(SubSeq(m_items, 1, k))
    /\ cpc' = [cpc EXCEPT ![c] = "idle"]
    /\ surplus' = IF cpc[c] = "check" THEN Capped(surplus + 1, m_items) ELSE surplus
    /\ UNCHANGED <<m_items, inserting, wanted, fresh, taken, cleared, destroyed>>

ContainerNext ==
    \/ \E p \in Producers, batch \in Batches, back \in BOOLEAN : Insert(p, batch, back)
    \/ \E p \in Producers, batch \in Batches : InsertThrows(p, batch)
    \/ \E p \in Producers : InsertNotifies(p)
    \/ NotifyOne \/ NotifyAll \/ ClearItems
    \/ \E c \in Consumers, count \in Counts : Grab(c, count) \/ GrabTimed(c, count)
    \/ \E c \in Consumers, verdict \in [ToSet(m_items) -> Verdicts],
          count \in Counts, offset \in Offsets :
          \/ GrabSelected(c, verdict, count, offset)
          \/ \E k \in 0..Len(m_items) : GrabSelectedThrows(c, verdict, count, offset, k)
    \/ \E c \in Consumers, count \in Counts, k \in 0..Len(m_items) : GrabThrows(c, count, k)
    \/ \E c \in Consumers : GrabOrSleep(c) \/ GrabTimesOut(c)

ContainerSpec == ContainerInit /\ [][ContainerNext]_containerVars

-----------------------------------------------------------------------------
\* Every item is in exactly one place, once: still with its producer, in the
\* container, handed to one consumer, cleared, or destroyed by an exception of the
\* call that was moving it.  A selective grab that requeues gives its items back
\* without keeping them; one whose predicate throws keeps no item twice, and
\* destroys those it had chosen.  The places say nothing of an item's value: a grab
\* that runs out of memory leaves shells in the container (hollow), and only items
\* that were inserted can be such.
ExactlyOnce ==
    /\ IsInjective(m_items \o taken)
    /\ ToSet(m_items \o taken) \cup cleared \cup destroyed \cup fresh = Items
    /\ ToSet(m_items \o taken) \cap (cleared \cup destroyed \cup fresh) = {}
    /\ cleared \cap (destroyed \cup fresh) = {}
    /\ fresh \cap (destroyed \cup hollow) = {}

\* A consumer sleeps in a timed grab beside items only if the wake-ups under
\* way (producers about to notify, consumers about to look) are as many as the
\* items, so that each item meets a consumer before a timeout.  The only items that
\* no wake-up speaks for are those of a batch beyond its first (a batch notifies
\* once), and those a woken consumer leaves behind when its grab runs out of memory.
NoSleeperBesideItems ==
    (\E c \in Consumers : cpc[c] = "asleep") =>
        Len(m_items) <= Cardinality(inserting)
                        + Cardinality({c \in Consumers : cpc[c] = "check"})
                        + surplus

\* What a selective grab means, without the loop: position i is grabbed if it
\* lies in the window behind the offset, was judged "grab", comes before every
\* stop, and fewer than count positions before it were grabbed.
Judged(items, verdict, offset, how) ==
    {i \in DOMAIN items : i > offset /\ verdict[items[i]] \in how}

Reached(items, verdict, count, offset, i) ==
    /\ \A s \in Judged(items, verdict, offset, {"stop", "stop_and_requeue"}) : s >= i
    /\ Cardinality({g \in Judged(items, verdict, offset, {"grab"}) : g < i}) < count

Chosen(items, verdict, count, offset) ==
    {i \in Judged(items, verdict, offset, {"grab"}) : Reached(items, verdict, count, offset, i)}

\* The items at the positions S, in their order.
Pick(items, S) ==
    [k \in 1..Cardinality(S) |-> items[CHOOSE i \in S : Cardinality({j \in S : j <= i}) = k]]

SelectionMeans(items, verdict, count, offset) ==
    LET chosen == Chosen(items, verdict, count, offset)
        kept == Pick(items, DOMAIN items \ chosen)
    IN IF \E s \in Judged(items, verdict, offset, {"stop_and_requeue"}) :
             Reached(items, verdict, count, offset, s)
       THEN [items |-> kept \o Pick(items, chosen), result |-> <<>>]
       ELSE [items |-> kept, result |-> Pick(items, chosen)]

\* The loop of grab(count, fn, offset) selects what it means to select, for
\* every content of the container, every judgement, count and offset: also at
\* the count limit and for offsets beyond the end.
SelectionIsRight ==
    \A verdict \in [ToSet(m_items) -> Verdicts], count \in Counts, offset \in Offsets :
        Selection(m_items, verdict, count, offset)
            = SelectionMeans(m_items, verdict, count, offset)
=============================================================================
