----------------------------- MODULE Porcupine ------------------------------
(***************************************************************************)
(* The linearizability checker of src/src/porcupine, as the tests of       *)
(* kvsrv, kvraft and shardkv use it: CheckOperations, its variants with a  *)
(* timeout and with partial linearizations, over the model of KvModel.     *)
(*                                                                         *)
(* The history is split by key.  One goroutine per key searches for a      *)
(* linearization (checkSingle); checkParallel collects the results, with   *)
(* a timeout and a flag that stops the searches.  One round of the search  *)
(* loop is one step.                                                       *)
(*                                                                         *)
(* A search works on a doubly linked list of the calls and returns.  Node  *)
(* n of a list is entry n in the order of time; node 0 is headEntry.  A    *)
(* bitset is the set of its members, and the cache, which compares bitset  *)
(* and state behind the hash, is the set of its entries.                   *)
(***************************************************************************)
EXTENDS KvModel, Integers, FiniteSets

CONSTANTS
    Keys,
    Histories    \* the histories checked: non-empty sequences of operations
                 \* with Key, OpType, Value, Out, the times Call and Return, and
                 \* AnswersOld, for an Append that returns the old value

\* A clerk's call takes some time, on the one clock of the test.
ASSUME HistoriesAssumption ==
    \A h \in Histories :
        /\ Len(h) \in Nat /\ DOMAIN h = 1 .. Len(h)
        /\ \A i \in DOMAIN h : /\ h[i].Key \in Keys
                              /\ h[i].Call \in Int /\ h[i].Return \in Int
                              /\ h[i].Call <= h[i].Return

Nil == -1

VARIABLES
    history,                   \* the operations; an id is a position in it
    computeInfo, mayTimeOut,   \* which of the CheckOperations functions was called
    entries,                   \* the entries of each key, in order
    next, prev,                \* the links of its list
    entry, state, linearized, calls, cache, longest,   \* of checkSingle
    pc, result,                \* of the goroutine of a key
    kill, ok, timedOut, results, count, at, verdict    \* of checkParallel

input == <<history, computeInfo, mayTimeOut, entries>>
search == <<next, prev, entry, state, linearized, calls, cache, longest>>
parallel == <<kill, ok, timedOut, results, count, at, verdict>>
vars == <<input, search, pc, result, parallel>>

-----------------------------------------------------------------------------
(***************************************************************************)
(* From the history to the lists.                                          *)
(***************************************************************************)

\* KvModel.Partition: the keys that occur, and the operations on one.
Partitions == {history[i].Key : i \in DOMAIN history}
OpsOn(k) == {i \in DOMAIN history : history[i].Key = k}

Entries(k) == [kind : {"call", "return"}, id : OpsOn(k)]

Time(h, e) == IF e.kind = "call" THEN h[e.id].Call ELSE h[e.id].Return

\* byTime.Less
Less(h, a, b) ==
    \/ Time(h, a) < Time(h, b)
    \/ Time(h, a) = Time(h, b) /\ a.kind = "call" /\ b.kind = "return"

\* makeEntries() sorts the entries.  Among equals sort.Sort keeps no order;
\* here it is that of rank, any numbering of the operations.
makeEntries(k, rank) ==
    LET before(a, b) == \/ Less(history, a, b)
                        \/ ~Less(history, b, a) /\ rank[a.id] < rank[b.id]
        place(e) == Cardinality({a \in Entries(k) : before(a, e)}) + 1
    IN  [n \in 1 .. Cardinality(Entries(k)) |-> CHOOSE e \in Entries(k) : place(e) = n]

\* The return node of call node n.
match(k, n) ==
    CHOOSE m \in DOMAIN entries[k] : /\ entries[k][m].kind = "return"
                                     /\ entries[k][m].id = entries[k][n].id

IsCall(k, n) == entries[k][n].kind = "call"
Id(k, n) == entries[k][n].id

Last(k) == Len(entries[k])

\* makeLinkedEntries(), and insertBefore() for headEntry.
LinkedEntries(s) == [n \in 0 .. Len(s) |-> IF n = Len(s) THEN Nil ELSE n + 1]
BackLinks(s) == [n \in 0 .. Len(s) |-> n - 1]

Numberings(h) == {f \in [DOMAIN h -> DOMAIN h] : \A i, j \in DOMAIN h : i # j => f[i] # f[j]}

Init ==
    /\ history \in Histories
    /\ computeInfo \in BOOLEAN /\ mayTimeOut \in BOOLEAN
    /\ \E rank \in Numberings(history) : entries = [k \in Partitions |-> makeEntries(k, rank)]
    /\ next = [k \in Partitions |-> LinkedEntries(entries[k])]
    /\ prev = [k \in Partitions |-> BackLinks(entries[k])]
    /\ entry = [k \in Partitions |-> 1]
    /\ state = [k \in Partitions |-> <<>>]
    /\ linearized = [k \in Partitions |-> {}]
    /\ calls = [k \in Partitions |-> <<>>]
    /\ cache = [k \in Partitions |-> {}]
    /\ longest = [k \in Partitions |-> [i \in OpsOn(k) |-> <<>>]]
    /\ pc = [k \in Partitions |-> "search"] /\ result = [k \in Partitions |-> FALSE]
    /\ kill = FALSE /\ ok = TRUE /\ timedOut = FALSE
    /\ results = {} /\ count = 0 /\ at = "loop" /\ verdict = "none"

-----------------------------------------------------------------------------
(***************************************************************************)
(* checkSingle                                                             *)
(***************************************************************************)

\* KvModel.Step on the value of one key: what it returns, and the new value.
Accepts(value, op) ==
    op.OpType = "Get" \/ (op.OpType = "Append" /\ op.AnswersOld) => op.Out = value
NewValue(value, op) == Step([k \in {op.Key} |-> value], op)[op.Key]

\* lift(): the links without node n and its match, as <<next, prev>>.
lift(nx, pv, n, m) ==
    LET nx1 == [nx EXCEPT ![pv[n]] = nx[n]]
        pv1 == [pv EXCEPT ![nx[n]] = pv[n]]
    IN  <<[nx1 EXCEPT ![pv1[m]] = nx1[m]],
          IF nx1[m] = Nil THEN pv1 ELSE [pv1 EXCEPT ![nx1[m]] = pv1[m]]>>

\* Mutant of unlift: only the call is put back.
unliftCallOnly(nx, pv, n, m) == <<[nx EXCEPT ![pv[n]] = n], [pv EXCEPT ![nx[n]] = n]>>

\* Mutant of unlift: the node behind the return keeps its old back link.
unliftOneWay(nx, pv, n, m) ==
    LET nx1 == [nx EXCEPT ![pv[m]] = m]
    IN  <<[nx1 EXCEPT ![pv[n]] = n], [pv EXCEPT ![nx1[n]] = n]>>

\* unlift(): the links with node n and its match back in place.
unlift(nx, pv, n, m) ==
    LET nx1 == [nx EXCEPT ![pv[m]] = m]
        pv1 == IF nx[m] = Nil THEN pv ELSE [pv EXCEPT ![nx[m]] = m]
    IN  <<[nx1 EXCEPT ![pv1[n]] = n], [pv1 EXCEPT ![nx1[n]] = n]>>

\* The goroutine of key k is in the loop, past its condition and the look at
\* the kill flag.
Searching(k) == pc[k] = "search" /\ next[k][0] # Nil /\ ~kill

Ids(k, stack) == [j \in DOMAIN stack |-> Id(k, stack[j].entry)]

\* Mutant of CacheEntry: the cache forgets the state.
CacheEntryNoState(set, value) == <<set, <<>>>>

CacheEntry(set, value) == <<set, value>>

\* What the search adds to the cache when it linearizes the call at entry.
NewCacheEntry(k) ==
    CacheEntry(linearized[k] \cup {Id(k, entry[k])}, NewValue(state[k], history[Id(k, entry[k])]))

cacheContains(k) == NewCacheEntry(k) \in cache[k]

\* The call at entry may come next, and leads to something new.
Linearizable1(k) ==
    /\ IsCall(k, entry[k])
    /\ Accepts(state[k], history[Id(k, entry[k])])
    /\ ~cacheContains(k)

\* It is linearized, and the search goes on from the head of the list.
Linearize(k) ==
    LET n == entry[k]
        links == lift(next[k], prev[k], n, match(k, n))
    IN  /\ Searching(k) /\ Linearizable1(k)
        /\ cache' = [cache EXCEPT ![k] = @ \cup {NewCacheEntry(k)}]
        /\ calls' = [calls EXCEPT ![k] = Append(@, [entry |-> n, state |-> state[k]])]
        /\ state' = [state EXCEPT ![k] = NewValue(@, history[Id(k, n)])]
        /\ linearized' = [linearized EXCEPT ![k] = @ \cup {Id(k, n)}]
        /\ next' = [next EXCEPT ![k] = links[1]] /\ prev' = [prev EXCEPT ![k] = links[2]]
        /\ entry' = [entry EXCEPT ![k] = links[1][0]]
        /\ UNCHANGED <<input, longest, pc, result, parallel>>

\* The call at entry cannot come next, or was tried before.
Skip(k) ==
    /\ Searching(k) /\ IsCall(k, entry[k]) /\ ~Linearizable1(k)
    /\ entry' = [entry EXCEPT ![k] = next[k][entry[k]]]
    /\ UNCHANGED <<input, next, prev, state, linearized, calls, cache, longest, pc, result, parallel>>

\* Mutant of IsLonger: the linearization is entered for operations that are
\* not part of it.
IsLongerForAll(k, i) == Len(calls[k]) > Len(longest[k][i])

\* The current linearization is the longest known one that contains i.
IsLonger(k, i) == i \in linearized[k] /\ Len(calls[k]) > Len(longest[k][i])

\* The longest linearizations known after a return was reached.
Longer(k) ==
    [i \in OpsOn(k) |-> IF computeInfo /\ IsLonger(k, i) THEN Ids(k, calls[k]) ELSE longest[k][i]]

\* A return is reached before its call was linearized: the last choice is
\* taken back, and the search goes on behind it.
Backtrack(k) ==
    LET top == calls[k][Len(calls[k])]
        links == unlift(next[k], prev[k], top.entry, match(k, top.entry))
    IN  /\ Searching(k) /\ ~IsCall(k, entry[k]) /\ calls[k] # <<>>
        /\ longest' = [longest EXCEPT ![k] = Longer(k)]
        /\ state' = [state EXCEPT ![k] = top.state]
        /\ linearized' = [linearized EXCEPT ![k] = @ \ {Id(k, top.entry)}]
        /\ calls' = [calls EXCEPT ![k] = SubSeq(@, 1, Len(@) - 1)]
        /\ next' = [next EXCEPT ![k] = links[1]] /\ prev' = [prev EXCEPT ![k] = links[2]]
        /\ entry' = [entry EXCEPT ![k] = links[1][top.entry]]
        /\ UNCHANGED <<input, cache, pc, result, parallel>>

\* checkSingle returns: the list is empty, or the kill flag is set, or
\* there is nothing left to take back.
Stop(k) ==
    /\ pc[k] = "search"
    /\ IF next[k][0] = Nil
       THEN /\ longest' = [longest EXCEPT ![k] = [i \in OpsOn(k) |-> Ids(k, calls[k])]]
            /\ result' = [result EXCEPT ![k] = TRUE]
       ELSE /\ kill \/ (~IsCall(k, entry[k]) /\ calls[k] = <<>>)
            /\ UNCHANGED <<longest, result>>
    /\ pc' = [pc EXCEPT ![k] = "send"]
    /\ UNCHANGED <<input, next, prev, entry, state, linearized, calls, cache, parallel>>

\* The goroutine sends its result; the channel has room for all of them.
Send(k) ==
    /\ pc[k] = "send"
    /\ results' = results \cup {k}
    /\ pc' = [pc EXCEPT ![k] = "ended"]
    /\ UNCHANGED <<input, search, result, kill, ok, timedOut, count, at, verdict>>

-----------------------------------------------------------------------------
(***************************************************************************)
(* checkParallel                                                           *)
(***************************************************************************)

\* Mutant of AllIn: the comparison is off by one.
AllInLate(n) == n > Cardinality(Partitions)

AllIn(n) == n >= Cardinality(Partitions)

\* It receives the result of key k.
Receive(k) ==
    /\ at = "loop" /\ k \in results
    /\ results' = results \ {k}
    /\ count' = count + 1
    /\ ok' = (ok /\ result[k])
    /\ kill' = (kill \/ (~ok' /\ ~computeInfo))
    /\ at' = IF (~ok' /\ ~computeInfo) \/ AllIn(count') THEN "drain" ELSE "loop"
    /\ UNCHANGED <<input, search, pc, result, timedOut, verdict>>

\* The timeout fires.
TimeOut ==
    /\ at = "loop" /\ mayTimeOut
    /\ timedOut' = TRUE /\ kill' = TRUE /\ at' = "drain"
    /\ UNCHANGED <<input, search, pc, result, ok, results, count, verdict>>

\* Mutant of Wait: longest is read while searches still run.
WaitNot == FALSE

\* There are goroutines to be waited for before longest is read.
Wait == computeInfo /\ count < Cardinality(Partitions)

Drain(k) ==
    /\ at = "drain" /\ Wait /\ k \in results
    /\ results' = results \ {k}
    /\ count' = count + 1
    /\ UNCHANGED <<input, search, pc, result, kill, ok, timedOut, at, verdict>>

Verdict == IF ~ok THEN "Illegal" ELSE IF timedOut THEN "Unknown" ELSE "Ok"

Finish ==
    /\ at = "drain" /\ ~Wait
    /\ verdict' = Verdict
    /\ at' = "end"
    /\ UNCHANGED <<input, search, pc, result, kill, ok, timedOut, results, count>>

Search(k) == Linearize(k) \/ Skip(k) \/ Backtrack(k) \/ Stop(k) \/ Send(k)

Collect == (\E k \in Partitions : Receive(k) \/ Drain(k)) \/ Finish

Next == (\E k \in Partitions : Search(k)) \/ Collect \/ TimeOut

Spec == Init /\ [][Next]_vars

\* Every goroutine goes on.  The timeout may never fire.
Fairness == WF_vars(Collect) /\ \A k \in Keys : WF_vars(k \in Partitions /\ Search(k))

FairSpec == Spec /\ Fairness

-----------------------------------------------------------------------------
(***************************************************************************)
(* The reference: linearizability of a history h as a whole.               *)
(***************************************************************************)

\* The map after the first n operations of seq, from an empty map.
StoreAfter(h, seq, n) ==
    LET store[j \in 0 .. n] == IF j = 0 THEN EmptyStore(Keys) ELSE Step(store[j - 1], h[seq[j]])
    IN  store[n]

\* Each operation of seq is accepted after those before it.
Legal(h, seq) ==
    \A j \in DOMAIN seq : Accepts(StoreAfter(h, seq, j - 1)[h[seq[j]].Key], h[seq[j]])

\* Operation i has returned before j was called.
Precedes(h, i, j) == h[i].Return < h[j].Call

InOrder(h, seq) == \A a, b \in DOMAIN seq : a < b => ~Precedes(h, seq[b], seq[a])

\* The operations of the history can be put in a legal order that agrees with
\* the times.
LinearizableHistory ==
    \E seq \in Numberings(history) : InOrder(history, seq) /\ Legal(history, seq)

\* Every variable has its type, and a search that is not at its end never
\* runs off its list: entry is a node.
TypeOK ==
    /\ history \in Histories
    /\ \A k \in Partitions :
         /\ DOMAIN next[k] = 0 .. Last(k) /\ DOMAIN prev[k] = 0 .. Last(k)
         /\ \A n \in 0 .. Last(k) :
               next[k][n] \in (1 .. Last(k)) \cup {Nil} /\ prev[k][n] \in (0 .. Last(k)) \cup {Nil}
         /\ linearized[k] \subseteq OpsOn(k)
         /\ pc[k] = "search" /\ next[k][0] # Nil => entry[k] \in 1 .. Last(k)
         /\ pc[k] \in {"search", "send", "ended"} /\ result[k] \in BOOLEAN
    /\ results \subseteq Partitions /\ count \in 0 .. Cardinality(Partitions)
    /\ at \in {"loop", "drain", "end"} /\ verdict \in {"none", "Ok", "Illegal", "Unknown"}

\* The verdict on a history is right, however the goroutines and the timeout
\* interleave: Ok only if the history as a whole is linearizable, Illegal
\* only if it is not, although each key is searched for itself and a search
\* that was stopped returns false.  Unknown means that the timeout fired.
VerdictCorrect ==
    /\ verdict = "Ok" => LinearizableHistory
    /\ verdict = "Illegal" => ~LinearizableHistory
    /\ verdict = "Unknown" => timedOut

\* The nodes that are in the list of key k when it is as it should be: those
\* of the operations that are not linearized.
Remaining(k) == {n \in DOMAIN entries[k] : Id(k, n) \notin linearized[k]}

\* lift() and unlift() keep the list whole, whatever was lifted since: it
\* links exactly the entries of the operations that are not linearized, in
\* both directions and in the order of time.
ListIntact ==
    \A k \in Partitions : \A n \in Remaining(k) \cup {0} :
        LET later == {m \in Remaining(k) : m > n}
        IN  IF later = {} THEN next[k][n] = Nil
            ELSE /\ next[k][n] \in later /\ \A m \in later : next[k][n] <= m
                 /\ prev[k][next[k][n]] = n

\* The partial linearizations that checkParallel returns with its verdict,
\* those of searches that were stopped included, are legal, agree with the
\* times and leave out no operation that had to come earlier; each contains
\* the operation it is listed for.
PartialsValid ==
    computeInfo /\ verdict # "none" =>
        \A k \in Partitions : \A i \in OpsOn(k) :
            LET seq == longest[k][i]
                members == {seq[j] : j \in DOMAIN seq}
            IN  seq # <<>> =>
                  /\ i \in members /\ Cardinality(members) = Len(seq)
                  /\ InOrder(history, seq) /\ Legal(history, seq)
                  /\ \A a \in OpsOn(k), b \in members :
                        Precedes(history, a, b) => a \in members

\* Nobody writes longest once checkParallel has read it.
InfoStable ==
    [][computeInfo /\ verdict # "none" => UNCHANGED longest]_vars

\* The check ends, and so does every goroutine it started, whether it waits
\* for them or not.
CheckEnds == <>(verdict # "none" /\ \A k \in Partitions : pc[k] = "ended")
=============================================================================
