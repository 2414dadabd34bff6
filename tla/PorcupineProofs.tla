-------------------------- MODULE PorcupineProofs ---------------------------
(***************************************************************************)
(* Proofs about Porcupine, for any history, any number of keys and any     *)
(* interleaving of the searches and the timeout: the list that lift() and  *)
(* unlift() edit stays whole, the partial linearizations are valid, and    *)
(* the verdict is right.                                                   *)
(***************************************************************************)
EXTENDS Porcupine, FiniteSetTheorems, TLAPS

\* The prover, where a step names no other.
USE Zenon

(***************************************************************************)
(* The invariant.  In these definitions h is the history, es the entries   *)
(* of a key k, cs its stack calls, nx and pv the links of its list.        *)
(***************************************************************************)

\* The operations on key k of history h, and their entries.
On(h, k) == {i \in DOMAIN h : h[i].Key = k}
EntriesOn(h, k) == [kind : {"call", "return"}, id : On(h, k)]

\* makeEntries() has sorted the entries of the key.
Sorted(h, k, es) ==
    /\ es \in Seq(EntriesOn(h, k))
    /\ \A n, m \in 1 .. Len(es) : es[n].kind = es[m].kind /\ es[n].id = es[m].id => n = m
    /\ \A i \in On(h, k), c \in {"call", "return"} :
          \E n \in 1 .. Len(es) : es[n].kind = c /\ es[n].id = i
    /\ \A n, m \in 1 .. Len(es) : n < m => ~Less(h, es[m], es[n])

\* The nodes of the operations that are not in set.
NodesWithout(es, set) == {n \in 1 .. Len(es) : es[n].id \notin set}

\* The operations that the first d calls of the stack linearize, and the
\* nodes that are left without them.
Done(es, cs, d) == {es[cs[j].entry].id : j \in 1 .. d}
Left(es, cs, d) == NodesWithout(es, Done(es, cs, d))

\* The value of the key after the first d calls of the stack; value is that
\* after all of them.
ValueAt(cs, value, d) == IF d < Len(cs) THEN cs[d + 1].state ELSE value

\* No return is left before node n: the operation of n may come next.
InFront(es, nodes, n) == \A r \in nodes : r < n => es[r].kind = "call"

\* Once the operations in set are done and the key has value before, the call
\* at node n may come next, and leaves value after.
MayCome(h, es, set, before, n, after) ==
    /\ n \in NodesWithout(es, set) /\ es[n].kind = "call"
    /\ InFront(es, NodesWithout(es, set), n)
    /\ Accepts(before, h[es[n].id]) /\ after = NewValue(before, h[es[n].id])

\* Each call of the stack could come after those below it.
IsStack(cs) ==
    Len(cs) \in Nat /\ DOMAIN cs = 1 .. Len(cs) /\ cs \in Seq({cs[j] : j \in 1 .. Len(cs)})

StackOK(h, es, cs, value) ==
    /\ IsStack(cs) /\ ValueAt(cs, value, 0) = <<>>
    /\ \A d \in 1 .. Len(cs) :
          MayCome(h, es, Done(es, cs, d - 1), ValueAt(cs, value, d - 1),
                  cs[d].entry, ValueAt(cs, value, d))

-----------------------------------------------------------------------------
\* The links of a list with N nodes.
NextLinks(N) == [0 .. N -> (1 .. N) \cup {Nil}]
PrevLinks(N) == [0 .. N -> (0 .. N) \cup {Nil}]

\* Node m is the first of nodes behind n; no node is behind n.
Follows(nodes, n, m) == m \in nodes /\ n < m /\ \A r \in nodes : n < r => m <= r
AtEnd(nodes, n) == \A r \in nodes : r <= n

\* The links of node n, in one direction and in the other, are those of a
\* list of nodes.
NextIn(nodes, nx, n) == IF nx[n] = Nil THEN AtEnd(nodes, n) ELSE Follows(nodes, n, nx[n])
PrevIn(nodes, pv, n) == pv[n] \in nodes \cup {0} /\ pv[n] < n /\ \A r \in nodes : r < n => r <= pv[n]

\* The links make a list of nodes.
Linked(nodes, nx, pv) ==
    /\ \A n \in nodes \cup {0} : NextIn(nodes, nx, n)
    /\ \A n \in nodes : PrevIn(nodes, pv, n)

ReturnOf(es, n, m) == m \in 1 .. Len(es) /\ es[m].kind = "return" /\ es[m].id = es[n].id

\* Nodes n and m were taken out of the list of nodes, and keep the links they
\* need to be put back, m first.
Saved(nodes, nx, pv, n, m) ==
    /\ NextIn(nodes, nx, n) /\ PrevIn(nodes, pv, n)
    /\ NextIn(nodes, nx, m) /\ PrevIn(nodes \ {n}, pv, m)

\* So does each call that lift() took out, with its return.
LinksOK(es, cs, nx, pv) ==
    /\ nx \in NextLinks(Len(es)) /\ pv \in PrevLinks(Len(es))
    /\ Linked(Left(es, cs, Len(cs)), nx, pv)
    /\ \A d \in 1 .. Len(cs) : \A m \in 1 .. Len(es) :
          ReturnOf(es, cs[d].entry, m) => Saved(Left(es, cs, d - 1), nx, pv, cs[d].entry, m)

\* The search is at a node of the list, and has only passed calls.
EntryOK(es, cs, nx, en) ==
    nx[0] # Nil => /\ en \in Left(es, cs, Len(cs))
                   /\ InFront(es, Left(es, cs, Len(cs)), en)

-----------------------------------------------------------------------------
\* Some linearization of the whole history has, at some point, done the
\* operations in set on key k and left the key at value.
Reach(h, k, set, value) ==
    \E seq \in Numberings(h) : \E p \in 0 .. Len(h) :
        /\ InOrder(h, seq) /\ Legal(h, seq)
        /\ set = {i \in On(h, k) : \E j \in 1 .. p : seq[j] = i}
        /\ value = StoreAfter(h, seq, p)[k]

\* No linearization goes on from there with operation i.
Futile(h, k, set, value, i) ==
    Accepts(value, h[i]) => ~Reach(h, k, set \cup {i}, NewValue(value, h[i]))

\* What the cache holds is on the stack or leads nowhere.
CacheOK(h, k, es, cs, value, ca) ==
    \A c \in ca : \/ \E d \in 0 .. Len(cs) : c = <<Done(es, cs, d), ValueAt(cs, value, d)>>
                  \/ ~Reach(h, k, c[1], c[2])

\* What the search has passed, at each level of the stack, leads nowhere.
PassedOK(h, k, es, cs, value, en) ==
    /\ \A d \in 1 .. Len(cs) : \A r \in Left(es, cs, d - 1) :
          r < cs[d].entry => Futile(h, k, Done(es, cs, d - 1), ValueAt(cs, value, d - 1), es[r].id)
    /\ \A r \in Left(es, cs, Len(cs)) :
          r < en => Futile(h, k, Done(es, cs, Len(cs)), value, es[r].id)

TriedOK(h, k, es, cs, value, en, ca) ==
    CacheOK(h, k, es, cs, value, ca) /\ PassedOK(h, k, es, cs, value, en)

\* A sequence of operations on key k that can be listed for operation i.
PartialOK(h, k, i, seq) ==
    LET members == {seq[j] : j \in DOMAIN seq}
    IN  /\ i \in members /\ Cardinality(members) = Len(seq)
        /\ InOrder(h, seq) /\ Legal(h, seq)
        /\ \A a \in On(h, k), b \in members : Precedes(h, a, b) => a \in members

-----------------------------------------------------------------------------
\* A search that is at node en, with value and set as its state and bitset,
\* and cache ca.
SearchOK(h, k, es, nx, pv, en, value, set, cs, ca) ==
    /\ Sorted(h, k, es) /\ StackOK(h, es, cs, value) /\ set = Done(es, cs, Len(cs))
    /\ LinksOK(es, cs, nx, pv) /\ EntryOK(es, cs, nx, en)
    /\ TriedOK(h, k, es, cs, value, en, ca)

LongestOK(h, k, lo) ==
    DOMAIN lo = On(h, k) /\ \A i \in On(h, k) : lo[i] # <<>> => PartialOK(h, k, i, lo[i])

\* A search that ended with true has linearized every operation; one that
\* ended with false was stopped, or no linearization exists.
ResultOK(h, k, p, r, set, stopped) ==
    /\ p \in {"search", "send", "ended"} /\ r \in BOOLEAN
    /\ r => p # "search" /\ set = On(h, k)
    /\ p # "search" /\ ~r => stopped \/ ~Reach(h, k, {}, <<>>)

\* The search of key k.
KeyInv(k) ==
    /\ SearchOK(history, k, entries[k], next[k], prev[k], entry[k], state[k], linearized[k],
                calls[k], cache[k])
    /\ LongestOK(history, k, longest[k])
    /\ ResultOK(history, k, pc[k], result[k], linearized[k], kill)

\* The searches whose result checkParallel has received.
Received == {k \in Partitions : pc[k] = "ended"} \ results

\* checkParallel
ParallelInv ==
    /\ results \subseteq {k \in Partitions : pc[k] = "ended"}
    /\ count = Cardinality(Received)
    /\ kill \in BOOLEAN /\ ok \in BOOLEAN /\ timedOut \in BOOLEAN /\ computeInfo \in BOOLEAN
    /\ at \in {"loop", "drain", "end"} /\ verdict \in {"none", "Ok", "Illegal", "Unknown"}
    /\ at = "loop" => ~kill /\ ~timedOut
    /\ at = "loop" /\ ok => \A k \in Received : result[k]
    /\ ~ok => ~LinearizableHistory
    /\ at # "loop" /\ ok /\ ~timedOut => Received = Partitions /\ \A k \in Partitions : result[k]
    /\ verdict # "none" => at = "end"
    /\ at = "end" => verdict = Verdict /\ (computeInfo => Received = Partitions)

DomainInv ==
    /\ DOMAIN entries = Partitions /\ DOMAIN next = Partitions /\ DOMAIN prev = Partitions
    /\ DOMAIN entry = Partitions /\ DOMAIN state = Partitions /\ DOMAIN linearized = Partitions
    /\ DOMAIN calls = Partitions /\ DOMAIN cache = Partitions /\ DOMAIN longest = Partitions
    /\ DOMAIN pc = Partitions /\ DOMAIN result = Partitions

\* The inductive invariant.
CheckInv ==
    /\ history \in Histories /\ DomainInv /\ ParallelInv
    /\ \A k \in Partitions : KeyInv(k)

-----------------------------------------------------------------------------
(***************************************************************************)
(* Sets and sequences.                                                     *)
(***************************************************************************)

\* Induction, for the members of a set.
LEMMA UpTo ==
    ASSUME NEW n \in Nat, NEW S, 0 \in S, \A j \in 0 .. n - 1 : j \in S => j + 1 \in S
    PROVE  \A j \in 0 .. n : j \in S
<1> DEFINE T == {j \in Nat : j <= n /\ j \notin S}
<1>1. CASE T = {}
  BY SMT, <1>1
<1>2. CASE T # {}
  <2>1. T \subseteq Nat
    BY SMT
  <2> HIDE DEF T
  <2>2. PICK x \in T : \A y \in T : ~(<<y, x>> \in OpToRel(<, Nat))
    BY <1>2, <2>1, NatLessThanWellFounded, WFMin
  <2> USE DEF T
  <2>3. x \in Nat /\ x <= n /\ x \notin S /\ x # 0
    OBVIOUS
  <2>4. x - 1 \in Nat /\ x - 1 <= n /\ x - 1 < x /\ x - 1 \in 0 .. n - 1 /\ x - 1 + 1 = x
    BY SMT, <2>3
  <2>5. <<x - 1, x>> \in OpToRel(<, Nat)
    BY <2>3, <2>4 DEF OpToRel
  <2>6. x - 1 \in S
    BY <2>2, <2>4, <2>5
  <2> QED
    BY <2>3, <2>4, <2>6
<1> QED
  BY <1>1, <1>2

\* R orders the set S strictly, and the place of each element in that order.
IsOrder(R, S) ==
    /\ \A a \in S : <<a, a>> \notin R
    /\ \A a, b, c \in S : <<a, b>> \in R /\ <<b, c>> \in R => <<a, c>> \in R
    /\ \A a, b \in S : a # b => <<a, b>> \in R \/ <<b, a>> \in R

Places(R, S) == [e \in S |-> Cardinality({a \in S : <<a, e>> \in R}) + 1]

\* The places of the elements of a finite set are the numbers up to its size.
Placed(R, S, N, place) ==
    /\ place \in [S -> 1 .. N]
    /\ \A a, b \in S : <<a, b>> \in R <=> place[a] < place[b]
    /\ \A n \in 1 .. N : \E e \in S : place[e] = n

LEMMA PlacesFacts ==
    ASSUME NEW S, IsFiniteSet(S), NEW R, IsOrder(R, S), NEW place, place = Places(R, S),
           NEW N, N = Cardinality(S)
    PROVE  Placed(R, S, N, place)
<1> DEFINE Below(e) == {a \in S : <<a, e>> \in R}
<1>1. N \in Nat
  BY FS_CardinalityType
<1>3. ASSUME NEW e \in S PROVE /\ IsFiniteSet(Below(e)) /\ Cardinality(Below(e)) \in Nat
                               /\ Cardinality(Below(e)) + 1 \in 1 .. N
  <2>1. IsFiniteSet(S \ {e}) /\ Cardinality(S \ {e}) = N - 1
    BY SMT, <1>1, FS_RemoveElement
  <2>2. Below(e) \in SUBSET (S \ {e})
    BY DEF IsOrder
  <2>3. IsFiniteSet(Below(e)) /\ Cardinality(Below(e)) <= Cardinality(S \ {e})
    BY <2>1, <2>2, FS_Subset
  <2>4. Cardinality(Below(e)) \in Nat
    BY <2>3, FS_CardinalityType
  <2> QED
    BY SMT, <1>1, <2>1, <2>3, <2>4
<1>4. ASSUME NEW a \in S, NEW b \in S, <<a, b>> \in R
      PROVE  Cardinality(Below(a)) < Cardinality(Below(b))
  <2>1. Below(a) \in SUBSET Below(b) /\ a \in Below(b) /\ a \notin Below(a)
    BY <1>4 DEF IsOrder
  <2>2. /\ Cardinality(Below(a)) <= Cardinality(Below(b))
        /\ Cardinality(Below(a)) # Cardinality(Below(b))
    BY <1>3, <2>1, FS_Subset
  <2>3. Cardinality(Below(a)) \in Nat /\ Cardinality(Below(b)) \in Nat
    BY <1>3
  <2> QED
    BY SMT, <2>2, <2>3
<1>5. /\ place \in [S -> 1 .. N] /\ \A e \in S : place[e] = Cardinality(Below(e)) + 1
  BY <1>3 DEF Places
<1> HIDE DEF Below
<1>6. \A a, b \in S : <<a, b>> \in R => place[a] < place[b]
  <2> SUFFICES ASSUME NEW a \in S, NEW b \in S, <<a, b>> \in R PROVE place[a] < place[b]
    OBVIOUS
  <2>1. Cardinality(Below(a)) \in Nat /\ Cardinality(Below(b)) \in Nat
    BY <1>3
  <2>2. Cardinality(Below(a)) < Cardinality(Below(b))
    BY <1>4
  <2>3. place[a] = Cardinality(Below(a)) + 1 /\ place[b] = Cardinality(Below(b)) + 1
    BY <1>5
  <2> QED
    BY SMT, <2>1, <2>2, <2>3
<1>7. \A a, b \in S : place[a] < place[b] => <<a, b>> \in R
  <2> SUFFICES ASSUME NEW a \in S, NEW b \in S, place[a] < place[b], <<a, b>> \notin R PROVE FALSE
    OBVIOUS
  <2>1. place[a] \in Int /\ place[b] \in Int
    BY SMT, <1>5
  <2>2. a = b \/ place[b] < place[a]
    BY <1>6 DEF IsOrder
  <2> QED
    BY SMT, <2>1, <2>2
<1>8. place \in Injection(S, 1 .. N)
  <2>1. ASSUME NEW a \in S, NEW b \in S, place[a] = place[b] PROVE a = b
    <3>1. place[a] \in Int /\ place[b] \in Int
      BY SMT, <1>5
    <3>2. ~(place[a] < place[b]) /\ ~(place[b] < place[a])
      BY SMT, <2>1, <3>1
    <3> QED
      BY <1>6, <3>2 DEF IsOrder
  <2> QED
    BY <1>5, <2>1 DEF Injection, IsInjective
<1>9. IsFiniteSet(1 .. N) /\ Cardinality(1 .. N) = N
  BY SMT, <1>1, FS_Interval
<1>10. place \in Surjection(S, 1 .. N)
  BY <1>8, <1>9, FS_Injection
<1>11. \A n \in 1 .. N : \E e \in S : place[e] = n
  BY <1>10 DEF Surjection
<1> QED
  BY <1>5, <1>6, <1>7, <1>11 DEF Placed

-----------------------------------------------------------------------------
(***************************************************************************)
(* The entries of a key.                                                   *)
(***************************************************************************)

\* A history that the tests can record.
IsHistory(h) ==
    /\ Len(h) \in Nat /\ DOMAIN h = 1 .. Len(h)
    /\ \A i \in DOMAIN h : /\ h[i].Key \in Keys
                           /\ h[i].Call \in Int /\ h[i].Return \in Int /\ h[i].Call <= h[i].Return

\* The order by which makeEntries() sorts.
Before(h, rank, a, b) ==
    Less(h, a, b) \/ (~Less(h, b, a) /\ rank[a.id] < rank[b.id])

\* What is known of an entry.
LEMMA EntryFacts ==
    ASSUME NEW h, IsHistory(h), NEW k, NEW e \in EntriesOn(h, k)
    PROVE  /\ e.id \in On(h, k) /\ e.id \in DOMAIN h /\ h[e.id].Key = k
           /\ Time(h, e) \in Int /\ e.kind \in {"call", "return"}
           /\ e = [kind |-> e.kind, id |-> e.id]
<1>1. e.id \in On(h, k) /\ e.kind \in {"call", "return"} /\ e = [kind |-> e.kind, id |-> e.id]
  BY DEF EntriesOn
<1>2. e.id \in DOMAIN h /\ h[e.id].Key = k
  BY <1>1 DEF On
<1> QED
  BY <1>1, <1>2 DEF IsHistory, Time

\* It is a strict order of the entries.
LEMMA BeforeIsOrder ==
    ASSUME NEW h, IsHistory(h), NEW k, NEW rank \in Numberings(h)
    PROVE  LET E == EntriesOn(h, k)
           IN  /\ \A a \in E : ~Before(h, rank, a, a)
               /\ \A a, b, c \in E :
                     Before(h, rank, a, b) /\ Before(h, rank, b, c) => Before(h, rank, a, c)
               /\ \A a, b \in E : a # b => Before(h, rank, a, b) \/ Before(h, rank, b, a)
<1> DEFINE E == EntriesOn(h, k)
<1>1. rank \in [DOMAIN h -> DOMAIN h] /\ \A i, j \in DOMAIN h : i # j => rank[i] # rank[j]
  BY DEF Numberings
<1>2. ASSUME NEW e \in E
      PROVE  Time(h, e) \in Int /\ rank[e.id] \in Int /\ e.kind \in {"call", "return"}
  <2>1. e.id \in DOMAIN h /\ Time(h, e) \in Int /\ e.kind \in {"call", "return"}
    BY EntryFacts
  <2>2. rank[e.id] \in DOMAIN h
    BY <1>1, <2>1
  <2>3. rank[e.id] \in Int
    BY SMT, <2>2 DEF IsHistory
  <2> QED
    BY <2>1, <2>3
<1>3. ASSUME NEW a \in E PROVE ~Before(h, rank, a, a)
  BY SMT, <1>2 DEF Before, Less
<1>4. ASSUME NEW a \in E, NEW b \in E, NEW c \in E,
             Before(h, rank, a, b), Before(h, rank, b, c)
      PROVE  Before(h, rank, a, c)
  <2>1. PICK ta \in Int, tb \in Int, tc \in Int, ra \in Int, rb \in Int, rc \in Int :
           /\ ta = Time(h, a) /\ tb = Time(h, b) /\ tc = Time(h, c)
           /\ ra = rank[a.id] /\ rb = rank[b.id] /\ rc = rank[c.id]
    BY <1>2
  <2>2. PICK ka \in {"call", "return"}, kb \in {"call", "return"}, kc \in {"call", "return"} :
           ka = a.kind /\ kb = b.kind /\ kc = c.kind
    BY <1>2
  <2> QED
    BY SMT, <1>4, <2>1, <2>2 DEF Before, Less
<1>5. ASSUME NEW a \in E, NEW b \in E, a # b PROVE Before(h, rank, a, b) \/ Before(h, rank, b, a)
  <2>1. CASE a.kind = b.kind
    <3>1. a.id # b.id
      BY SMT, <1>5, <2>1 DEF EntriesOn
    <3>2. rank[a.id] # rank[b.id]
      BY <1>1, <3>1, EntryFacts
    <3> QED
      BY SMT, <1>2, <3>2 DEF Before, Less
  <2>2. CASE a.kind # b.kind
    BY SMT, <1>2, <2>2 DEF Before, Less
  <2> QED
    BY <2>1, <2>2
<1> QED
  BY <1>3, <1>4, <1>5

\* There are finitely many entries.
LEMMA EntriesFinite ==
    ASSUME NEW h, IsHistory(h), NEW k PROVE IsFiniteSet(On(h, k)) /\ IsFiniteSet(EntriesOn(h, k))
<1> DEFINE E == EntriesOn(h, k)
           C == {"call"} \cup {"return"}
           D == On(h, k)
           f == [e \in E |-> <<e.kind, e.id>>]
<1>1. IsFiniteSet(D)
  <2>1. IsFiniteSet(1 .. Len(h))
    BY SMT, FS_Interval DEF IsHistory
  <2>2. On(h, k) \in SUBSET (1 .. Len(h))
    BY DEF On, IsHistory
  <2> QED
    BY <2>1, <2>2, FS_Subset
<1>2. IsFiniteSet(C)
  BY FS_Singleton, FS_AddElement
<1>3. IsFiniteSet(C \X D)
  BY <1>1, <1>2, FS_Product
<1>4. f \in Injection(E, C \X D)
  <2>1. f \in [E -> C \X D]
    BY SMT DEF EntriesOn
  <2>2. \A a, b \in E : f[a] = f[b] => a = b
    BY SMT DEF EntriesOn
  <2> HIDE DEF f
  <2> QED
    BY <2>1, <2>2 DEF Injection, IsInjective
<1>5. IsFiniteSet(E)
  BY <1>3, <1>4, FS_Injection
<1> QED
  BY <1>1, <1>5

\* makeEntries() puts each entry at its place.
LEMMA EntriesSorted ==
    ASSUME IsHistory(history), NEW k, NEW rank \in Numberings(history)
    PROVE  Sorted(history, k, makeEntries(k, rank))
<1> DEFINE h == history
           E == EntriesOn(h, k)
           before(a, b) == \/ Less(history, a, b)
                           \/ ~Less(history, b, a) /\ rank[a.id] < rank[b.id]
           R == {w \in E \X E : Before(h, rank, w[1], w[2])}
<1>1. IsFiniteSet(E) /\ Entries(k) = E
  <2>1. IsFiniteSet(E)
    BY EntriesFinite
  <2>2. Entries(k) = E
    BY DEF EntriesOn, On, Entries, OpsOn
  <2> QED
    BY <2>1, <2>2
<1>2. \A a, b \in E : <<a, b>> \in R <=> Before(h, rank, a, b)
  OBVIOUS
<1>3. \A e \in E : Cardinality({a \in E : before(a, e)}) + 1 = Places(R, E)[e]
  <2>1. ASSUME NEW e \in E PROVE {a \in E : before(a, e)} = {a \in E : <<a, e>> \in R}
    BY <1>2 DEF Before
  <2> QED
    BY <2>1 DEF Places
<1> HIDE DEF R
<1>4. PICK pl : pl = Places(R, E)
  OBVIOUS
<1>5. PICK N \in Nat : N = Cardinality(E)
  BY <1>1, FS_CardinalityType
<1>6. /\ pl \in [E -> 1 .. N]
      /\ \A a, b \in E : <<a, b>> \in R <=> pl[a] < pl[b]
      /\ \A n \in 1 .. N : \E e \in E : pl[e] = n
  <2>1. IsOrder(R, E)
    BY <1>2, BeforeIsOrder DEF IsOrder
  <2>2. IsFiniteSet(E)
    BY <1>1
  <2> HIDE DEF E
  <2>3. Placed(R, E, N, pl)
    BY <1>4, <1>5, <2>1, <2>2, PlacesFacts
  <2> QED
    BY <2>3 DEF Placed
<1>7. PICK es : es = makeEntries(k, rank)
  OBVIOUS
<1>8. es = [n \in 1 .. N |-> CHOOSE e \in E : Cardinality({a \in E : before(a, e)}) + 1 = n]
  BY SMT, <1>1, <1>5, <1>7 DEF makeEntries
<1>9. ASSUME NEW n \in 1 .. N PROVE es[n] \in E /\ pl[es[n]] = n
  <2>1. \E e \in E : Cardinality({a \in E : before(a, e)}) + 1 = n
    BY <1>3, <1>4, <1>6
  <2>2. es[n] \in E /\ Cardinality({a \in E : before(a, es[n])}) + 1 = n
    BY <1>8, <2>1
  <2> QED
    BY <1>3, <1>4, <2>2
<1>10. es \in [1 .. N -> E]
  <2>1. \A n \in 1 .. N :
           (CHOOSE e \in E : Cardinality({a \in E : before(a, e)}) + 1 = n) \in E
    BY <1>8, <1>9
  <2> QED
    BY <1>8, <2>1
<1> HIDE DEF E
<1>11. es \in Seq(E) /\ Len(es) = N
  BY SMT, <1>10
<1>12. ASSUME NEW n \in 1 .. N, NEW m \in 1 .. N, n # m PROVE es[n] # es[m]
  BY <1>9, <1>12
<1>13. ASSUME NEW e \in E PROVE \E n \in 1 .. N : es[n] = e
  <2>1. PICK n \in 1 .. N : n = pl[e]
    BY <1>6
  <2>2. es[n] \in E /\ pl[es[n]] = pl[e]
    BY <1>9, <2>1
  <2>3. ~(pl[e] < pl[e])
    BY SMT, <2>1
  <2>4. es[n] = e
    <3>1. es[n] # e => <<es[n], e>> \in R \/ <<e, es[n]>> \in R
      BY <1>2, <2>2, BeforeIsOrder DEF E
    <3> QED
      BY <1>6, <2>2, <2>3, <3>1
  <2> QED
    BY <2>4
<1>14. ASSUME NEW n \in 1 .. N, NEW m \in 1 .. N, n < m PROVE ~Less(h, es[m], es[n])
  <2>1. ~(m < n)
    BY SMT, <1>14
  <2>2. <<es[m], es[n]>> \notin R
    BY <1>6, <1>9, <2>1
  <2> QED
    BY <1>2, <1>9, <2>2 DEF Before
<1>15. ASSUME NEW n \in 1 .. N, NEW m \in 1 .. N, es[n].kind = es[m].kind, es[n].id = es[m].id
       PROVE  n = m
  <2>1. es[n] \in E /\ es[m] \in E
    BY <1>9
  <2>2. es[n] = es[m]
    BY SMT, <1>15, <2>1 DEF E, EntriesOn
  <2> QED
    BY <1>12, <2>2
<1>16. ASSUME NEW i \in On(h, k), NEW c \in {"call", "return"}
       PROVE  \E n \in 1 .. N : es[n].kind = c /\ es[n].id = i
  <2>1. PICK e \in E : e.kind = c /\ e.id = i
    <3>1. [kind |-> c, id |-> i] \in E
      BY DEF E, EntriesOn
    <3> QED
      BY <3>1
  <2> QED
    BY <1>13, <2>1
<1>17. Sorted(h, k, es)
  BY SMT, <1>11, <1>14, <1>15, <1>16 DEF Sorted, E
<1> QED
  BY <1>7, <1>17

\* Every operation has a call node and a return node behind it.
LEMMA NodesOf ==
    ASSUME NEW h, IsHistory(h), NEW k, NEW es, Sorted(h, k, es), NEW i \in On(h, k)
    PROVE  \E n, m \in 1 .. Len(es) : /\ es[n].kind = "call" /\ es[n].id = i
                                      /\ es[m].kind = "return" /\ es[m].id = i /\ n < m
<1>2. PICK n \in 1 .. Len(es), m \in 1 .. Len(es) :
         es[n].kind = "call" /\ es[n].id = i /\ es[m].kind = "return" /\ es[m].id = i
  BY SMT DEF Sorted
<1>3. Less(h, es[n], es[m])
  <2>1. h[i].Call \in Int /\ h[i].Return \in Int /\ h[i].Call <= h[i].Return
    BY DEF On, IsHistory
  <2>2. Time(h, es[n]) = h[i].Call /\ Time(h, es[m]) = h[i].Return
    BY SMT, <1>2 DEF Time
  <2> QED
    BY SMT, <1>2, <2>1, <2>2 DEF Less
<1>4. n # m
  BY SMT, <1>2
<1>5. ~(m < n)
  BY <1>2, <1>3 DEF Sorted
<1>6. n < m
  BY SMT, <1>4, <1>5 DEF Sorted
<1> QED
  BY <1>2, <1>6

\* What is known of a node.
LEMMA NodeFacts ==
    ASSUME NEW h, IsHistory(h), NEW k, NEW es, Sorted(h, k, es), NEW n \in 1 .. Len(es)
    PROVE  /\ Len(es) \in Nat /\ es[n].id \in On(h, k) /\ es[n].kind \in {"call", "return"}
<1>1. Len(es) \in Nat /\ es[n] \in EntriesOn(h, k)
  BY SMT DEF Sorted
<1> QED
  BY <1>1, EntryFacts

\* The return node of a call node: there is one, and it is behind the call.
LEMMA ReturnFacts ==
    ASSUME NEW h, IsHistory(h), NEW k, NEW es, Sorted(h, k, es),
           NEW n \in 1 .. Len(es), es[n].kind = "call"
    PROVE  \E m \in 1 .. Len(es) : /\ ReturnOf(es, n, m) /\ n < m
                                   /\ \A l \in 1 .. Len(es) : ReturnOf(es, n, l) => l = m
                                   /\ \A l \in 1 .. Len(es) : es[l].id = es[n].id => l = n \/ l = m
<1>1. es[n].id \in On(h, k)
  BY NodeFacts
<1>2. PICK c \in 1 .. Len(es), m \in 1 .. Len(es) :
         /\ es[c].kind = "call" /\ es[c].id = es[n].id
         /\ es[m].kind = "return" /\ es[m].id = es[n].id /\ c < m
  BY SMT, <1>1, NodesOf
<1>3. c = n
  BY SMT, <1>2 DEF Sorted
<1>4. ReturnOf(es, n, m)
  BY <1>2 DEF ReturnOf
<1>5. ASSUME NEW l \in 1 .. Len(es), es[l].id = es[n].id PROVE l = n \/ l = m
  <2>1. es[l].kind = "call" \/ es[l].kind = "return"
    BY NodeFacts
  <2>2. \A a, b \in 1 .. Len(es) : es[a].kind = es[b].kind /\ es[a].id = es[b].id => a = b
    BY DEF Sorted
  <2>3. es[l].kind = "call" => l = n
    BY <1>5, <2>2
  <2>4. es[l].kind = "return" => l = m
    BY <1>2, <1>5, <2>2
  <2> QED
    BY <2>1, <2>3, <2>4
<1>6. ASSUME NEW l \in 1 .. Len(es), ReturnOf(es, n, l) PROVE l = m
  <2>1. l # n
    BY SMT, <1>6 DEF ReturnOf
  <2> QED
    BY <1>5, <1>6, <2>1 DEF ReturnOf
<1> QED
  BY <1>2, <1>3, <1>4, <1>5, <1>6

\* No operation left precedes one whose call is in front.
LEMMA FrontIsFirst ==
    ASSUME NEW h, IsHistory(h), NEW k, NEW es, Sorted(h, k, es), NEW set,
           NEW n \in NodesWithout(es, set), es[n].kind = "call",
           InFront(es, NodesWithout(es, set), n), NEW j \in On(h, k) \ set
    PROVE  ~Precedes(h, j, es[n].id)
<1> SUFFICES ASSUME Precedes(h, j, es[n].id) PROVE FALSE
  OBVIOUS
<1>1. n \in 1 .. Len(es) /\ es[n].id \notin set
  BY DEF NodesWithout
<1>2. PICK m \in 1 .. Len(es) : es[m].kind = "return" /\ es[m].id = j
  BY SMT, NodesOf
<1>3. Less(h, es[m], es[n])
  <2>1. Time(h, es[m]) = h[j].Return /\ Time(h, es[n]) = h[es[n].id].Call
    BY SMT, <1>2 DEF Time
  <2> QED
    BY <2>1 DEF Less, Precedes
<1>4. ~(n < m)
  BY <1>1, <1>2, <1>3 DEF Sorted
<1>5. n # m
  BY SMT, <1>2
<1>6. m < n
  BY SMT, <1>1, <1>2, <1>4, <1>5
<1>7. m \in NodesWithout(es, set) /\ es[m].kind # "call"
  BY SMT, <1>2 DEF NodesWithout
<1> QED
  BY <1>6, <1>7 DEF InFront

\* An operation that may come next has its call before the first return.
LEMMA FirstIsFront ==
    ASSUME NEW h, IsHistory(h), NEW k, NEW es, Sorted(h, k, es), NEW set,
           NEW r \in NodesWithout(es, set), es[r].kind = "return",
           NEW i \in On(h, k) \ set, \A j \in On(h, k) \ set : ~Precedes(h, j, i)
    PROVE  \E n \in NodesWithout(es, set) : es[n].kind = "call" /\ es[n].id = i /\ n < r
<1>1. PICK n \in 1 .. Len(es) : es[n].kind = "call" /\ es[n].id = i
  BY SMT, NodesOf
<1>2. r \in 1 .. Len(es) /\ es[r].id \in On(h, k) \ set
  BY NodeFacts DEF NodesWithout
<1>3. Less(h, es[n], es[r])
  <2>1. ~Precedes(h, es[r].id, i)
    BY <1>2
  <2>2. /\ Time(h, es[n]) = h[i].Call /\ Time(h, es[r]) = h[es[r].id].Return
        /\ es[n].kind = "call"
    BY SMT, <1>1 DEF Time
  <2>3. h[i].Call \in Int /\ h[es[r].id].Return \in Int
    BY <1>2 DEF On, IsHistory
  <2> QED
    BY SMT, <2>1, <2>2, <2>3 DEF Less, Precedes
<1>4. ~(r < n)
  BY <1>1, <1>2, <1>3 DEF Sorted
<1>5. n # r
  BY SMT, <1>1
<1>6. n < r
  BY SMT, <1>1, <1>2, <1>4, <1>5
<1>7. n \in NodesWithout(es, set)
  BY <1>1 DEF NodesWithout
<1> QED
  BY <1>1, <1>6, <1>7

-----------------------------------------------------------------------------
(***************************************************************************)
(* The list.                                                               *)
(***************************************************************************)

\* The links without node n, and with node n put back.
CutNext(nx, pv, n) == [nx EXCEPT ![pv[n]] = nx[n]]
CutPrev(nx, pv, n) == IF nx[n] = Nil THEN pv ELSE [pv EXCEPT ![nx[n]] = pv[n]]

PasteNext(nx, pv, n) == [nx EXCEPT ![pv[n]] = n]
PastePrev(nx, pv, n) == IF nx[n] = Nil THEN pv ELSE [pv EXCEPT ![nx[n]] = n]

\* Only links of nodes of the list change, and not those of n itself.
SameOutside(nodes, n, nx, pv, nx1, pv1) ==
    /\ \A r \in DOMAIN nx : r \notin nodes \cup {0} \/ r = n => nx1[r] = nx[r]
    /\ \A r \in DOMAIN pv : r \notin nodes \/ r = n => pv1[r] = pv[r]

\* Without n the links make a list of the others.
LEMMA CutNode ==
    ASSUME NEW N \in Nat, NEW nodes \in SUBSET (1 .. N), NEW nx \in NextLinks(N),
           NEW pv \in PrevLinks(N), Linked(nodes, nx, pv), NEW n \in nodes,
           NEW nx1, NEW pv1, nx1 = CutNext(nx, pv, n), pv1 = CutPrev(nx, pv, n)
    PROVE  /\ nx1 \in NextLinks(N) /\ pv1 \in PrevLinks(N) /\ Linked(nodes \ {n}, nx1, pv1)
           /\ SameOutside(nodes, n, nx, pv, nx1, pv1)
<1>1. PICK p, x : p = pv[n] /\ x = nx[n]
  OBVIOUS
<1>2. /\ n \in 1 .. N /\ p \in nodes \cup {0} /\ p \in 0 .. N /\ p < n /\ p # n
      /\ \A r \in nodes : r < n => r <= p
  <2>1. p \in nodes \cup {0} /\ p < n /\ \A r \in nodes : r < n => r <= p
    BY <1>1 DEF Linked, PrevIn
  <2>2. n \in 1 .. N /\ p \in 0 .. N
    BY SMT, <2>1
  <2>3. p # n
    BY SMT, <2>1, <2>2
  <2> QED
    BY <2>1, <2>2, <2>3
<1>3. IF x = Nil THEN AtEnd(nodes, n) ELSE Follows(nodes, n, x)
  BY <1>1 DEF Linked, NextIn
<1>4. /\ nx1 = [nx EXCEPT ![p] = x]
      /\ pv1 = IF x = Nil THEN pv ELSE [pv EXCEPT ![x] = p]
  BY <1>1 DEF CutNext, CutPrev
<1>5. nx \in [0 .. N -> (1 .. N) \cup {Nil}] /\ pv \in [0 .. N -> (0 .. N) \cup {Nil}]
  BY DEF NextLinks, PrevLinks
<1>6. x \in (1 .. N) \cup {Nil} /\ x # n /\ 0 \notin nodes /\ Nil \notin 0 .. N
  BY SMT, <1>1, <1>2, <1>3, <1>5 DEF Follows, Nil
<1>7. nx1 \in NextLinks(N) /\ pv1 \in PrevLinks(N)
  <2>1. nx1 \in NextLinks(N)
    BY SMT, <1>2, <1>4, <1>5, <1>6 DEF NextLinks
  <2>2. pv1 \in PrevLinks(N)
    BY SMT, <1>2, <1>4, <1>5, <1>6 DEF PrevLinks
  <2> QED
    BY <2>1, <2>2
<1>8. /\ nx1[p] = x /\ \A a \in 0 .. N : a # p => nx1[a] = nx[a]
      /\ x # Nil => pv1[x] = p
      /\ \A a \in 0 .. N : a # x => pv1[a] = pv[a]
  BY SMT, <1>2, <1>4, <1>5, <1>6
<1>9. ASSUME NEW a \in (nodes \ {n}) \cup {0} PROVE NextIn(nodes \ {n}, nx1, a)
  <2>1. a \in 0 .. N /\ NextIn(nodes, nx, a)
    BY SMT DEF Linked
  <2>2. CASE a = p
    <3>1. CASE x = Nil
      <4>1. AtEnd(nodes, n) /\ nx1[a] = Nil
        BY <1>3, <1>8, <2>2, <3>1
      <4>2. AtEnd(nodes \ {n}, a)
        BY SMT, <1>2, <2>2, <4>1 DEF AtEnd
      <4> QED
        BY <4>1, <4>2 DEF NextIn
    <3>2. CASE x # Nil
      <4>1. Follows(nodes, n, x) /\ nx1[a] = x
        BY <1>3, <1>8, <2>2, <3>2
      <4>2. Follows(nodes \ {n}, a, x)
        BY SMT, <1>2, <1>6, <2>2, <4>1 DEF Follows
      <4> QED
        BY <3>2, <4>1, <4>2 DEF NextIn
    <3> QED
      BY <3>1, <3>2
  <2>3. CASE a # p
    <3>1. nx1[a] = nx[a]
      BY <1>8, <2>1, <2>3
    <3>2. nx[a] # n
      BY SMT, <1>2, <1>6, <2>1, <2>3 DEF NextIn, Follows, Nil
    <3> QED
      BY SMT, <2>1, <3>1, <3>2 DEF NextIn, AtEnd, Follows
  <2> QED
    BY <2>2, <2>3
<1>10. ASSUME NEW a \in nodes \ {n} PROVE PrevIn(nodes \ {n}, pv1, a)
  <2>1. a \in 1 .. N /\ a \in 0 .. N /\ PrevIn(nodes, pv, a)
    BY SMT DEF Linked
  <2>2. CASE a = x
    BY SMT, <1>2, <1>3, <1>6, <1>8, <2>1, <2>2 DEF PrevIn, Follows, Nil
  <2>3. CASE a # x
    <3>1. pv1[a] = pv[a]
      BY <1>8, <2>1, <2>3
    <3>2. SUFFICES ASSUME pv[a] = n PROVE FALSE
      BY SMT, <2>1, <3>1 DEF PrevIn
    <3>3. n < a /\ \A r \in nodes : r < a => r <= n
      BY <2>1, <3>2 DEF PrevIn
    <3>4. x # Nil
      BY SMT, <1>2, <1>3, <2>1, <3>3 DEF AtEnd
    <3>5. x \in nodes /\ n < x /\ \A r \in nodes : n < r => x <= r
      BY <1>3, <3>4 DEF Follows
    <3> QED
      BY SMT, <1>2, <2>1, <2>3, <3>3, <3>5
  <2> QED
    BY <2>2, <2>3
<1>11. SameOutside(nodes, n, nx, pv, nx1, pv1)
  <2>1. DOMAIN nx = 0 .. N /\ DOMAIN pv = 0 .. N
    BY <1>5
  <2>2. x # Nil => x \in nodes
    BY <1>3 DEF Follows
  <2> QED
    BY <1>2, <1>6, <1>8, <2>1, <2>2 DEF SameOutside
<1> QED
  BY <1>7, <1>9, <1>10, <1>11 DEF Linked

\* With n put back they make the list they made before.
LEMMA PasteNode ==
    ASSUME NEW N \in Nat, NEW nodes \in SUBSET (1 .. N), NEW nx \in NextLinks(N),
           NEW pv \in PrevLinks(N), NEW n \in nodes, Linked(nodes \ {n}, nx, pv),
           NextIn(nodes, nx, n), PrevIn(nodes, pv, n),
           NEW nx1, NEW pv1, nx1 = PasteNext(nx, pv, n), pv1 = PastePrev(nx, pv, n)
    PROVE  /\ nx1 \in NextLinks(N) /\ pv1 \in PrevLinks(N) /\ Linked(nodes, nx1, pv1)
           /\ SameOutside(nodes, n, nx, pv, nx1, pv1)
<1>1. PICK p, x : p = pv[n] /\ x = nx[n]
  OBVIOUS
<1>2. /\ n \in 1 .. N /\ p \in nodes \cup {0} /\ p \in 0 .. N /\ p < n /\ p # n
      /\ \A r \in nodes : r < n => r <= p
  <2>1. p \in nodes \cup {0} /\ p < n /\ \A r \in nodes : r < n => r <= p
    BY <1>1 DEF PrevIn
  <2>2. n \in 1 .. N /\ p \in 0 .. N
    BY SMT, <2>1
  <2>3. p # n
    BY SMT, <2>1, <2>2
  <2> QED
    BY <2>1, <2>2, <2>3
<1>3. IF x = Nil THEN AtEnd(nodes, n) ELSE Follows(nodes, n, x)
  BY <1>1 DEF NextIn
<1>4. /\ nx1 = [nx EXCEPT ![p] = n]
      /\ pv1 = IF x = Nil THEN pv ELSE [pv EXCEPT ![x] = n]
  BY <1>1 DEF PasteNext, PastePrev
<1>5. nx \in [0 .. N -> (1 .. N) \cup {Nil}] /\ pv \in [0 .. N -> (0 .. N) \cup {Nil}]
  BY DEF NextLinks, PrevLinks
<1>6. x \in (1 .. N) \cup {Nil} /\ x # n /\ 0 \notin nodes /\ Nil \notin 0 .. N
  BY SMT, <1>1, <1>2, <1>3, <1>5 DEF Follows, Nil
<1>7. nx1 \in NextLinks(N) /\ pv1 \in PrevLinks(N)
  <2>1. nx1 \in NextLinks(N)
    BY SMT, <1>2, <1>4, <1>5, <1>6 DEF NextLinks
  <2>2. pv1 \in PrevLinks(N)
    BY SMT, <1>2, <1>4, <1>5, <1>6 DEF PrevLinks
  <2> QED
    BY <2>1, <2>2
<1>8. /\ nx1[p] = n /\ \A a \in 0 .. N : a # p => nx1[a] = nx[a]
      /\ x # Nil => pv1[x] = n
      /\ \A a \in 0 .. N : a # x => pv1[a] = pv[a]
  BY SMT, <1>2, <1>4, <1>5, <1>6
<1>9. ASSUME NEW a \in nodes \cup {0} PROVE NextIn(nodes, nx1, a)
  <2>1. a \in 0 .. N
    BY SMT
  <2>2. CASE a = p
    <3>1. Follows(nodes, a, n) /\ nx1[a] = n
      BY SMT, <1>2, <1>8, <2>2 DEF Follows
    <3>2. n # Nil
      BY SMT, <1>2 DEF Nil
    <3> QED
      BY <3>1, <3>2 DEF NextIn
  <2>3. CASE a = n
    BY <1>2, <1>8, <2>1, <2>3 DEF NextIn
  <2>4. CASE a # p /\ a # n
    <3>1. nx1[a] = nx[a] /\ NextIn(nodes \ {n}, nx, a)
      BY <1>8, <2>1, <2>4 DEF Linked
    <3>2. CASE n < a
      BY SMT, <1>2, <2>1, <3>1, <3>2 DEF NextIn, AtEnd, Follows
    <3>3. CASE a < n
      <4>1. a < p /\ p \in nodes \ {n}
        BY SMT, <1>2, <2>1, <2>4, <3>3
      <4>2. nx[a] # Nil /\ nx[a] \in nodes \ {n} /\ nx[a] <= p
        BY SMT, <1>2, <2>1, <3>1, <4>1 DEF NextIn, AtEnd, Follows
      <4>3. Follows(nodes \ {n}, a, nx[a])
        BY <3>1, <4>2 DEF NextIn
      <4>4. nx[a] <= n
        <5>1. PICK y \in nodes : y = nx[a] /\ y <= p
          BY <4>2
        <5> QED
          BY SMT, <1>2, <5>1
      <4>5. Follows(nodes, a, nx[a])
        BY <4>2, <4>3, <4>4 DEF Follows
      <4> QED
        BY <3>1, <4>2, <4>5 DEF NextIn
    <3>4. n < a \/ a < n
      BY SMT, <1>2, <2>1, <2>4
    <3> QED
      BY <3>2, <3>3, <3>4
  <2> QED
    BY <2>2, <2>3, <2>4
<1>10. ASSUME NEW a \in nodes PROVE PrevIn(nodes, pv1, a)
  <2>1. a \in 1 .. N /\ a \in 0 .. N
    BY SMT
  <2>2. CASE a = x
    <3>1. x # Nil
      BY <1>6, <2>1, <2>2
    <3>2. Follows(nodes, n, a) /\ pv1[a] = n
      BY <1>3, <1>8, <2>2, <3>1
    <3> QED
      BY SMT, <1>2, <2>1, <3>2 DEF PrevIn, Follows
  <2>3. CASE a = n
    <3>1. pv1[a] = pv[a]
      BY <1>6, <1>8, <2>1, <2>3
    <3> QED
      BY <2>3, <3>1 DEF PrevIn
  <2>4. CASE a # x /\ a # n
    <3>1. pv1[a] = pv[a] /\ PrevIn(nodes \ {n}, pv, a)
      BY <1>8, <2>1, <2>4 DEF Linked
    <3>2. CASE a < n
      BY SMT, <1>2, <2>1, <3>1, <3>2 DEF PrevIn
    <3>3. CASE n < a
      <4>1. x # Nil
        BY SMT, <1>2, <1>3, <2>1, <3>3 DEF AtEnd
      <4>2. x \in nodes /\ n < x /\ x <= a
        BY SMT, <1>3, <3>3, <4>1 DEF Follows
      <4>3. x \in nodes \ {n} /\ x < a
        BY SMT, <1>2, <2>1, <2>4, <4>2
      <4>4. /\ pv[a] \in (nodes \ {n}) \cup {0} /\ pv[a] < a /\ x <= pv[a]
            /\ \A r \in nodes \ {n} : r < a => r <= pv[a]
        BY <3>1, <4>3 DEF PrevIn
      <4>5. n <= pv[a]
        <5>1. PICK y \in nodes \cup {0} : y = pv[a] /\ x <= y
          BY <4>4
        <5> QED
          BY SMT, <1>2, <4>2, <5>1
      <4> QED
        BY <3>1, <4>4, <4>5 DEF PrevIn
    <3>4. n < a \/ a < n
      BY SMT, <1>2, <2>1, <2>4
    <3> QED
      BY <3>2, <3>3, <3>4
  <2> QED
    BY <2>2, <2>3, <2>4
<1>11. SameOutside(nodes, n, nx, pv, nx1, pv1)
  <2>1. DOMAIN nx = 0 .. N /\ DOMAIN pv = 0 .. N
    BY <1>5
  <2>2. x # Nil => x \in nodes
    BY <1>3 DEF Follows
  <2> QED
    BY <1>2, <1>6, <1>8, <2>1, <2>2 DEF SameOutside
<1> QED
  BY <1>7, <1>9, <1>10, <1>11 DEF Linked

\* lift() takes both nodes out and leaves them the links they need.
Lifted(N, nodes, nx, pv, n, m, nx2, pv2) ==
    /\ nx2 \in NextLinks(N) /\ pv2 \in PrevLinks(N)
    /\ Linked(nodes \ {n, m}, nx2, pv2) /\ Saved(nodes, nx2, pv2, n, m)
    /\ \A r \in (1 .. N) \ nodes : nx2[r] = nx[r] /\ pv2[r] = pv[r]

LEMMA LiftFacts ==
    ASSUME NEW N \in Nat, NEW nodes \in SUBSET (1 .. N), NEW nx \in NextLinks(N),
           NEW pv \in PrevLinks(N), Linked(nodes, nx, pv),
           NEW n \in nodes, NEW m \in nodes, n < m,
           NEW nx2, NEW pv2, lift(nx, pv, n, m) = <<nx2, pv2>>
    PROVE  Lifted(N, nodes, nx, pv, n, m, nx2, pv2)
<1>1. PICK nx1, pv1 : nx1 = CutNext(nx, pv, n) /\ pv1 = CutPrev(nx, pv, n)
  OBVIOUS
<1>2. n \in 1 .. N /\ m \in 1 .. N /\ n # m /\ n \in 0 .. N /\ m \in 0 .. N /\ 0 \notin nodes
  BY SMT
<1>3. /\ nx1 \in NextLinks(N) /\ pv1 \in PrevLinks(N) /\ Linked(nodes \ {n}, nx1, pv1)
      /\ SameOutside(nodes, n, nx, pv, nx1, pv1)
  BY SMT, <1>1, CutNode
<1>4. nx[n] # Nil
  <2>1. ~AtEnd(nodes, n)
    BY SMT, <1>2 DEF AtEnd
  <2> QED
    BY <2>1 DEF Linked, NextIn
<1>5. nx2 = CutNext(nx1, pv1, m) /\ pv2 = CutPrev(nx1, pv1, m)
  <2>1. nx1 = [nx EXCEPT ![pv[n]] = nx[n]] /\ pv1 = [pv EXCEPT ![nx[n]] = pv[n]]
    BY <1>1, <1>4 DEF CutNext, CutPrev
  <2>2. lift(nx, pv, n, m) = <<CutNext(nx1, pv1, m), CutPrev(nx1, pv1, m)>>
    BY <2>1 DEF CutNext, CutPrev, lift
  <2> QED
    BY SMT, <2>2
<1>6. nodes \ {n} \in SUBSET (1 .. N) /\ m \in nodes \ {n}
  BY <1>2
<1>7. /\ nx2 \in NextLinks(N) /\ pv2 \in PrevLinks(N) /\ Linked((nodes \ {n}) \ {m}, nx2, pv2)
      /\ SameOutside(nodes \ {n}, m, nx1, pv1, nx2, pv2)
  <2> DEFINE rest == nodes \ {n}
  <2>1. rest \in SUBSET (1 .. N) /\ m \in rest /\ Linked(rest, nx1, pv1)
    BY <1>3, <1>6
  <2> HIDE DEF rest
  <2>2. /\ nx2 \in NextLinks(N) /\ pv2 \in PrevLinks(N) /\ Linked(rest \ {m}, nx2, pv2)
        /\ SameOutside(rest, m, nx1, pv1, nx2, pv2)
    BY <1>3, <1>5, <2>1, CutNode
  <2> QED
    BY <2>2 DEF rest
<1>8. (nodes \ {n}) \ {m} = nodes \ {n, m}
  OBVIOUS
<1>9. /\ DOMAIN nx = 0 .. N /\ DOMAIN pv = 0 .. N
      /\ DOMAIN nx1 = 0 .. N /\ DOMAIN pv1 = 0 .. N
  BY <1>3 DEF NextLinks, PrevLinks
<1>10. ASSUME NEW r \in (1 .. N) \ nodes PROVE nx2[r] = nx[r] /\ pv2[r] = pv[r]
  <2>1. r \in 0 .. N /\ r # 0
    BY SMT
  <2> QED
    BY <1>3, <1>7, <1>9, <2>1 DEF SameOutside
<1>11. nx2[n] = nx[n] /\ pv2[n] = pv[n] /\ nx2[m] = nx1[m] /\ pv2[m] = pv1[m]
  <2>1. nx1[n] = nx[n] /\ pv1[n] = pv[n]
    BY <1>2, <1>3, <1>9 DEF SameOutside
  <2>2. n \notin (nodes \ {n}) \cup {0} /\ n \notin nodes \ {n}
    BY <1>2
  <2> QED
    BY <1>2, <1>7, <1>9, <2>1, <2>2 DEF SameOutside
<1>12. Saved(nodes, nx2, pv2, n, m)
  <2>1. NextIn(nodes, nx2, n) /\ PrevIn(nodes, pv2, n)
    BY <1>11 DEF Linked, NextIn, PrevIn
  <2>2. NextIn(nodes \ {n}, nx1, m) /\ PrevIn(nodes \ {n}, pv1, m)
    BY <1>3, <1>6 DEF Linked
  <2>3. PrevIn(nodes \ {n}, pv2, m)
    BY <1>11, <2>2 DEF PrevIn
  <2>4. NextIn(nodes, nx2, m)
    <3>1. \A r \in nodes : m < r \/ ~(r <= m) => r \in nodes \ {n}
      BY SMT, <1>2
    <3> QED
      BY <1>11, <2>2, <3>1 DEF NextIn, AtEnd, Follows
  <2> QED
    BY <2>1, <2>3, <2>4 DEF Saved
<1> QED
  BY <1>7, <1>8, <1>10, <1>12 DEF Lifted

\* unlift() puts them back.
Unlifted(N, nodes, nx, pv, nx2, pv2) ==
    /\ nx2 \in NextLinks(N) /\ pv2 \in PrevLinks(N) /\ Linked(nodes, nx2, pv2)
    /\ \A r \in (1 .. N) \ nodes : nx2[r] = nx[r] /\ pv2[r] = pv[r]

LEMMA UnliftFacts ==
    ASSUME NEW N \in Nat, NEW nodes \in SUBSET (1 .. N), NEW nx \in NextLinks(N),
           NEW pv \in PrevLinks(N), NEW n \in nodes, NEW m \in nodes, n < m,
           Linked(nodes \ {n, m}, nx, pv), Saved(nodes, nx, pv, n, m),
           NEW nx2, NEW pv2, unlift(nx, pv, n, m) = <<nx2, pv2>>
    PROVE  Unlifted(N, nodes, nx, pv, nx2, pv2)
<1>1. PICK nx1, pv1 : nx1 = PasteNext(nx, pv, m) /\ pv1 = PastePrev(nx, pv, m)
  OBVIOUS
<1>2. n \in 1 .. N /\ m \in 1 .. N /\ n # m /\ n \in 0 .. N /\ m \in 0 .. N /\ 0 \notin nodes
  BY SMT
<1>3. /\ nx1 \in NextLinks(N) /\ pv1 \in PrevLinks(N) /\ Linked(nodes \ {n}, nx1, pv1)
      /\ SameOutside(nodes \ {n}, m, nx, pv, nx1, pv1)
  <2> DEFINE rest == nodes \ {n}
  <2>1. rest \in SUBSET (1 .. N) /\ m \in rest /\ rest \ {m} = nodes \ {n, m}
    BY <1>2
  <2>2. PrevIn(rest, pv, m)
    BY DEF Saved
  <2>3. NextIn(rest, nx, m)
    <3>1. \A r \in nodes : m < r => r # n
      BY SMT, <1>2
    <3>2. NextIn(nodes, nx, m)
      BY DEF Saved
    <3> QED
      BY <3>1, <3>2 DEF NextIn, AtEnd, Follows
  <2>4. Linked(rest \ {m}, nx, pv)
    BY <2>1
  <2> HIDE DEF rest
  <2>5. /\ nx1 \in NextLinks(N) /\ pv1 \in PrevLinks(N) /\ Linked(rest, nx1, pv1)
        /\ SameOutside(rest, m, nx, pv, nx1, pv1)
    BY <1>1, <2>1, <2>2, <2>3, <2>4, PasteNode
  <2> QED
    BY <2>5 DEF rest
<1>4. /\ DOMAIN nx = 0 .. N /\ DOMAIN pv = 0 .. N
      /\ DOMAIN nx1 = 0 .. N /\ DOMAIN pv1 = 0 .. N
  BY <1>3 DEF NextLinks, PrevLinks
<1>5. nx1[n] = nx[n] /\ pv1[n] = pv[n]
  <2>1. n \notin (nodes \ {n}) \cup {0} /\ n \notin nodes \ {n}
    BY <1>2
  <2> QED
    BY <1>2, <1>3, <1>4, <2>1 DEF SameOutside
<1>6. NextIn(nodes, nx1, n) /\ PrevIn(nodes, pv1, n)
  BY <1>5 DEF Saved, NextIn, PrevIn
<1>7. nx1[n] # Nil
  <2>1. ~AtEnd(nodes, n)
    BY SMT, <1>2 DEF AtEnd
  <2> QED
    BY <1>6, <2>1 DEF NextIn
<1>8. nx2 = PasteNext(nx1, pv1, n) /\ pv2 = PastePrev(nx1, pv1, n)
  <2>1. unlift(nx, pv, n, m) = <<PasteNext(nx1, pv1, n), PastePrev(nx1, pv1, n)>>
    BY <1>1, <1>7 DEF PasteNext, PastePrev, unlift
  <2> QED
    BY SMT, <2>1
<1>9. /\ nx2 \in NextLinks(N) /\ pv2 \in PrevLinks(N) /\ Linked(nodes, nx2, pv2)
      /\ SameOutside(nodes, n, nx1, pv1, nx2, pv2)
  BY <1>3, <1>6, <1>8, PasteNode
<1>10. ASSUME NEW r \in (1 .. N) \ nodes PROVE nx2[r] = nx[r] /\ pv2[r] = pv[r]
  <2>1. r \in 0 .. N /\ r # 0
    BY SMT
  <2> QED
    BY <1>3, <1>4, <1>9, <2>1 DEF SameOutside
<1> QED
  BY <1>9, <1>10 DEF Unlifted

-----------------------------------------------------------------------------
(***************************************************************************)
(* The stack.                                                              *)
(***************************************************************************)

\* Stack cs1 is cs with c on top.
OnTop(cs, c, cs1) ==
    /\ IsStack(cs) /\ IsStack(cs1) /\ Len(cs1) = Len(cs) + 1 /\ cs1[Len(cs1)] = c
    /\ \A j \in 1 .. Len(cs) : cs1[j] = cs[j]

\* Linearize pushes a call.
LEMMA Push ==
    ASSUME NEW cs, IsStack(cs), NEW c
    PROVE  OnTop(cs, c, Append(cs, c))
<1> DEFINE S == {cs[j] : j \in 1 .. Len(cs)} \cup {c}
           cs1 == Append(cs, c)
<1>1. c \in S /\ \A j \in 1 .. Len(cs) : cs[j] \in S
  OBVIOUS
<1>2. cs \in Seq(S) /\ Len(cs) \in Nat /\ DOMAIN cs = 1 .. Len(cs)
  <2> HIDE DEF S
  <2>1. Len(cs) \in Nat /\ DOMAIN cs = 1 .. Len(cs)
    BY DEF IsStack
  <2>2. cs = [j \in 1 .. Len(cs) |-> cs[j]]
    BY SMT DEF IsStack
  <2> QED
    BY SMT, <1>1, <2>1, <2>2
<1> HIDE DEF S
<1>3. /\ cs1 \in Seq(S) /\ Len(cs1) = Len(cs) + 1 /\ cs1[Len(cs) + 1] = c
      /\ \A j \in 1 .. Len(cs) : cs1[j] = cs[j]
  BY SMT, <1>1, <1>2
<1> HIDE DEF cs1
<1>4. IsStack(cs1)
  <2>1. Len(cs1) \in Nat /\ DOMAIN cs1 = 1 .. Len(cs1)
    BY SMT, <1>3
  <2>2. cs1 = [j \in 1 .. Len(cs1) |-> cs1[j]]
    BY SMT, <1>3
  <2>3. cs1 \in [1 .. Len(cs1) -> {cs1[j] : j \in 1 .. Len(cs1)}]
    BY <2>2
  <2>4. cs1 \in Seq({cs1[j] : j \in 1 .. Len(cs1)})
    <3> DEFINE T == {cs1[j] : j \in 1 .. Len(cs1)}
    <3> HIDE DEF T
    <3> SUFFICES cs1 \in Seq(T)
      BY DEF T
    <3>1. cs1 \in [1 .. Len(cs1) -> T]
      BY <2>3 DEF T
    <3> QED
      BY SMT, <2>1, <3>1
  <2> QED
    BY <2>1, <2>4 DEF IsStack
<1> QED
  BY <1>3, <1>4 DEF OnTop, cs1

\* Backtrack pops one.
LEMMA Pop ==
    ASSUME NEW cs1, IsStack(cs1), cs1 # <<>>
    PROVE  Len(cs1) \in 1 .. Len(cs1) /\ OnTop(SubSeq(cs1, 1, Len(cs1) - 1), cs1[Len(cs1)], cs1)
<1> DEFINE S == {cs1[j] : j \in 1 .. Len(cs1)}
           cs == SubSeq(cs1, 1, Len(cs1) - 1)
<1>1. cs1 \in Seq(S)
  BY DEF IsStack
<1> HIDE DEF S
<1>2. /\ Len(cs1) \in 1 .. Len(cs1) /\ Len(cs) \in Nat /\ Len(cs1) = Len(cs) + 1
      /\ DOMAIN cs = 1 .. Len(cs) /\ cs = [j \in 1 .. Len(cs) |-> cs[j]]
      /\ \A j \in 1 .. Len(cs) : cs1[j] = cs[j]
  BY SMT, <1>1
<1> HIDE DEF cs
<1>3. IsStack(cs)
  <2>1. cs \in Seq({cs[j] : j \in 1 .. Len(cs)})
    <3> DEFINE T == {cs[j] : j \in 1 .. Len(cs)}
    <3>1. cs \in [1 .. Len(cs) -> T]
      BY <1>2
    <3> HIDE DEF T
    <3> SUFFICES cs \in Seq(T)
      BY DEF T
    <3> QED
      BY SMT, <1>2, <3>1
  <2> QED
    BY <1>2, <2>1 DEF IsStack
<1> QED
  BY <1>2, <1>3 DEF OnTop, cs

\* The levels below the top do not change.
SameBelow(es, cs, c, v, cs1, v1) ==
    /\ Len(cs) \in Nat /\ Len(cs1) = Len(cs) + 1
    /\ \A d \in 0 .. Len(cs) : /\ Done(es, cs1, d) = Done(es, cs, d)
                               /\ Left(es, cs1, d) = Left(es, cs, d)
                               /\ ValueAt(cs1, v1, d) = ValueAt(cs, v, d)
    /\ Done(es, cs1, Len(cs1)) = Done(es, cs, Len(cs)) \cup {es[c.entry].id}
    /\ ValueAt(cs, v, Len(cs)) = v /\ ValueAt(cs1, v1, Len(cs1)) = v1

LEMMA Levels ==
    ASSUME NEW es, NEW cs, NEW c, NEW cs1, OnTop(cs, c, cs1), NEW v, NEW v1, c.state = v
    PROVE  SameBelow(es, cs, c, v, cs1, v1)
<1>1. /\ Len(cs) \in Nat /\ Len(cs1) = Len(cs) + 1 /\ cs1[Len(cs1)] = c
      /\ \A j \in 1 .. Len(cs) : cs1[j] = cs[j]
  BY DEF OnTop, IsStack
<1>2. ASSUME NEW d \in 0 .. Len(cs) PROVE Done(es, cs1, d) = Done(es, cs, d)
  <2>1. \A j \in 1 .. d : j \in 1 .. Len(cs)
    BY SMT, <1>1
  <2> QED
    BY <1>1, <2>1 DEF Done
<1>3. ASSUME NEW d \in 0 .. Len(cs) PROVE ValueAt(cs1, v1, d) = ValueAt(cs, v, d)
  <2>1. CASE d = Len(cs)
    BY SMT, <1>1, <2>1 DEF ValueAt
  <2>2. CASE d < Len(cs)
    <3>1. d + 1 \in 1 .. Len(cs) /\ d < Len(cs1)
      BY SMT, <1>1, <2>2
    <3> QED
      BY <1>1, <2>2, <3>1 DEF ValueAt
  <2> QED
    BY SMT, <1>1, <2>1, <2>2
<1>4. Done(es, cs1, Len(cs1)) = Done(es, cs, Len(cs)) \cup {es[c.entry].id}
  <2>1. \A j : j \in 1 .. Len(cs1) <=> j \in 1 .. Len(cs) \/ j = Len(cs1)
    BY SMT, <1>1
  <2> QED
    BY <1>1, <2>1 DEF Done
<1>5. ~(Len(cs) < Len(cs)) /\ ~(Len(cs1) < Len(cs1))
  BY SMT, <1>1
<1>6. ValueAt(cs, v, Len(cs)) = v /\ ValueAt(cs1, v1, Len(cs1)) = v1
  BY <1>5 DEF ValueAt
<1>7. ASSUME NEW d \in 0 .. Len(cs) PROVE Left(es, cs1, d) = Left(es, cs, d)
  BY <1>2 DEF Left
<1> QED
  BY <1>1, <1>2, <1>3, <1>4, <1>6, <1>7 DEF SameBelow

LEMMA StackPush ==
    ASSUME NEW h, NEW es, NEW cs, NEW c, NEW cs1, OnTop(cs, c, cs1), NEW v, NEW v1, c.state = v,
           StackOK(h, es, cs, v), MayCome(h, es, Done(es, cs, Len(cs)), v, c.entry, v1)
    PROVE  StackOK(h, es, cs1, v1)
<1>1. /\ Len(cs) \in Nat /\ Len(cs1) = Len(cs) + 1
      /\ \A d \in 0 .. Len(cs) : /\ Done(es, cs1, d) = Done(es, cs, d)
                                 /\ ValueAt(cs1, v1, d) = ValueAt(cs, v, d)
      /\ ValueAt(cs, v, Len(cs)) = v /\ ValueAt(cs1, v1, Len(cs1)) = v1
  <2>1. SameBelow(es, cs, c, v, cs1, v1)
    BY Levels
  <2> QED
    BY <2>1 DEF SameBelow
<1>2. /\ IsStack(cs1) /\ cs1[Len(cs1)] = c /\ \A j \in 1 .. Len(cs) : cs1[j] = cs[j]
  BY DEF OnTop
<1>3. 0 \in 0 .. Len(cs) /\ Len(cs) \in 0 .. Len(cs) /\ Len(cs1) - 1 = Len(cs)
  BY SMT, <1>1
<1>4. ASSUME NEW d \in 1 .. Len(cs1)
      PROVE  MayCome(h, es, Done(es, cs1, d - 1), ValueAt(cs1, v1, d - 1),
                     cs1[d].entry, ValueAt(cs1, v1, d))
  <2>1. CASE d = Len(cs1)
    BY <1>1, <1>2, <1>3, <2>1
  <2>2. CASE d # Len(cs1)
    <3>1. d \in 1 .. Len(cs) /\ d \in 0 .. Len(cs) /\ d - 1 \in 0 .. Len(cs)
      BY SMT, <1>1, <2>2
    <3> QED
      BY <1>1, <1>2, <3>1 DEF StackOK
  <2> QED
    BY <2>1, <2>2
<1>5. ValueAt(cs1, v1, 0) = <<>>
  BY <1>1, <1>3 DEF StackOK
<1> QED
  BY <1>2, <1>4, <1>5 DEF StackOK

LEMMA StackPop ==
    ASSUME NEW h, NEW es, NEW cs, NEW c, NEW cs1, OnTop(cs, c, cs1), NEW v, NEW v1, c.state = v,
           StackOK(h, es, cs1, v1)
    PROVE  StackOK(h, es, cs, v) /\ MayCome(h, es, Done(es, cs, Len(cs)), v, c.entry, v1)
<1>1. /\ Len(cs) \in Nat /\ Len(cs1) = Len(cs) + 1
      /\ \A d \in 0 .. Len(cs) : /\ Done(es, cs1, d) = Done(es, cs, d)
                                 /\ ValueAt(cs1, v1, d) = ValueAt(cs, v, d)
      /\ ValueAt(cs, v, Len(cs)) = v /\ ValueAt(cs1, v1, Len(cs1)) = v1
  <2>1. SameBelow(es, cs, c, v, cs1, v1)
    BY Levels
  <2> QED
    BY <2>1 DEF SameBelow
<1>2. /\ IsStack(cs) /\ cs1[Len(cs1)] = c /\ \A j \in 1 .. Len(cs) : cs1[j] = cs[j]
  BY DEF OnTop
<1>3. /\ 0 \in 0 .. Len(cs) /\ Len(cs) \in 0 .. Len(cs) /\ Len(cs1) - 1 = Len(cs)
      /\ Len(cs1) \in 1 .. Len(cs1)
  BY SMT, <1>1
<1>4. \A d \in 1 .. Len(cs1) :
         MayCome(h, es, Done(es, cs1, d - 1), ValueAt(cs1, v1, d - 1),
                 cs1[d].entry, ValueAt(cs1, v1, d))
  BY DEF StackOK
<1>5. MayCome(h, es, Done(es, cs, Len(cs)), v, c.entry, v1)
  <2>1. MayCome(h, es, Done(es, cs1, Len(cs1) - 1), ValueAt(cs1, v1, Len(cs1) - 1),
                cs1[Len(cs1)].entry, ValueAt(cs1, v1, Len(cs1)))
    BY <1>3, <1>4
  <2>2. /\ Done(es, cs1, Len(cs1) - 1) = Done(es, cs, Len(cs))
        /\ ValueAt(cs1, v1, Len(cs1) - 1) = v
    BY <1>1, <1>3
  <2> QED
    BY SMT, <1>1, <1>2, <2>1, <2>2
<1>6. ASSUME NEW d \in 1 .. Len(cs)
      PROVE  MayCome(h, es, Done(es, cs, d - 1), ValueAt(cs, v, d - 1),
                     cs[d].entry, ValueAt(cs, v, d))
  <2>1. d \in 1 .. Len(cs1) /\ d \in 0 .. Len(cs) /\ d - 1 \in 0 .. Len(cs)
    BY SMT, <1>1
  <2>2. /\ Done(es, cs1, d - 1) = Done(es, cs, d - 1)
        /\ ValueAt(cs1, v1, d - 1) = ValueAt(cs, v, d - 1)
        /\ ValueAt(cs1, v1, d) = ValueAt(cs, v, d) /\ cs1[d] = cs[d]
    BY <1>1, <1>2, <2>1
  <2>3. MayCome(h, es, Done(es, cs1, d - 1), ValueAt(cs1, v1, d - 1),
                cs1[d].entry, ValueAt(cs1, v1, d))
    BY <1>4, <2>1
  <2> QED
    BY SMT, <2>2, <2>3
<1>7. ValueAt(cs, v, 0) = <<>>
  BY <1>1, <1>3 DEF StackOK
<1> QED
  BY <1>2, <1>5, <1>6, <1>7 DEF StackOK

\* The nodes that are left once a call and its return are taken out.
TakenOut(es, set, n, m) ==
    /\ n < m /\ m \in NodesWithout(es, set)
    /\ NodesWithout(es, set \cup {es[n].id}) = NodesWithout(es, set) \ {n, m}

LEMMA LeftWithout ==
    ASSUME NEW h, IsHistory(h), NEW k, NEW es, Sorted(h, k, es), NEW set,
           NEW n \in NodesWithout(es, set), es[n].kind = "call",
           NEW m \in 1 .. Len(es), ReturnOf(es, n, m)
    PROVE  TakenOut(es, set, n, m)
<1>1. n \in 1 .. Len(es)
  BY DEF NodesWithout
<1>2. PICK l \in 1 .. Len(es) :
         /\ ReturnOf(es, n, l) /\ n < l
         /\ \A q \in 1 .. Len(es) : ReturnOf(es, n, q) => q = l
         /\ \A q \in 1 .. Len(es) : es[q].id = es[n].id => q = n \/ q = l
  BY SMT, <1>1, ReturnFacts
<1>3. l = m
  BY <1>2
<1>4. m \in NodesWithout(es, set) /\ es[m].id = es[n].id
  BY DEF NodesWithout, ReturnOf
<1>5. NodesWithout(es, set \cup {es[n].id}) = NodesWithout(es, set) \ {n, m}
  BY <1>1, <1>2, <1>3, <1>4 DEF NodesWithout
<1> QED
  BY <1>2, <1>3, <1>4, <1>5 DEF TakenOut

\* The node of a call of the stack, and that of its return, are not left.
LEMMA NotLeft ==
    ASSUME NEW h, NEW es, NEW cs, NEW v, StackOK(h, es, cs, v), NEW d \in 1 .. Len(cs),
           NEW m \in 1 .. Len(es), ReturnOf(es, cs[d].entry, m)
    PROVE  /\ cs[d].entry \in (1 .. Len(es)) \ Left(es, cs, Len(cs))
           /\ m \in (1 .. Len(es)) \ Left(es, cs, Len(cs))
<1>1. cs[d].entry \in 1 .. Len(es)
  BY DEF StackOK, MayCome, NodesWithout
<1>2. es[cs[d].entry].id \in Done(es, cs, Len(cs))
  BY DEF Done
<1> QED
  BY <1>1, <1>2 DEF Left, NodesWithout, ReturnOf

\* Saved looks only at the links of its two nodes.
LEMMA SavedSame ==
    ASSUME NEW nodes, NEW n, NEW m, NEW nx, NEW pv, NEW nx2, NEW pv2, Saved(nodes, nx, pv, n, m),
           nx2[n] = nx[n], pv2[n] = pv[n], nx2[m] = nx[m], pv2[m] = pv[m]
    PROVE  Saved(nodes, nx2, pv2, n, m)
BY DEF Saved, NextIn, PrevIn

\* lift() and unlift() keep LinksOK.
LEMMA LinksPush ==
    ASSUME NEW h, IsHistory(h), NEW k, NEW es, Sorted(h, k, es), NEW cs, NEW c, NEW cs1,
           OnTop(cs, c, cs1), NEW v, StackOK(h, es, cs, v),
           NEW nx, NEW pv, LinksOK(es, cs, nx, pv),
           NEW n, n = c.entry, n \in Left(es, cs, Len(cs)), es[n].kind = "call",
           NEW m \in 1 .. Len(es), ReturnOf(es, n, m),
           NEW nx2, NEW pv2, lift(nx, pv, n, m) = <<nx2, pv2>>
    PROVE  LinksOK(es, cs1, nx2, pv2)
<1> DEFINE nodes == Left(es, cs, Len(cs))
<1>1. Len(es) \in Nat /\ Len(cs) \in Nat /\ Len(cs1) = Len(cs) + 1
  BY SMT DEF Sorted, OnTop, IsStack
<1>2. /\ cs1[Len(cs1)] = c /\ \A j \in 1 .. Len(cs) : cs1[j] = cs[j]
      /\ \A d \in 0 .. Len(cs) : Left(es, cs1, d) = Left(es, cs, d)
      /\ Done(es, cs1, Len(cs1)) = Done(es, cs, Len(cs)) \cup {es[n].id}
  <2>1. SameBelow(es, cs, c, c.state, cs1, <<>>)
    BY Levels
  <2> QED
    BY <2>1 DEF SameBelow, OnTop
<1>3. /\ n < m /\ m \in nodes /\ n \in nodes
      /\ Left(es, cs1, Len(cs1)) = nodes \ {n, m}
  <2>1. n \in NodesWithout(es, Done(es, cs, Len(cs)))
    BY DEF Left
  <2>2. TakenOut(es, Done(es, cs, Len(cs)), n, m)
    BY <2>1, LeftWithout
  <2> QED
    BY <1>2, <2>1, <2>2 DEF Left, TakenOut
<1>4. nodes \in SUBSET (1 .. Len(es))
  BY DEF Left, NodesWithout
<1>5. /\ nx \in NextLinks(Len(es)) /\ pv \in PrevLinks(Len(es)) /\ Linked(nodes, nx, pv)
      /\ \A d \in 1 .. Len(cs) : \A q \in 1 .. Len(es) :
            ReturnOf(es, cs[d].entry, q) => Saved(Left(es, cs, d - 1), nx, pv, cs[d].entry, q)
  BY DEF LinksOK
<1> HIDE DEF nodes
<1>6. /\ nx2 \in NextLinks(Len(es)) /\ pv2 \in PrevLinks(Len(es))
      /\ Linked(nodes \ {n, m}, nx2, pv2) /\ Saved(nodes, nx2, pv2, n, m)
      /\ \A r \in (1 .. Len(es)) \ nodes : nx2[r] = nx[r] /\ pv2[r] = pv[r]
  <2>1. Lifted(Len(es), nodes, nx, pv, n, m, nx2, pv2)
    BY <1>1, <1>3, <1>4, <1>5, LiftFacts
  <2> QED
    BY <2>1 DEF Lifted
<1>7. ASSUME NEW d \in 1 .. Len(cs1), NEW q \in 1 .. Len(es), ReturnOf(es, cs1[d].entry, q)
      PROVE  Saved(Left(es, cs1, d - 1), nx2, pv2, cs1[d].entry, q)
  <2>1. CASE d = Len(cs1)
    <3>1. d - 1 = Len(cs) /\ Len(cs) \in 0 .. Len(cs)
      BY SMT, <1>1, <2>1
    <3>2. Left(es, cs1, d - 1) = nodes /\ cs1[d].entry = n
      BY <1>2, <2>1, <3>1 DEF nodes
    <3>3. q = m
      <4>1. ReturnOf(es, n, q)
        BY <1>7, <3>2
      <4> QED
        BY <4>1 DEF ReturnOf, Sorted
    <3> QED
      BY SMT, <1>6, <3>2, <3>3
  <2>2. CASE d # Len(cs1)
    <3>1. d \in 1 .. Len(cs) /\ d - 1 \in 0 .. Len(cs)
      BY SMT, <1>1, <2>2
    <3>2. Left(es, cs1, d - 1) = Left(es, cs, d - 1) /\ cs1[d] = cs[d]
      BY <1>2, <3>1
    <3>3. ReturnOf(es, cs[d].entry, q)
      BY <1>7, <3>2
    <3>4. Saved(Left(es, cs, d - 1), nx, pv, cs[d].entry, q)
      BY <1>5, <3>1, <3>3
    <3>5. cs[d].entry \in (1 .. Len(es)) \ nodes /\ q \in (1 .. Len(es)) \ nodes
      BY <3>1, <3>3, NotLeft DEF nodes
    <3>6. Saved(Left(es, cs, d - 1), nx2, pv2, cs[d].entry, q)
      BY <1>6, <3>4, <3>5, SavedSame
    <3> QED
      BY SMT, <3>2, <3>6
  <2> QED
    BY <2>1, <2>2
<1> QED
  BY <1>3, <1>6, <1>7 DEF LinksOK

LEMMA LinksPop ==
    ASSUME NEW h, IsHistory(h), NEW k, NEW es, Sorted(h, k, es), NEW cs, NEW c, NEW cs1,
           OnTop(cs, c, cs1), NEW v, StackOK(h, es, cs, v),
           NEW nx, NEW pv, LinksOK(es, cs1, nx, pv),
           NEW n, n = c.entry, n \in Left(es, cs, Len(cs)), es[n].kind = "call",
           NEW m \in 1 .. Len(es), ReturnOf(es, n, m),
           NEW nx2, NEW pv2, unlift(nx, pv, n, m) = <<nx2, pv2>>
    PROVE  LinksOK(es, cs, nx2, pv2)
<1> DEFINE nodes == Left(es, cs, Len(cs))
<1>1. Len(es) \in Nat /\ Len(cs) \in Nat /\ Len(cs1) = Len(cs) + 1
  BY SMT DEF Sorted, OnTop, IsStack
<1>2. /\ cs1[Len(cs1)] = c /\ \A j \in 1 .. Len(cs) : cs1[j] = cs[j]
      /\ \A d \in 0 .. Len(cs) : Left(es, cs1, d) = Left(es, cs, d)
      /\ Done(es, cs1, Len(cs1)) = Done(es, cs, Len(cs)) \cup {es[n].id}
  <2>1. SameBelow(es, cs, c, c.state, cs1, <<>>)
    BY Levels
  <2> QED
    BY <2>1 DEF SameBelow, OnTop
<1>3. /\ n < m /\ m \in nodes /\ n \in nodes
      /\ Left(es, cs1, Len(cs1)) = nodes \ {n, m}
  <2>1. n \in NodesWithout(es, Done(es, cs, Len(cs)))
    BY DEF Left
  <2>2. TakenOut(es, Done(es, cs, Len(cs)), n, m)
    BY <2>1, LeftWithout
  <2> QED
    BY <1>2, <2>1, <2>2 DEF Left, TakenOut
<1>4. nodes \in SUBSET (1 .. Len(es))
  BY DEF Left, NodesWithout
<1>5. /\ nx \in NextLinks(Len(es)) /\ pv \in PrevLinks(Len(es))
      /\ Linked(Left(es, cs1, Len(cs1)), nx, pv)
      /\ \A d \in 1 .. Len(cs1) : \A q \in 1 .. Len(es) :
            ReturnOf(es, cs1[d].entry, q) => Saved(Left(es, cs1, d - 1), nx, pv, cs1[d].entry, q)
  BY DEF LinksOK
<1>6. Linked(nodes \ {n, m}, nx, pv)
  BY <1>3, <1>5
<1>7. Saved(nodes, nx, pv, n, m)
  <2>1. /\ Len(cs1) \in 1 .. Len(cs1) /\ Len(cs1) - 1 = Len(cs) /\ Len(cs) \in 0 .. Len(cs)
    BY SMT, <1>1
  <2>2. Saved(Left(es, cs1, Len(cs1) - 1), nx, pv, cs1[Len(cs1)].entry, m)
    BY <1>2, <1>5, <2>1
  <2>3. Left(es, cs1, Len(cs1) - 1) = nodes
    BY <1>2, <2>1
  <2> QED
    BY SMT, <1>2, <2>2, <2>3
<1> HIDE DEF nodes
<1>8. /\ nx2 \in NextLinks(Len(es)) /\ pv2 \in PrevLinks(Len(es)) /\ Linked(nodes, nx2, pv2)
      /\ \A r \in (1 .. Len(es)) \ nodes : nx2[r] = nx[r] /\ pv2[r] = pv[r]
  <2>1. Unlifted(Len(es), nodes, nx, pv, nx2, pv2)
    BY <1>1, <1>3, <1>4, <1>5, <1>6, <1>7, UnliftFacts
  <2> QED
    BY <2>1 DEF Unlifted
<1>9. ASSUME NEW d \in 1 .. Len(cs), NEW q \in 1 .. Len(es), ReturnOf(es, cs[d].entry, q)
      PROVE  Saved(Left(es, cs, d - 1), nx2, pv2, cs[d].entry, q)
  <2>1. d \in 1 .. Len(cs1) /\ d - 1 \in 0 .. Len(cs)
    BY SMT, <1>1
  <2>2. Left(es, cs1, d - 1) = Left(es, cs, d - 1) /\ cs1[d] = cs[d]
    BY <1>2, <2>1
  <2>3. ReturnOf(es, cs1[d].entry, q)
    BY <1>9, <2>2
  <2>4. Saved(Left(es, cs1, d - 1), nx, pv, cs1[d].entry, q)
    BY <1>5, <2>1, <2>3
  <2>5. Saved(Left(es, cs, d - 1), nx, pv, cs[d].entry, q)
    BY SMT, <2>2, <2>4
  <2>6. cs[d].entry \in (1 .. Len(es)) \ nodes /\ q \in (1 .. Len(es)) \ nodes
    BY <1>9, NotLeft DEF nodes
  <2> QED
    BY <1>8, <2>5, <2>6, SavedSame
<1> QED
  BY <1>8, <1>9 DEF LinksOK, nodes

-----------------------------------------------------------------------------
(***************************************************************************)
(* The map after some operations, and the value of one key in it.          *)
(***************************************************************************)

\* A map, and one step of the model on it: only the key of the operation
\* changes, as checkSingle computes it.
IsStore(s) == s = [k \in Keys |-> s[k]]

Stepped(s, op, s1) ==
    /\ IsStore(s1) /\ s1[op.Key] = NewValue(s[op.Key], op)
    /\ \A k \in Keys : k # op.Key => s1[k] = s[k]

LEMMA StepFacts ==
    ASSUME NEW s, IsStore(s), NEW op, op.Key \in Keys, NEW s1, s1 = Step(s, op)
    PROVE  Stepped(s, op, s1)
<1> DEFINE one == [k \in {op.Key} |-> s[op.Key]]
<1>1. NewValue(s[op.Key], op) = Step(one, op)[op.Key] /\ one[op.Key] = s[op.Key]
  BY DEF NewValue
<1>2. CASE op.OpType = "Put"
  <2>1. s1 = [s EXCEPT ![op.Key] = op.Value] /\ Step(one, op) = [one EXCEPT ![op.Key] = op.Value]
    BY SMT, <1>2 DEF Step
  <2> QED
    BY <1>1, <2>1 DEF IsStore, Stepped
<1>3. CASE op.OpType = "Append"
  <2>1. /\ s1 = [s EXCEPT ![op.Key] = s[op.Key] \o op.Value]
        /\ Step(one, op) = [one EXCEPT ![op.Key] = one[op.Key] \o op.Value]
    BY SMT, <1>3 DEF Step
  <2> QED
    BY <1>1, <2>1 DEF IsStore, Stepped
<1>4. CASE op.OpType # "Put" /\ op.OpType # "Append"
  <2>1. s1 = s /\ Step(one, op) = one
    BY SMT, <1>4 DEF Step
  <2> QED
    BY <1>1, <2>1 DEF Stepped
<1> QED
  BY <1>2, <1>3, <1>4

\* The maps of a run of seq.
IsRun(h, seq, n, g) ==
    g = [j \in 0 .. n |-> IF j = 0 THEN EmptyStore(Keys) ELSE Step(g[j - 1], h[seq[j]])]

LEMMA RunExists ==
    ASSUME NEW h, NEW seq, NEW n \in Nat
    PROVE  \E g : IsRun(h, seq, n, g)
<1> DEFINE S == {m \in 0 .. n : \E g : IsRun(h, seq, m, g)}
<1>1. 0 \in S
  <2> DEFINE g == [j \in 0 .. 0 |-> EmptyStore(Keys)]
  <2>1. IsRun(h, seq, 0, g)
    <3>1. \A j \in 0 .. 0 : j = 0
      BY SMT
    <3> QED
      BY <3>1 DEF IsRun
  <2>2. 0 \in 0 .. n
    BY SMT
  <2> QED
    BY <2>1, <2>2
<1>2. ASSUME NEW m \in 0 .. n - 1, m \in S PROVE m + 1 \in S
  <2>1. PICK g : IsRun(h, seq, m, g)
    BY <1>2
  <2> DEFINE map(j) == IF j = m + 1 THEN Step(g[m], h[seq[m + 1]]) ELSE g[j]
  <2>2. /\ m + 1 \in 0 .. n /\ m \in 0 .. m + 1 /\ m + 1 \in 0 .. m + 1
        /\ m + 1 # 0 /\ m + 1 - 1 = m /\ m # m + 1
    BY SMT
  <2>3. \A j \in 0 .. m + 1 :
           j = m + 1 \/ (j \in 0 .. m /\ j # m + 1 /\ (j # 0 => j - 1 \in 0 .. m + 1 /\ j - 1 # m + 1))
    BY SMT
  <2>4. PICK f : f = [j \in 0 .. m + 1 |-> map(j)]
    OBVIOUS
  <2>5. ASSUME NEW j \in 0 .. m + 1
        PROVE  f[j] = IF j = 0 THEN EmptyStore(Keys) ELSE Step(f[j - 1], h[seq[j]])
    <3>1. CASE j = m + 1
      <4>1. f[j] = Step(g[m], h[seq[m + 1]]) /\ f[m] = g[m]
        BY <2>4, <2>2, <3>1
      <4>2. j # 0 /\ j - 1 = m
        BY SMT, <3>1
      <4> QED
        BY SMT, <3>1, <4>1, <4>2
    <3>2. CASE j # m + 1
      <4>1. f[j] = g[j] /\ (j # 0 => f[j - 1] = g[j - 1])
        BY <2>4, <2>3, <3>2
      <4>2. g[j] = IF j = 0 THEN EmptyStore(Keys) ELSE Step(g[j - 1], h[seq[j]])
        BY <2>1, <2>3, <3>2 DEF IsRun
      <4> QED
        BY <4>1, <4>2
    <3> QED
      BY <3>1, <3>2
  <2>6. f = [j \in 0 .. m + 1 |-> f[j]]
    BY <2>4
  <2>7. IsRun(h, seq, m + 1, f)
    BY <2>5, <2>6 DEF IsRun
  <2> QED
    BY <2>2, <2>7
<1>3. n \in S
  <2> HIDE DEF S
  <2>1. \A j \in 0 .. n : j \in S
    BY <1>1, <1>2, UpTo
  <2>2. n \in 0 .. n
    BY SMT
  <2> QED
    BY <2>1, <2>2
<1> QED
  BY <1>3

\* A run of more operations begins with that of fewer.
LEMMA RunPrefix ==
    ASSUME NEW h, NEW seq, NEW n \in Nat, NEW m \in Nat, n <= m,
           NEW f, IsRun(h, seq, n, f), NEW g, IsRun(h, seq, m, g)
    PROVE  f[n] = g[n]
<1> DEFINE S == {j \in 0 .. n : f[j] = g[j]}
<1>1. /\ \A j \in 0 .. n : f[j] = IF j = 0 THEN EmptyStore(Keys) ELSE Step(f[j - 1], h[seq[j]])
      /\ \A j \in 0 .. m : g[j] = IF j = 0 THEN EmptyStore(Keys) ELSE Step(g[j - 1], h[seq[j]])
  BY DEF IsRun
<1>2. 0 \in S
  <2>1. 0 \in 0 .. n /\ 0 \in 0 .. m
    BY SMT
  <2> QED
    BY <1>1, <2>1
<1>3. ASSUME NEW j \in 0 .. n - 1, j \in S PROVE j + 1 \in S
  <2>1. j + 1 \in 0 .. n /\ j + 1 \in 0 .. m /\ j + 1 # 0 /\ j + 1 - 1 = j
    BY SMT
  <2>2. f[j + 1] = Step(f[j], h[seq[j + 1]]) /\ g[j + 1] = Step(g[j], h[seq[j + 1]])
    BY SMT, <1>1, <2>1
  <2> QED
    BY <1>3, <2>1, <2>2
<1> HIDE DEF S
<1>4. \A j \in 0 .. n : j \in S
  BY <1>2, <1>3, UpTo
<1>5. n \in 0 .. n
  BY SMT
<1> QED
  BY <1>4, <1>5 DEF S

LEMMA StoreStep ==
    ASSUME NEW h, NEW seq, NEW n \in Nat
    PROVE  /\ StoreAfter(h, seq, 0) = EmptyStore(Keys)
           /\ StoreAfter(h, seq, n + 1) = Step(StoreAfter(h, seq, n), h[seq[n + 1]])
<1>1. ASSUME NEW m \in Nat
      PROVE  \E g : IsRun(h, seq, m, g) /\ StoreAfter(h, seq, m) = g[m]
  <2> DEFINE g == CHOOSE g : g = [j \in 0 .. m |-> IF j = 0 THEN EmptyStore(Keys)
                                                   ELSE Step(g[j - 1], h[seq[j]])]
  <2>1. IsRun(h, seq, m, g)
    <3>1. \E f : f = [j \in 0 .. m |-> IF j = 0 THEN EmptyStore(Keys) ELSE Step(f[j - 1], h[seq[j]])]
      <4>1. \E f : IsRun(h, seq, m, f)
        BY RunExists
      <4> QED
        BY <4>1 DEF IsRun
    <3>2. g = [j \in 0 .. m |-> IF j = 0 THEN EmptyStore(Keys) ELSE Step(g[j - 1], h[seq[j]])]
      BY <3>1
    <3> QED
      BY <3>2 DEF IsRun
  <2>2. StoreAfter(h, seq, m) = g[m]
    BY DEF StoreAfter
  <2> QED
    BY <2>1, <2>2
<1>2. 0 \in Nat /\ n + 1 \in Nat /\ n <= n + 1 /\ 0 \in 0 .. 0 /\ n + 1 \in 0 .. n + 1
      /\ n + 1 # 0 /\ n + 1 - 1 = n
  BY SMT
<1>3. PICK e : IsRun(h, seq, 0, e) /\ StoreAfter(h, seq, 0) = e[0]
  BY <1>1, <1>2
<1>4. PICK f : IsRun(h, seq, n, f) /\ StoreAfter(h, seq, n) = f[n]
  BY <1>1
<1>5. PICK g : IsRun(h, seq, n + 1, g) /\ StoreAfter(h, seq, n + 1) = g[n + 1]
  BY <1>1, <1>2
<1>6. f[n] = g[n]
  BY SMT, <1>2, <1>4, <1>5, RunPrefix
<1>7. e[0] = EmptyStore(Keys) /\ g[n + 1] = Step(g[n], h[seq[n + 1]])
  BY SMT, <1>2, <1>3, <1>5 DEF IsRun
<1> QED
  BY <1>3, <1>4, <1>5, <1>6, <1>7

\* The value of key k in a run of the first N operations of seq.
KeyRun(h, seq, N, k) ==
    /\ StoreAfter(h, seq, 0)[k] = <<>>
    /\ \A j \in 1 .. N :
          /\ h[seq[j]].Key = k =>
                StoreAfter(h, seq, j)[k] = NewValue(StoreAfter(h, seq, j - 1)[k], h[seq[j]])
          /\ h[seq[j]].Key # k => StoreAfter(h, seq, j)[k] = StoreAfter(h, seq, j - 1)[k]

LEMMA StoreValues ==
    ASSUME NEW h, IsHistory(h), NEW N \in Nat, NEW seq, \A j \in 1 .. N : seq[j] \in DOMAIN h,
           NEW k \in Keys
    PROVE  KeyRun(h, seq, N, k)
<1> DEFINE S == {j \in 0 .. N : IsStore(StoreAfter(h, seq, j))}
<1>1. 0 \in S /\ StoreAfter(h, seq, 0)[k] = <<>>
  <2>1. 0 \in 0 .. N /\ 0 \in Nat
    BY SMT
  <2>2. StoreAfter(h, seq, 0) = EmptyStore(Keys)
    BY SMT, <2>1, StoreStep
  <2> QED
    BY <2>1, <2>2 DEF EmptyStore, IsStore
<1>2. ASSUME NEW j \in 1 .. N, j - 1 \in S
      PROVE  /\ IsStore(StoreAfter(h, seq, j))
             /\ h[seq[j]].Key = k =>
                   StoreAfter(h, seq, j)[k] = NewValue(StoreAfter(h, seq, j - 1)[k], h[seq[j]])
             /\ h[seq[j]].Key # k => StoreAfter(h, seq, j)[k] = StoreAfter(h, seq, j - 1)[k]
  <2>1. PICK n \in Nat : n = j - 1 /\ n + 1 = j
    BY SMT
  <2>2. PICK s, s1 : s = StoreAfter(h, seq, n) /\ s1 = StoreAfter(h, seq, n + 1)
    OBVIOUS
  <2>3. s1 = Step(s, h[seq[n + 1]])
    BY SMT, <2>2, StoreStep
  <2>4. IsStore(s) /\ h[seq[j]].Key \in Keys
    BY <1>2, <2>1, <2>2 DEF IsHistory
  <2>5. s1 = Step(s, h[seq[j]])
    BY <2>1, <2>3
  <2>6. /\ IsStore(s1) /\ s1[h[seq[j]].Key] = NewValue(s[h[seq[j]].Key], h[seq[j]])
        /\ \A x \in Keys : x # h[seq[j]].Key => s1[x] = s[x]
    <3>1. Stepped(s, h[seq[j]], s1)
      BY <2>4, <2>5, StepFacts
    <3> QED
      BY <3>1 DEF Stepped
  <2>7. s = StoreAfter(h, seq, j - 1) /\ s1 = StoreAfter(h, seq, j)
    BY <2>1, <2>2
  <2> QED
    BY <2>6, <2>7
<1>3. ASSUME NEW j \in 0 .. N - 1, j \in S PROVE j + 1 \in S
  <2>1. j + 1 \in 1 .. N /\ j + 1 \in 0 .. N /\ j + 1 - 1 = j
    BY SMT
  <2>2. IsStore(StoreAfter(h, seq, j + 1))
    <3> HIDE DEF S
    <3>1. PICK q \in 1 .. N : q = j + 1 /\ q - 1 \in S
      BY SMT, <1>3, <2>1
    <3>2. IsStore(StoreAfter(h, seq, q))
      BY <1>2, <3>1
    <3> QED
      BY <3>1, <3>2
  <2> QED
    BY <2>1, <2>2
<1>4. \A j \in 0 .. N : j \in S
  <2> HIDE DEF S
  <2> QED
    BY <1>1, <1>3, UpTo
<1>5. \A j \in 1 .. N : j - 1 \in S
  <2>1. \A j \in 1 .. N : j - 1 \in 0 .. N
    BY SMT
  <2> HIDE DEF S
  <2> QED
    BY <1>4, <2>1
<1> QED
  BY <1>1, <1>2, <1>5 DEF KeyRun

\* A value that no operation of seq from p + 1 to q touches.
LEMMA SameValue ==
    ASSUME NEW h, NEW seq, NEW N \in Nat, NEW k, KeyRun(h, seq, N, k),
           NEW p \in 0 .. N, NEW q \in 0 .. N, p <= q,
           \A j \in 1 .. N : p < j /\ j <= q => h[seq[j]].Key # k
    PROVE  StoreAfter(h, seq, q)[k] = StoreAfter(h, seq, p)[k]
<1> DEFINE S == {d \in 0 .. q - p : StoreAfter(h, seq, p + d)[k] = StoreAfter(h, seq, p)[k]}
<1>1. 0 \in S
  <2>1. 0 \in 0 .. q - p /\ p + 0 = p
    BY SMT
  <2> QED
    BY <2>1
<1>2. ASSUME NEW d \in 0 .. (q - p) - 1, d \in S PROVE d + 1 \in S
  <2>1. PICK j \in 1 .. N : j = p + (d + 1) /\ j - 1 = p + d /\ p < j /\ j <= q
    BY SMT
  <2>2. StoreAfter(h, seq, j)[k] = StoreAfter(h, seq, j - 1)[k]
    BY <2>1 DEF KeyRun
  <2>3. d + 1 \in 0 .. q - p
    BY SMT
  <2> QED
    BY <1>2, <2>1, <2>2, <2>3
<1>3. q - p \in Nat /\ q - p \in 0 .. q - p /\ p + (q - p) = q
  BY SMT
<1>4. q - p \in S
  <2> HIDE DEF S
  <2>1. \A d \in 0 .. q - p : d \in S
    BY <1>1, <1>2, <1>3, UpTo
  <2> QED
    BY <1>3, <2>1
<1> QED
  BY <1>3, <1>4

LEMMA LeastOf ==
    ASSUME NEW T \in SUBSET Nat, NEW t \in T
    PROVE  \E x \in T : \A y \in T : x <= y
<1>1. PICK x \in T : \A y \in T : ~(<<y, x>> \in OpToRel(<, Nat))
  BY NatLessThanWellFounded, WFMin
<1>2. ASSUME NEW y \in T PROVE x <= y
  <2>1. x \in Nat /\ y \in Nat
    OBVIOUS
  <2>2. ~(y < x)
    BY <1>1, <2>1 DEF OpToRel
  <2> QED
    BY SMT, <2>1, <2>2
<1> QED
  BY <1>2

\* A numbering reaches every operation.
Numbers(h, N, seq) ==
    /\ DOMAIN seq = 1 .. N /\ DOMAIN h = 1 .. N /\ N \in Nat
    /\ \A j \in 1 .. N : seq[j] \in DOMAIN h
    /\ \A i, j \in 1 .. N : seq[i] = seq[j] => i = j
    /\ \A i \in DOMAIN h : \E j \in 1 .. N : seq[j] = i

LEMMA NumberingFacts ==
    ASSUME NEW h, IsHistory(h), NEW seq \in Numberings(h)
    PROVE  Numbers(h, Len(h), seq)
<1>1. /\ DOMAIN h = 1 .. Len(h) /\ Len(h) \in Nat /\ seq \in [DOMAIN h -> DOMAIN h]
      /\ \A i, j \in DOMAIN h : i # j => seq[i] # seq[j]
  BY DEF IsHistory, Numberings
<1>2. seq \in Injection(DOMAIN h, DOMAIN h)
  BY <1>1 DEF Injection, IsInjective
<1>3. IsFiniteSet(DOMAIN h)
  BY SMT, <1>1, FS_Interval
<1>4. seq \in Surjection(DOMAIN h, DOMAIN h)
  BY <1>2, <1>3, FS_Injection
<1>5. \A i \in DOMAIN h : \E j \in DOMAIN h : seq[j] = i
  BY <1>4 DEF Surjection
<1> QED
  BY <1>1, <1>5 DEF Numbers

-----------------------------------------------------------------------------
(***************************************************************************)
(* Why a search that finds nothing is right.                               *)
(***************************************************************************)

\* A linearizable history is reached from the start.
LEMMA ReachStart ==
    ASSUME NEW h, IsHistory(h), NEW k \in Keys,
           NEW seq \in Numberings(h), InOrder(h, seq), Legal(h, seq)
    PROVE  Reach(h, k, {}, <<>>)
<1>1. Len(h) \in Nat /\ \A j \in 1 .. Len(h) : seq[j] \in DOMAIN h
  BY NumberingFacts DEF Numbers
<1>2. StoreAfter(h, seq, 0)[k] = <<>>
  <2>1. KeyRun(h, seq, Len(h), k)
    BY <1>1, StoreValues
  <2> QED
    BY <2>1 DEF KeyRun
<1>3. 0 \in 0 .. Len(h) /\ \A j : j \notin 1 .. 0
  BY SMT, <1>1
<1>4. {} = {i \in On(h, k) : \E j \in 1 .. 0 : seq[j] = i}
  BY <1>3
<1> QED
  BY <1>2, <1>3, <1>4 DEF Reach

\* What a linearization does first on the key, once the operations in set are
\* done: it may come next, is accepted and leads on.
LeadsOn(h, k, set, value) ==
    \E i \in On(h, k) \ set :
        /\ \A j \in On(h, k) \ set : ~Precedes(h, j, i)
        /\ Accepts(value, h[i]) /\ Reach(h, k, set \cup {i}, NewValue(value, h[i]))

LEMMA ReachStep ==
    ASSUME NEW h, IsHistory(h), NEW k \in Keys, NEW set, NEW value, Reach(h, k, set, value),
           NEW i0 \in On(h, k) \ set
    PROVE  LeadsOn(h, k, set, value)
<1>1. PICK seq \in Numberings(h), p \in 0 .. Len(h) :
         /\ InOrder(h, seq) /\ Legal(h, seq)
         /\ set = {i \in On(h, k) : \E j \in 1 .. p : seq[j] = i}
         /\ value = StoreAfter(h, seq, p)[k]
  BY DEF Reach
<1>2. PICK N \in Nat : N = Len(h)
  BY DEF IsHistory
<1>3. /\ DOMAIN seq = 1 .. N /\ DOMAIN h = 1 .. N /\ p \in 0 .. N
      /\ \A j \in 1 .. N : seq[j] \in DOMAIN h
      /\ \A i, j \in 1 .. N : seq[i] = seq[j] => i = j
      /\ \A i \in DOMAIN h : \E j \in 1 .. N : seq[j] = i
  <2>1. Numbers(h, N, seq)
    BY <1>2, NumberingFacts
  <2>2. p \in 0 .. N
    BY <1>2
  <2> QED
    BY <2>1, <2>2 DEF Numbers
<1>4. KeyRun(h, seq, N, k)
  BY <1>3, StoreValues
<1> DEFINE T == {j \in 1 .. N : p < j /\ h[seq[j]].Key = k}
<1>5. \A j \in On(h, k) \ set : \E r \in T : seq[r] = j
  <2> SUFFICES ASSUME NEW j \in On(h, k) \ set PROVE \E r \in T : seq[r] = j
    OBVIOUS
  <2>1. PICK r \in 1 .. N : seq[r] = j
    BY <1>3 DEF On
  <2>2. r \notin 1 .. p
    BY <1>1, <2>1
  <2>3. p < r
    BY SMT, <1>3, <2>2
  <2> QED
    BY <2>1, <2>3 DEF On
<1>6. PICK q \in T : \A y \in T : q <= y
  <2>1. T \in SUBSET Nat
    BY SMT
  <2>2. PICK t \in T : TRUE
    BY <1>5
  <2> HIDE DEF T
  <2> QED
    BY <2>1, <2>2, LeastOf
<1>7. PICK i : i = seq[q]
  OBVIOUS
<1>8. /\ q \in 1 .. N /\ p < q /\ h[i].Key = k /\ i \in On(h, k) /\ q \in 0 .. N /\ q - 1 \in 0 .. N
      /\ p <= q - 1
  <2>1. q \in 1 .. N /\ p < q /\ h[i].Key = k
    BY <1>6, <1>7
  <2>2. i \in On(h, k)
    BY <1>3, <1>7, <2>1 DEF On
  <2>3. q \in 0 .. N /\ q - 1 \in 0 .. N /\ p <= q - 1
    BY SMT, <1>3, <2>1
  <2> QED
    BY <2>1, <2>2, <2>3
<1>9. i \notin set
  <2>1. ASSUME NEW j \in 1 .. p, seq[j] = seq[q] PROVE FALSE
    <3>1. j \in 1 .. N /\ j # q
      BY SMT, <1>3, <1>8
    <3> QED
      BY <1>3, <1>8, <2>1, <3>1
  <2> QED
    BY <1>1, <1>7, <2>1
<1>10. \A j \in On(h, k) \ set : ~Precedes(h, j, i)
  <2> SUFFICES ASSUME NEW j \in On(h, k) \ set PROVE ~Precedes(h, j, i)
    OBVIOUS
  <2>1. PICK r \in T : seq[r] = j
    BY <1>5
  <2>2. r \in 1 .. N /\ q <= r
    BY <1>6, <2>1
  <2>3. CASE r = q
    <3>1. h[i].Call \in Int /\ h[i].Return \in Int /\ h[i].Call <= h[i].Return
      BY <1>8 DEF On, IsHistory
    <3>2. ~(h[i].Return < h[i].Call)
      BY SMT, <3>1
    <3> QED
      BY <1>7, <2>1, <2>3, <3>2 DEF Precedes
  <2>4. CASE r # q
    <3>1. q < r
      BY SMT, <1>8, <2>2, <2>4
    <3> QED
      BY <1>1, <1>3, <1>7, <1>8, <2>1, <2>2, <3>1 DEF InOrder
  <2> QED
    BY <2>3, <2>4
<1>11. StoreAfter(h, seq, q - 1)[k] = value
  <2>1. ASSUME NEW j \in 1 .. N, p < j, j <= q - 1, h[seq[j]].Key = k PROVE FALSE
    <3>1. j \in T
      BY <2>1
    <3>2. q <= j
      BY <1>6, <3>1
    <3> QED
      BY SMT, <1>8, <2>1, <3>2
  <2>2. PICK x \in 0 .. N : x = q - 1 /\ p <= x
    BY <1>8
  <2>3. StoreAfter(h, seq, x)[k] = StoreAfter(h, seq, p)[k]
    <3>1. \A j \in 1 .. N : p < j /\ j <= x => h[seq[j]].Key # k
      BY <2>1, <2>2
    <3>2. p \in 0 .. N /\ p <= x
      BY <1>3, <2>2
    <3> QED
      BY SMT, <1>4, <3>1, <3>2, SameValue
  <2> QED
    BY <1>1, <2>2, <2>3
<1>12. Accepts(value, h[i])
  <2>1. Accepts(StoreAfter(h, seq, q - 1)[h[seq[q]].Key], h[seq[q]])
    BY <1>1, <1>3, <1>8 DEF Legal
  <2>2. h[seq[q]].Key = k
    BY <1>7, <1>8
  <2> QED
    BY SMT, <1>7, <1>11, <2>1, <2>2
<1>13. StoreAfter(h, seq, q)[k] = NewValue(value, h[i])
  BY SMT, <1>4, <1>7, <1>8, <1>11 DEF KeyRun
<1>14. set \cup {i} = {a \in On(h, k) : \E j \in 1 .. q : seq[j] = a}
  <2>1. ASSUME NEW a \in On(h, k), NEW j \in 1 .. q, seq[j] = a PROVE a \in set \cup {i}
    <3>1. CASE j \in 1 .. p
      BY <1>1, <2>1, <3>1
    <3>2. CASE j \notin 1 .. p
      <4>1. j \in 1 .. N /\ p < j
        BY SMT, <1>3, <1>8, <3>2
      <4>2. j \in T
        BY <2>1, <4>1 DEF On
      <4>3. j = q
        <5>1. q <= j
          BY <1>6, <4>2
        <5> QED
          BY SMT, <1>8, <4>1, <5>1
      <4> QED
        BY <1>7, <2>1, <4>3
    <3> QED
      BY <3>1, <3>2
  <2>2. q \in 1 .. q /\ \A j \in 1 .. p : j \in 1 .. q
    BY SMT, <1>3, <1>8
  <2> QED
    BY <1>1, <1>7, <1>8, <2>1, <2>2
<1>15. Reach(h, k, set \cup {i}, NewValue(value, h[i]))
  <2>1. q \in 0 .. Len(h)
    BY <1>2, <1>8
  <2> QED
    BY <1>1, <1>13, <1>14, <2>1 DEF Reach
<1> QED
  BY <1>8, <1>9, <1>10, <1>12, <1>15 DEF LeadsOn

\* The search is at a return, and every call before it led nowhere.
LEMMA DeadEnd ==
    ASSUME NEW h, IsHistory(h), NEW k \in Keys, NEW es, Sorted(h, k, es), NEW set, NEW value,
           NEW r \in NodesWithout(es, set), es[r].kind = "return",
           \A n \in NodesWithout(es, set) : n < r => Futile(h, k, set, value, es[n].id)
    PROVE  ~Reach(h, k, set, value)
<1> SUFFICES ASSUME Reach(h, k, set, value) PROVE FALSE
  OBVIOUS
<1>1. es[r].id \in On(h, k) \ set
  BY NodeFacts DEF NodesWithout
<1>2. PICK i \in On(h, k) \ set :
         /\ \A j \in On(h, k) \ set : ~Precedes(h, j, i)
         /\ Accepts(value, h[i]) /\ Reach(h, k, set \cup {i}, NewValue(value, h[i]))
  BY <1>1, ReachStep DEF LeadsOn
<1>3. PICK n \in NodesWithout(es, set) : es[n].kind = "call" /\ es[n].id = i /\ n < r
  BY SMT, <1>2, FirstIsFront
<1>4. Futile(h, k, set, value, i)
  BY <1>3
<1> QED
  BY <1>2, <1>4 DEF Futile

-----------------------------------------------------------------------------
(***************************************************************************)
(* The sequence on the stack.                                              *)
(***************************************************************************)

\* The L operations q, those in set, can be the first ones on key k.
Begins(h, k, q, L, set) ==
    /\ L \in Nat /\ q \in [1 .. L -> On(h, k)] /\ set = {q[j] : j \in 1 .. L}
    /\ \A a, b \in 1 .. L : q[a] = q[b] => a = b
    /\ InOrder(h, q) /\ Legal(h, q)
    /\ \A a \in On(h, k), b \in set : Precedes(h, a, b) => a \in set

\* What is known of the calls of a stack.
LEMMA CallFacts ==
    ASSUME NEW h, IsHistory(h), NEW k, NEW es, Sorted(h, k, es), NEW cs, NEW v,
           StackOK(h, es, cs, v), NEW d \in 1 .. Len(cs)
    PROVE  /\ es[cs[d].entry].id \in On(h, k) \ Done(es, cs, d - 1)
           /\ \A i \in On(h, k) \ Done(es, cs, d - 1) : ~Precedes(h, i, es[cs[d].entry].id)
<1>1. PICK n, set : n = cs[d].entry /\ set = Done(es, cs, d - 1)
  OBVIOUS
<1>2. /\ n \in NodesWithout(es, set) /\ es[n].kind = "call"
      /\ InFront(es, NodesWithout(es, set), n)
  BY <1>1 DEF StackOK, MayCome
<1>3. es[n].id \in On(h, k) \ set
  BY <1>2, NodeFacts DEF NodesWithout
<1>4. \A i \in On(h, k) \ set : ~Precedes(h, i, es[n].id)
  BY <1>2, FrontIsFirst
<1> QED
  BY <1>1, <1>3, <1>4

LEMMA StackBegins ==
    ASSUME NEW h, IsHistory(h), NEW k \in Keys, NEW es, Sorted(h, k, es), NEW cs, NEW v,
           StackOK(h, es, cs, v), NEW q, q = [j \in 1 .. Len(cs) |-> es[cs[j].entry].id]
    PROVE  Begins(h, k, q, Len(cs), Done(es, cs, Len(cs)))
<1>1. PICK L \in Nat : L = Len(cs)
  BY DEF StackOK, IsStack
<1>2. ASSUME NEW d \in 1 .. L
      PROVE  /\ q[d] = es[cs[d].entry].id /\ q[d] \in On(h, k) /\ q[d] \notin Done(es, cs, d - 1)
             /\ \A i \in On(h, k) \ Done(es, cs, d - 1) : ~Precedes(h, i, q[d])
  BY <1>1, CallFacts
<1>3. \A d \in 0 .. L : Done(es, cs, d) = {q[j] : j \in 1 .. d}
  <2> SUFFICES ASSUME NEW d \in 0 .. L PROVE Done(es, cs, d) = {q[j] : j \in 1 .. d}
    OBVIOUS
  <2>1. \A j \in 1 .. d : j \in 1 .. L
    BY SMT
  <2>2. \A j \in 1 .. d : es[cs[j].entry].id = q[j]
    BY <1>2, <2>1
  <2>3. ASSUME NEW i \in Done(es, cs, d) PROVE i \in {q[j] : j \in 1 .. d}
    <3>1. PICK j \in 1 .. d : i = es[cs[j].entry].id
      BY DEF Done
    <3> QED
      BY <2>2, <3>1
  <2>4. ASSUME NEW j \in 1 .. d PROVE q[j] \in Done(es, cs, d)
    BY <2>2 DEF Done
  <2> QED
    BY <2>3, <2>4
<1>4. q \in [1 .. L -> On(h, k)]
  BY <1>1, <1>2
<1>5. ASSUME NEW a \in 1 .. L, NEW b \in 1 .. L, a < b
      PROVE  q[b] \notin Done(es, cs, a - 1) /\ q[a] \in Done(es, cs, b - 1)
  <2>1. a - 1 \in 0 .. L /\ b - 1 \in 0 .. L /\ a \in 1 .. b - 1 /\ \A j \in 1 .. a - 1 : j \in 1 .. b - 1
    BY SMT, <1>5
  <2>2. /\ Done(es, cs, a - 1) = {q[j] : j \in 1 .. a - 1}
        /\ Done(es, cs, b - 1) = {q[j] : j \in 1 .. b - 1}
    BY <1>3, <2>1
  <2>3. q[b] \notin Done(es, cs, b - 1)
    BY <1>2
  <2> QED
    BY <2>1, <2>2, <2>3
<1>6. ASSUME NEW a \in 1 .. L, NEW b \in 1 .. L, q[a] = q[b] PROVE a = b
  <2>1. ~(a < b)
    BY <1>2, <1>5, <1>6
  <2>2. ~(b < a)
    BY <1>2, <1>5, <1>6
  <2> QED
    BY SMT, <2>1, <2>2
<1>7. InOrder(h, q)
  <2> SUFFICES ASSUME NEW a \in 1 .. L, NEW b \in 1 .. L, a < b PROVE ~Precedes(h, q[b], q[a])
    BY <1>4 DEF InOrder
  <2> QED
    BY <1>2, <1>5
<1>8. ASSUME NEW a \in On(h, k), NEW b \in Done(es, cs, L), Precedes(h, a, b)
      PROVE  a \in Done(es, cs, L)
  <2>1. L \in 0 .. L
    BY SMT
  <2>2. PICK d \in 1 .. L : b = q[d]
    BY <1>3, <2>1
  <2>3. d - 1 \in 0 .. L /\ \A j \in 1 .. d - 1 : j \in 1 .. L
    BY SMT
  <2>4. a \in Done(es, cs, d - 1)
    BY <1>2, <1>8, <2>2
  <2>5. PICK j \in 1 .. d - 1 : a = q[j]
    BY <1>3, <2>3, <2>4
  <2> QED
    BY <1>3, <2>1, <2>3, <2>5
<1>9. KeyRun(h, q, L, k)
  <2>1. \A j \in 1 .. L : q[j] \in DOMAIN h
    BY <1>2 DEF On
  <2> QED
    BY <2>1, StoreValues
<1> DEFINE S == {d \in 0 .. L : StoreAfter(h, q, d)[k] = ValueAt(cs, v, d)}
<1>10. ASSUME NEW d \in 1 .. L
       PROVE  /\ Accepts(ValueAt(cs, v, d - 1), h[q[d]])
              /\ ValueAt(cs, v, d) = NewValue(ValueAt(cs, v, d - 1), h[q[d]])
              /\ h[q[d]].Key = k
  <2>1. MayCome(h, es, Done(es, cs, d - 1), ValueAt(cs, v, d - 1), cs[d].entry, ValueAt(cs, v, d))
    BY <1>1 DEF StackOK
  <2> QED
    BY <1>2, <2>1 DEF MayCome, On
<1>11. 0 \in S
  <2>1. 0 \in 0 .. L
    BY SMT
  <2> QED
    BY <1>9, <2>1 DEF KeyRun, StackOK
<1>12. ASSUME NEW d \in 0 .. L - 1, d \in S PROVE d + 1 \in S
  <2>1. PICK j \in 1 .. L : j = d + 1 /\ j - 1 = d
    BY SMT
  <2>2. StoreAfter(h, q, j)[k] = NewValue(StoreAfter(h, q, j - 1)[k], h[q[j]])
    BY <1>9, <1>10 DEF KeyRun
  <2>5. StoreAfter(h, q, j - 1)[k] = ValueAt(cs, v, j - 1)
    BY <1>12, <2>1
  <2>3. StoreAfter(h, q, j)[k] = ValueAt(cs, v, j)
    BY <1>10, <2>2, <2>5
  <2>4. j \in 0 .. L
    BY SMT
  <2> QED
    BY <2>1, <2>3, <2>4
<1>13. \A d \in 0 .. L : d \in S
  <2> HIDE DEF S
  <2> QED
    BY <1>11, <1>12, UpTo
<1>14. Legal(h, q)
  <2> SUFFICES ASSUME NEW d \in 1 .. L
               PROVE  Accepts(StoreAfter(h, q, d - 1)[h[q[d]].Key], h[q[d]])
    BY <1>4 DEF Legal
  <2>1. d - 1 \in 0 .. L
    BY SMT
  <2>2. StoreAfter(h, q, d - 1)[k] = ValueAt(cs, v, d - 1)
    BY <1>13, <2>1
  <2> QED
    BY <1>10, <2>2
<1>15. Done(es, cs, L) = {q[j] : j \in 1 .. L}
  <2>1. L \in 0 .. L
    BY SMT
  <2> QED
    BY <1>3, <2>1
<1>16. Begins(h, k, q, L, Done(es, cs, L))
  BY <1>4, <1>6, <1>7, <1>8, <1>14, <1>15 DEF Begins
<1> QED
  BY <1>1, <1>16

\* It can be listed for each of its operations.
LEMMA BeginsPartial ==
    ASSUME NEW h, NEW k, NEW q, NEW L, NEW set, Begins(h, k, q, L, set), NEW i \in set
    PROVE  PartialOK(h, k, i, q)
<1>1. L \in Nat /\ q \in [1 .. L -> On(h, k)] /\ set = {q[j] : j \in 1 .. L}
  BY DEF Begins
<1>2. Len(q) = L /\ DOMAIN q = 1 .. L
  <2> DEFINE T == On(h, k)
  <2> HIDE DEF T
  <2>1. q \in [1 .. L -> T]
    BY <1>1 DEF T
  <2> QED
    BY SMT, <1>1, <2>1
<1>3. Cardinality(set) = L
  <2>1. q \in Injection(1 .. L, set) /\ q \in Surjection(1 .. L, set)
    BY <1>1 DEF Begins, Injection, IsInjective, Surjection
  <2>2. IsFiniteSet(1 .. L) /\ Cardinality(1 .. L) = L
    BY SMT, <1>1, FS_Interval
  <2> QED
    BY <2>1, <2>2, FS_Surjection
<1> QED
  BY <1>1, <1>2, <1>3 DEF Begins, PartialOK

-----------------------------------------------------------------------------
(***************************************************************************)
(* The steps of a search.                                                  *)
(***************************************************************************)

\* The search goes on from the head of the list.
AtFirst(es, cs, nx) ==
    EntryOK(es, cs, nx, nx[0]) /\ \A r \in Left(es, cs, Len(cs)) : ~(r < nx[0])

LEMMA EntryFirst ==
    ASSUME NEW es, NEW cs, NEW nx, NEW pv, LinksOK(es, cs, nx, pv)
    PROVE  AtFirst(es, cs, nx)
<1>0. PICK en : en = nx[0]
  OBVIOUS
<1> DEFINE nodes == Left(es, cs, Len(cs))
<1>1. \A r \in nodes : r \in 1 .. Len(es)
  BY DEF Left, NodesWithout
<1>2. NextIn(nodes, nx, 0)
  BY DEF LinksOK, Linked
<1> HIDE DEF nodes
<1>3. CASE nx[0] = Nil
  <2>1. nodes = {}
    <3> SUFFICES ASSUME NEW r \in nodes PROVE FALSE
      OBVIOUS
    <3>1. r <= 0
      BY <1>2, <1>3 DEF NextIn, AtEnd
    <3> QED
      BY SMT, <1>1, <3>1
  <2> QED
    BY <1>3, <2>1 DEF AtFirst, EntryOK, nodes
<1>4. CASE nx[0] # Nil
  <2>1. en \in nodes /\ \A r \in nodes : 0 < r => en <= r
    BY <1>0, <1>2, <1>4 DEF NextIn, Follows
  <2>2. \A r \in nodes : ~(r < en)
    BY SMT, <1>1, <2>1
  <2> QED
    BY <1>0, <2>1, <2>2 DEF AtFirst, EntryOK, InFront, nodes
<1> QED
  BY <1>3, <1>4

\* The search goes on behind the call at node n.
AtNext(es, cs, nx, n) ==
    EntryOK(es, cs, nx, nx[n]) /\ \A r \in Left(es, cs, Len(cs)) : r < nx[n] => r < n \/ r = n

LEMMA EntryNext ==
    ASSUME NEW h, IsHistory(h), NEW k, NEW es, Sorted(h, k, es), NEW cs,
           NEW nx, NEW pv, LinksOK(es, cs, nx, pv), NEW n \in Left(es, cs, Len(cs)),
           es[n].kind = "call", InFront(es, Left(es, cs, Len(cs)), n)
    PROVE  AtNext(es, cs, nx, n)
<1>0. PICK en : en = nx[n]
  OBVIOUS
<1>1. PICK nodes, set : nodes = Left(es, cs, Len(cs)) /\ set = Done(es, cs, Len(cs))
  OBVIOUS
<1>2. nodes = NodesWithout(es, set)
  BY <1>1 DEF Left
<1>3. n \in nodes /\ n \in 1 .. Len(es) /\ \A r \in nodes : r \in 1 .. Len(es)
  BY <1>1, <1>2 DEF NodesWithout
<1>4. PICK m \in 1 .. Len(es) : ReturnOf(es, n, m)
  BY <1>3, ReturnFacts
<1>5. TakenOut(es, set, n, m)
  BY <1>2, <1>3, <1>4, LeftWithout
<1>6. n < m /\ m \in nodes
  BY <1>2, <1>5 DEF TakenOut
<1>7. NextIn(nodes, nx, n)
  BY <1>1, <1>3 DEF LinksOK, Linked
<1>8. nx[n] # Nil
  <2> SUFFICES ASSUME nx[n] = Nil PROVE FALSE
    OBVIOUS
  <2>1. m <= n
    BY <1>6, <1>7 DEF NextIn, AtEnd
  <2> QED
    BY SMT, <1>3, <1>6, <2>1
<1>9. en \in nodes /\ \A r \in nodes : n < r => en <= r
  BY <1>0, <1>7, <1>8 DEF NextIn, Follows
<1>10. \A r \in nodes : r < en => r < n \/ r = n
  BY SMT, <1>3, <1>9
<1>11. InFront(es, nodes, en)
  BY <1>1, <1>10 DEF InFront
<1> QED
  BY <1>0, <1>1, <1>9, <1>10, <1>11 DEF AtNext, EntryOK

\* What was tried, when a call is linearized.
LEMMA TriedPush ==
    ASSUME NEW h, NEW k, NEW es, NEW cs, NEW c, NEW cs1, OnTop(cs, c, cs1), NEW v, NEW v1,
           c.state = v, NEW ca, TriedOK(h, k, es, cs, v, c.entry, ca),
           NEW en1, \A r \in Left(es, cs1, Len(cs1)) : ~(r < en1),
           NEW x, x = <<Done(es, cs, Len(cs)) \cup {es[c.entry].id}, v1>>
    PROVE  TriedOK(h, k, es, cs1, v1, en1, ca \cup {x})
<1>0. CacheOK(h, k, es, cs, v, ca) /\ PassedOK(h, k, es, cs, v, c.entry)
  BY DEF TriedOK
<1>1. SameBelow(es, cs, c, v, cs1, v1)
  BY Levels
<1>2. PICK L \in Nat, L1 \in Nat : L = Len(cs) /\ L1 = Len(cs1) /\ L1 = L + 1
  BY SMT, <1>1 DEF SameBelow
<1>3. L1 \in 1 .. L1 /\ L1 \in 0 .. L1 /\ (\A d \in 0 .. L : d \in 0 .. L1) /\ L \in 0 .. L
  BY SMT, <1>2
<1>4. CacheOK(h, k, es, cs1, v1, ca \cup {x})
  <2> SUFFICES ASSUME NEW y \in ca \cup {x}
               PROVE  \/ \E d \in 0 .. L1 : y = <<Done(es, cs1, d), ValueAt(cs1, v1, d)>>
                      \/ ~Reach(h, k, y[1], y[2])
    BY <1>2 DEF CacheOK
  <2>1. CASE y = x
    <3>1. y = <<Done(es, cs1, L1), ValueAt(cs1, v1, L1)>>
      BY <1>1, <1>2, <2>1 DEF SameBelow
    <3> QED
      BY <1>3, <3>1
  <2>2. CASE y \in ca
    <3>1. CASE \E d \in 0 .. L : y = <<Done(es, cs, d), ValueAt(cs, v, d)>>
      BY <1>1, <1>2, <1>3, <3>1 DEF SameBelow
    <3>2. CASE ~Reach(h, k, y[1], y[2])
      BY <3>2
    <3> QED
      BY <1>0, <1>2, <2>2, <3>1, <3>2 DEF CacheOK
  <2> QED
    BY <2>1, <2>2
<1>5. ASSUME NEW d \in 1 .. L1, NEW r \in Left(es, cs1, d - 1), r < cs1[d].entry
      PROVE  Futile(h, k, Done(es, cs1, d - 1), ValueAt(cs1, v1, d - 1), es[r].id)
  <2>1. PICK e \in 0 .. L : e = d - 1
    BY SMT, <1>2
  <2>2. /\ Done(es, cs1, e) = Done(es, cs, e) /\ Left(es, cs1, e) = Left(es, cs, e)
        /\ ValueAt(cs1, v1, e) = ValueAt(cs, v, e)
    BY <1>1, <1>2 DEF SameBelow
  <2>3. Futile(h, k, Done(es, cs, e), ValueAt(cs, v, e), es[r].id)
    <3>1. CASE d = L1
      <4>1. e = L /\ cs1[d] = c
        <5>1. e = L
          BY SMT, <1>2, <2>1, <3>1
        <5> QED
          BY <1>2, <3>1, <5>1 DEF OnTop
      <4>2. ValueAt(cs, v, e) = v
        BY <1>1, <1>2, <4>1 DEF SameBelow
      <4>3. r \in Left(es, cs, Len(cs)) /\ r < c.entry
        BY <1>2, <1>5, <2>1, <2>2, <4>1
      <4> QED
        BY <1>0, <1>2, <4>1, <4>2, <4>3 DEF PassedOK
    <3>2. CASE d # L1
      <4>1. d \in 1 .. L
        BY SMT, <1>2, <3>2
      <4>2. cs1[d] = cs[d]
        BY <1>2, <4>1 DEF OnTop
      <4>3. r \in Left(es, cs, d - 1) /\ r < cs[d].entry
        BY <1>5, <2>1, <2>2, <4>2
      <4> QED
        BY <1>0, <1>2, <2>1, <4>1, <4>3 DEF PassedOK
    <3> QED
      BY <3>1, <3>2
  <2> QED
    BY <2>1, <2>2, <2>3
<1>6. PassedOK(h, k, es, cs1, v1, en1)
  BY <1>2, <1>5 DEF PassedOK
<1> QED
  BY <1>4, <1>6 DEF TriedOK

\* What was tried, when the call at node n is skipped.
LEMMA TriedSkip ==
    ASSUME NEW h, NEW k, NEW es, NEW cs, NEW v, StackOK(h, es, cs, v), NEW ca,
           NEW n \in Left(es, cs, Len(cs)), TriedOK(h, k, es, cs, v, n, ca), NEW x,
           x = <<Done(es, cs, Len(cs)) \cup {es[n].id}, NewValue(v, h[es[n].id])>>,
           Accepts(v, h[es[n].id]) => x \in ca,
           NEW en1, \A r \in Left(es, cs, Len(cs)) : r < en1 => r < n \/ r = n
    PROVE  TriedOK(h, k, es, cs, v, en1, ca)
<1>0. CacheOK(h, k, es, cs, v, ca) /\ PassedOK(h, k, es, cs, v, n)
  BY DEF TriedOK
<1>1. PICK L \in Nat : L = Len(cs)
  BY DEF StackOK, IsStack
<1>2. es[n].id \notin Done(es, cs, L)
  BY <1>1 DEF Left, NodesWithout
<1>3. ASSUME NEW d \in 0 .. L PROVE es[n].id \notin Done(es, cs, d)
  <2>1. \A j \in 1 .. d : j \in 1 .. L
    BY SMT
  <2> QED
    BY <1>2, <2>1 DEF Done
<1>4. x[1] = Done(es, cs, L) \cup {es[n].id} /\ x[2] = NewValue(v, h[es[n].id])
  BY <1>1
<1>5. Futile(h, k, Done(es, cs, L), v, es[n].id)
  <2> SUFFICES ASSUME Accepts(v, h[es[n].id]) PROVE ~Reach(h, k, x[1], x[2])
    BY <1>4 DEF Futile
  <2>1. x \in ca
    OBVIOUS
  <2>2. ASSUME NEW d \in 0 .. L, x = <<Done(es, cs, d), ValueAt(cs, v, d)>> PROVE FALSE
    <3>1. x[1] = Done(es, cs, d)
      BY SMT, <2>2
    <3> QED
      BY <1>3, <1>4, <3>1
  <2> QED
    BY <1>0, <1>1, <2>1, <2>2 DEF CacheOK
<1>6. ASSUME NEW r \in Left(es, cs, L), r < en1 PROVE Futile(h, k, Done(es, cs, L), v, es[r].id)
  <2>1. CASE r < n
    BY <1>0, <1>1, <2>1 DEF PassedOK
  <2>2. CASE r = n
    BY <1>5, <2>2
  <2> QED
    BY <1>1, <1>6, <2>1, <2>2
<1> QED
  BY <1>0, <1>1, <1>6 DEF PassedOK, TriedOK

\* What was tried, when the call c is taken back at the return at node en.
LEMMA TriedPop ==
    ASSUME NEW h, IsHistory(h), NEW k \in Keys, NEW es, Sorted(h, k, es),
           NEW cs, NEW c, NEW cs1, OnTop(cs, c, cs1), NEW v, NEW v1, c.state = v,
           StackOK(h, es, cs1, v1), NEW ca,
           NEW en \in Left(es, cs1, Len(cs1)), es[en].kind = "return",
           TriedOK(h, k, es, cs1, v1, en, ca),
           NEW en1, \A r \in Left(es, cs, Len(cs)) : r < en1 => r < c.entry \/ r = c.entry
    PROVE  TriedOK(h, k, es, cs, v, en1, ca)
<1>0. CacheOK(h, k, es, cs1, v1, ca) /\ PassedOK(h, k, es, cs1, v1, en)
  BY DEF TriedOK
<1>1. SameBelow(es, cs, c, v, cs1, v1)
  BY Levels
<1>2. PICK L \in Nat, L1 \in Nat : L = Len(cs) /\ L1 = Len(cs1) /\ L1 = L + 1
  BY SMT, <1>1 DEF SameBelow
<1>3. L1 \in 1 .. L1 /\ L1 - 1 = L /\ L \in 0 .. L
  BY SMT, <1>2
<1>4. ~Reach(h, k, Done(es, cs1, L1), v1)
  <2>1. PICK set : set = Done(es, cs1, L1)
    OBVIOUS
  <2>2. en \in NodesWithout(es, set)
    BY <1>2, <2>1 DEF Left
  <2>3. \A n \in NodesWithout(es, set) : n < en => Futile(h, k, set, v1, es[n].id)
    BY <1>0, <1>2, <2>1 DEF Left, PassedOK
  <2>4. ~Reach(h, k, set, v1)
    BY <2>2, <2>3, DeadEnd
  <2> QED
    BY <2>1, <2>4
<1>5. CacheOK(h, k, es, cs, v, ca)
  <2> SUFFICES ASSUME NEW y \in ca, Reach(h, k, y[1], y[2])
               PROVE  \E d \in 0 .. L : y = <<Done(es, cs, d), ValueAt(cs, v, d)>>
    BY <1>2 DEF CacheOK
  <2>1. PICK d \in 0 .. L1 : y = <<Done(es, cs1, d), ValueAt(cs1, v1, d)>>
    BY <1>0, <1>2 DEF CacheOK
  <2>2. d # L1
    <3> SUFFICES ASSUME d = L1 PROVE FALSE
      OBVIOUS
    <3>1. y[1] = Done(es, cs1, L1) /\ y[2] = ValueAt(cs1, v1, L1)
      BY <2>1
    <3>2. ValueAt(cs1, v1, L1) = v1
      BY <1>1, <1>2 DEF SameBelow
    <3> QED
      BY <1>4, <3>1, <3>2
  <2>3. d \in 0 .. L
    BY SMT, <1>2, <2>2
  <2> QED
    BY <1>1, <1>2, <2>1, <2>3 DEF SameBelow
<1>6. /\ Done(es, cs1, L) = Done(es, cs, L) /\ Left(es, cs1, L) = Left(es, cs, L)
      /\ ValueAt(cs1, v1, L) = v
  BY <1>1, <1>2, <1>3 DEF SameBelow
<1>7. ASSUME NEW r \in Left(es, cs, L), r < en1 PROVE Futile(h, k, Done(es, cs, L), v, es[r].id)
  <2>1. CASE r < c.entry
    <3>1. cs1[L1] = c
      BY <1>2 DEF OnTop
    <3>2. \A s \in Left(es, cs1, L1 - 1) :
             s < cs1[L1].entry => Futile(h, k, Done(es, cs1, L1 - 1), ValueAt(cs1, v1, L1 - 1), es[s].id)
      BY <1>0, <1>2, <1>3 DEF PassedOK
    <3>3. \A s \in Left(es, cs1, L) :
             s < c.entry => Futile(h, k, Done(es, cs1, L), ValueAt(cs1, v1, L), es[s].id)
      BY <1>3, <3>1, <3>2
    <3> QED
      BY <1>6, <2>1, <3>3
  <2>2. CASE r = c.entry
    <3>1. MayCome(h, es, Done(es, cs, Len(cs)), v, c.entry, v1)
      BY StackPop
    <3>2. v1 = NewValue(v, h[es[r].id])
      BY <2>2, <3>1 DEF MayCome
    <3>3. Done(es, cs1, L1) = Done(es, cs, L) \cup {es[r].id}
      BY <1>1, <1>2, <2>2 DEF SameBelow
    <3> QED
      BY <1>4, <3>2, <3>3 DEF Futile
  <2> QED
    BY <1>2, <1>7, <2>1, <2>2
<1>8. ASSUME NEW d \in 1 .. L, NEW r \in Left(es, cs, d - 1), r < cs[d].entry
      PROVE  Futile(h, k, Done(es, cs, d - 1), ValueAt(cs, v, d - 1), es[r].id)
  <2>1. d \in 1 .. L1 /\ d - 1 \in 0 .. L
    BY SMT, <1>2
  <2>2. cs1[d] = cs[d]
    BY <1>2 DEF OnTop
  <2>3. /\ Done(es, cs1, d - 1) = Done(es, cs, d - 1) /\ Left(es, cs1, d - 1) = Left(es, cs, d - 1)
        /\ ValueAt(cs1, v1, d - 1) = ValueAt(cs, v, d - 1)
    BY <1>1, <1>2, <2>1 DEF SameBelow
  <2>4. r \in Left(es, cs1, d - 1) /\ r < cs1[d].entry
    BY <1>8, <2>2, <2>3
  <2>5. Futile(h, k, Done(es, cs1, d - 1), ValueAt(cs1, v1, d - 1), es[r].id)
    BY <1>0, <1>2, <2>1, <2>4 DEF PassedOK
  <2> QED
    BY <2>3, <2>5
<1>9. PassedOK(h, k, es, cs, v, en1)
  BY <1>2, <1>7, <1>8 DEF PassedOK
<1> QED
  BY <1>5, <1>9 DEF TriedOK

-----------------------------------------------------------------------------
(***************************************************************************)
(* From a sequence for each key to one for the history.                    *)
(***************************************************************************)

\* c is the number of places, of the increasing ones g of a sequence of
\* length L, that are at most p.
AtMost(L, g, p, c) == c \in 0 .. L /\ \A x \in 1 .. L : g[x] <= p <=> x <= c

LEMMA PlaceTaken ==
    ASSUME NEW L \in Nat, NEW g, \A x \in 1 .. L : g[x] \in Nat,
           \A x, y \in 1 .. L : x < y => g[x] < g[y], NEW p \in Nat, NEW c, AtMost(L, g, p, c),
           NEW z \in 1 .. L, g[z] = p + 1
    PROVE  z = c + 1 /\ AtMost(L, g, p + 1, z)
<1>1. c \in 0 .. L /\ \A x \in 1 .. L : g[x] <= p <=> x <= c
  BY DEF AtMost
<1>2. ~(z <= c)
  <2>1. ~(g[z] <= p)
    BY SMT
  <2> QED
    BY <1>1, <2>1
<1>3. z = c + 1
  <2> SUFFICES ASSUME z # c + 1 PROVE FALSE
    OBVIOUS
  <2>1. PICK y \in 1 .. L : y = c + 1 /\ y < z
    BY SMT, <1>1, <1>2
  <2>2. g[y] < g[z] /\ g[y] \in Nat
    BY <2>1
  <2>3. g[y] <= p
    BY SMT, <2>2
  <2>4. y <= c
    BY <1>1, <2>3
  <2> QED
    BY SMT, <1>1, <2>1, <2>4
<1>4. ASSUME NEW x \in 1 .. L PROVE g[x] <= p + 1 <=> x <= z
  <2>1. CASE x < z
    <3>1. g[x] < g[z] /\ g[x] \in Nat
      BY <2>1
    <3> QED
      BY SMT, <2>1, <3>1
  <2>2. CASE x = z
    BY SMT, <2>2
  <2>3. CASE z < x
    <3>1. g[z] < g[x] /\ g[x] \in Nat
      BY <2>3
    <3> QED
      BY SMT, <2>3, <3>1
  <2> QED
    BY SMT, <2>1, <2>2, <2>3
<1>5. z \in 0 .. L
  BY SMT
<1> QED
  BY <1>3, <1>4, <1>5 DEF AtMost

LEMMA PlaceFree ==
    ASSUME NEW L \in Nat, NEW g, \A x \in 1 .. L : g[x] \in Nat, NEW p \in Nat, NEW c,
           AtMost(L, g, p, c), \A x \in 1 .. L : g[x] # p + 1
    PROVE  AtMost(L, g, p + 1, c)
<1>1. c \in 0 .. L /\ \A x \in 1 .. L : g[x] <= p <=> x <= c
  BY DEF AtMost
<1>2. ASSUME NEW x \in 1 .. L PROVE g[x] <= p + 1 <=> x <= c
  <2>1. PICK y \in Nat : y = g[x] /\ y # p + 1 /\ (y <= p <=> x <= c)
    BY <1>1
  <2> QED
    BY SMT, <2>1
<1> QED
  BY <1>1, <1>2 DEF AtMost

\* Operation i of h, and no other, is at place[i] of seq.
Ordering(h, N, seq, place) ==
    /\ N \in Nat /\ DOMAIN h = 1 .. N /\ seq \in [1 .. N -> DOMAIN h] /\ place \in [DOMAIN h -> 1 .. N]
    /\ \A n \in 1 .. N : place[seq[n]] = n
    /\ \A i \in DOMAIN h : seq[place[i]] = i

\* A sequence with the operations on key k in a legal order is legal on k.
LEMMA LegalOnKey ==
    ASSUME NEW h, IsHistory(h), NEW N, NEW seq, NEW place, Ordering(h, N, seq, place),
           NEW k \in Keys, NEW q, NEW L, Begins(h, k, q, L, On(h, k)),
           \A x, y \in 1 .. L : x < y => place[q[x]] < place[q[y]],
           NEW n \in 1 .. N, h[seq[n]].Key = k
    PROVE  Accepts(StoreAfter(h, seq, n - 1)[k], h[seq[n]])
<1>1. /\ N \in Nat /\ L \in Nat /\ n - 1 \in 0 .. N
  BY SMT DEF Ordering, Begins
<1>2. /\ \A x \in 1 .. L : q[x] \in On(h, k) /\ q[x] \in DOMAIN h
      /\ \A i \in On(h, k) : \E x \in 1 .. L : i = q[x]
      /\ DOMAIN q = 1 .. L
  BY DEF Begins, On
<1>3. /\ \A j \in 1 .. N : seq[j] \in DOMAIN h /\ place[seq[j]] = j
      /\ \A i \in DOMAIN h : place[i] \in 1 .. N /\ seq[place[i]] = i
  BY DEF Ordering
<1> DEFINE g == [x \in 1 .. L |-> place[q[x]]]
<1>4. \A x \in 1 .. L : g[x] = place[q[x]]
  OBVIOUS
<1> HIDE DEF g
<1>5. \A x \in 1 .. L : g[x] \in Nat
  <2>1. \A x \in 1 .. L : g[x] \in 1 .. N
    BY <1>2, <1>3, <1>4
  <2> QED
    BY SMT, <1>1, <2>1
<1>6. \A x, y \in 1 .. L : x < y => g[x] < g[y]
  BY <1>4
<1>7. KeyRun(h, seq, N, k) /\ KeyRun(h, q, L, k)
  BY <1>1, <1>2, <1>3, StoreValues
<1>8. ASSUME NEW j \in 1 .. N, h[seq[j]].Key = k PROVE \E z \in 1 .. L : q[z] = seq[j] /\ g[z] = j
  <2>1. seq[j] \in On(h, k)
    BY <1>3, <1>8 DEF On
  <2>2. PICK z \in 1 .. L : seq[j] = q[z]
    BY <1>2, <2>1
  <2>3. g[z] = j
    BY <1>3, <1>4, <2>2
  <2> QED
    BY <2>2, <2>3
<1>9. ASSUME NEW j \in 1 .. N, h[seq[j]].Key # k PROVE \A x \in 1 .. L : g[x] # j
  <2> SUFFICES ASSUME NEW x \in 1 .. L, g[x] = j PROVE h[seq[j]].Key = k
    BY <1>9
  <2>1. q[x] \in On(h, k) /\ seq[place[q[x]]] = q[x] /\ place[q[x]] = j
    BY <1>2, <1>3, <1>4
  <2> QED
    BY <2>1 DEF On
<1> DEFINE Same(p, c) == AtMost(L, g, p, c) /\ StoreAfter(h, seq, p)[k] = StoreAfter(h, q, c)[k]
           S == {p \in 0 .. N : \E c \in 0 .. L : Same(p, c)}
<1>10. 0 \in S
  <2>1. AtMost(L, g, 0, 0)
    <3>1. 0 \in 0 .. L /\ \A x \in 1 .. L : ~(g[x] <= 0) /\ ~(x <= 0)
      <4>1. \A x \in 1 .. L : g[x] \in 1 .. N
        BY <1>2, <1>3, <1>4
      <4> QED
        BY SMT, <1>1, <4>1
    <3> QED
      BY <3>1 DEF AtMost
  <2>2. 0 \in 0 .. N /\ 0 \in 0 .. L
    BY SMT, <1>1
  <2> QED
    BY <1>7, <2>1, <2>2 DEF KeyRun
<1>11. ASSUME NEW p \in 0 .. N - 1, NEW c \in 0 .. L, Same(p, c), NEW j \in 1 .. N, j = p + 1,
              h[seq[j]].Key = k
       PROVE  \E z \in 1 .. L : q[z] = seq[j] /\ z - 1 = c /\ AtMost(L, g, j, z)
  <2>1. PICK z \in 1 .. L : q[z] = seq[j] /\ g[z] = j
    BY <1>8, <1>11
  <2>2. p \in Nat /\ g[z] = p + 1 /\ AtMost(L, g, p, c)
    BY SMT, <1>1, <1>11, <2>1
  <2>3. z = c + 1 /\ AtMost(L, g, p + 1, z)
    BY <1>1, <1>5, <1>6, <2>2, PlaceTaken
  <2>4. z - 1 = c
    BY SMT, <2>3
  <2> QED
    BY <1>11, <2>1, <2>3, <2>4
<1>12. ASSUME NEW p \in 0 .. N - 1, p \in S PROVE p + 1 \in S
  <2>1. PICK j \in 1 .. N : j = p + 1 /\ j - 1 = p /\ j \in 0 .. N
    BY SMT, <1>1
  <2>2. PICK c \in 0 .. L : Same(p, c)
    BY <1>12
  <2>3. CASE h[seq[j]].Key = k
    <3>1. PICK z \in 1 .. L : q[z] = seq[j] /\ z - 1 = c /\ AtMost(L, g, j, z)
      BY <1>11, <2>1, <2>2, <2>3
    <3>2. StoreAfter(h, seq, j)[k] = NewValue(StoreAfter(h, seq, p)[k], h[seq[j]])
      BY <1>7, <2>1, <2>3 DEF KeyRun
    <3>3. StoreAfter(h, q, z)[k] = NewValue(StoreAfter(h, q, c)[k], h[seq[j]])
      BY <1>7, <2>3, <3>1 DEF KeyRun
    <3>4. z \in 0 .. L
      BY SMT
    <3> QED
      BY <2>1, <2>2, <3>1, <3>2, <3>3, <3>4
  <2>4. CASE h[seq[j]].Key # k
    <3>1. \A x \in 1 .. L : g[x] # j
      BY <1>9, <2>4
    <3>2. p \in Nat /\ \A x \in 1 .. L : g[x] # p + 1
      BY SMT, <2>1, <3>1
    <3>3. AtMost(L, g, j, c)
      BY <1>1, <1>5, <2>1, <2>2, <3>2, PlaceFree
    <3>4. StoreAfter(h, seq, j)[k] = StoreAfter(h, seq, p)[k]
      BY <1>7, <2>1, <2>4 DEF KeyRun
    <3> QED
      BY <2>1, <2>2, <3>3, <3>4
  <2> QED
    BY <2>3, <2>4
<1>13. n - 1 \in S
  <2> HIDE DEF S
  <2> QED
    BY <1>1, <1>10, <1>12, UpTo
<1>14. PICK p \in 0 .. N - 1 : p = n - 1 /\ n = p + 1
  BY SMT, <1>1
<1>15. PICK c \in 0 .. L : Same(p, c)
  BY <1>13, <1>14
<1>16. PICK z \in 1 .. L : q[z] = seq[n] /\ z - 1 = c
  BY <1>11, <1>14, <1>15
<1>17. h[q[z]].Key = k
  BY <1>16
<1>18. Accepts(StoreAfter(h, q, z - 1)[h[q[z]].Key], h[q[z]])
  BY <1>2 DEF Begins, Legal
<1> QED
  BY <1>14, <1>15, <1>16, <1>17, <1>18

\* The latest call among the first p operations of q: a point in time at which
\* operation q[p] may take effect.
Point(h, q, p) ==
    CHOOSE t : (\E m \in 1 .. p : t = h[q[m]].Call) /\ \A j \in 1 .. p : h[q[j]].Call <= t

LEMMA PointExists ==
    ASSUME NEW h, NEW q, NEW p \in Nat, p # 0, \A j \in 1 .. p : h[q[j]].Call \in Int
    PROVE  /\ \E m \in 1 .. p : Point(h, q, p) = h[q[m]].Call
           /\ \A j \in 1 .. p : h[q[j]].Call <= Point(h, q, p)
<1> DEFINE call(j) == h[q[j]].Call
           Best(r, m) == m \in 1 .. r /\ \A j \in 1 .. r : call(j) <= call(m)
           S == {r \in 0 .. p : r = 0 \/ \E m \in 1 .. r : Best(r, m)}
<1> HIDE DEF call
<1>1. 0 \in S
  <2>1. 0 \in 0 .. p
    BY SMT
  <2> QED
    BY <2>1
<1>2. ASSUME NEW r \in 0 .. p - 1, r \in S PROVE r + 1 \in S
  <2>1. PICK s \in 1 .. p : s = r + 1 /\ s \in 0 .. p /\ s \in 1 .. s
                            /\ \A j \in 1 .. s : j = s \/ j \in 1 .. r
    BY SMT
  <2>2. (\A j \in 1 .. r : j \in 1 .. p /\ j \in 1 .. s) /\ \A j \in 1 .. s : j \in 1 .. p
    BY SMT, <2>1
  <2>3. \A j \in 1 .. p : call(j) \in Int
    BY DEF call
  <2>4. call(s) <= call(s)
    BY SMT, <2>3
  <2>5. \E m \in 1 .. s : Best(s, m)
    <3>1. CASE r = 0
      <4>1. \A j \in 1 .. s : j = s
        BY SMT, <2>1, <3>1
      <4> QED
        BY <2>1, <2>4, <4>1
    <3>2. CASE r # 0
      <4>1. PICK m \in 1 .. r : Best(r, m)
        BY <1>2, <3>2
      <4>2. CASE call(s) <= call(m)
        <5>1. Best(s, m)
          BY <2>1, <2>2, <4>1, <4>2
        <5> QED
          BY <5>1
      <4>3. CASE ~(call(s) <= call(m))
        <5>1. \A j \in 1 .. r : call(j) <= call(s)
          <6> SUFFICES ASSUME NEW j \in 1 .. r PROVE call(j) <= call(s)
            OBVIOUS
          <6>1. /\ call(j) \in Int /\ call(m) \in Int /\ call(s) \in Int
                /\ call(j) <= call(m) /\ ~(call(s) <= call(m))
            BY <2>2, <2>3, <4>1, <4>3
          <6> QED
            BY SMT, <6>1
        <5>2. Best(s, s)
          BY <2>1, <2>4, <5>1
        <5> QED
          BY <2>1, <5>2
      <4> QED
        BY <4>2, <4>3
    <3> QED
      BY <3>1, <3>2
  <2> QED
    BY <2>1, <2>5
<1>3. p \in S
  <2>1. p \in 0 .. p
    BY SMT
  <2> HIDE DEF S
  <2> QED
    BY <1>1, <1>2, <2>1, UpTo
<1>4. PICK m \in 1 .. p : Best(p, m)
  BY <1>3
<1>5. (\E i \in 1 .. p : call(m) = h[q[i]].Call) /\ \A j \in 1 .. p : h[q[j]].Call <= call(m)
  BY <1>4 DEF call
<1> QED
  BY <1>5 DEF Point

\* It lies between the call and the return of q[p], and never goes back.
PointOK(h, q, L, p) ==
    /\ Point(h, q, p) \in Int
    /\ h[q[p]].Call <= Point(h, q, p) /\ Point(h, q, p) <= h[q[p]].Return
    /\ \A r \in 1 .. L : p <= r => Point(h, q, p) <= Point(h, q, r)

LEMMA PointFacts ==
    ASSUME NEW h, IsHistory(h), NEW k, NEW q, NEW L, NEW set, Begins(h, k, q, L, set),
           NEW p \in 1 .. L
    PROVE  PointOK(h, q, L, p)
<1>1. L \in Nat /\ DOMAIN q = 1 .. L
  BY DEF Begins
<1>2. \A j \in 1 .. L : /\ h[q[j]].Call \in Int /\ h[q[j]].Return \in Int
                        /\ h[q[j]].Call <= h[q[j]].Return
  BY DEF Begins, On, IsHistory
<1>3. ASSUME NEW r \in 1 .. L
      PROVE  /\ r \in Nat /\ r # 0 /\ r \in 1 .. r /\ \A j \in 1 .. r : j \in 1 .. L /\ (j = r \/ j < r)
  BY SMT, <1>1
<1>4. ASSUME NEW r \in 1 .. L
      PROVE  /\ \E m \in 1 .. r : Point(h, q, r) = h[q[m]].Call
             /\ \A j \in 1 .. r : h[q[j]].Call <= Point(h, q, r)
  BY <1>2, <1>3, PointExists
<1>5. PICK m \in 1 .. p : Point(h, q, p) = h[q[m]].Call
  BY <1>4
<1>6. m \in 1 .. L
  BY <1>3
<1>7. Point(h, q, p) \in Int
  BY <1>2, <1>5, <1>6
<1>8. h[q[m]].Call <= h[q[p]].Return
  <2>1. CASE m = p
    BY <1>2, <2>1
  <2>2. CASE m < p
    <3>1. ~(h[q[p]].Return < h[q[m]].Call)
      BY <1>1, <1>6, <2>2 DEF Begins, InOrder, Precedes
    <3>2. PICK a \in Int, b \in Int : a = h[q[p]].Return /\ b = h[q[m]].Call
      BY <1>2, <1>6
    <3>3. b <= a
      <4>1. ~(a < b)
        BY <3>1, <3>2
      <4> QED
        BY SMT, <4>1
    <3> QED
      BY <3>2, <3>3
  <2> QED
    BY <1>3, <2>1, <2>2
<1>9. ASSUME NEW r \in 1 .. L, p <= r PROVE Point(h, q, p) <= Point(h, q, r)
  <2>1. m \in 1 .. r
    BY SMT, <1>9
  <2> QED
    BY <1>4, <1>5, <2>1
<1> QED
  BY <1>3, <1>4, <1>5, <1>7, <1>8, <1>9 DEF PointOK

\* Elements a and b, and the pairs of elements of D, in the order of T, then C, then X.
LexLess(T, C, X, a, b) ==
    \/ T[a] < T[b]
    \/ T[a] = T[b] /\ C[a] < C[b]
    \/ T[a] = T[b] /\ C[a] = C[b] /\ X[a] < X[b]

Lexical(D, T, C, X) ==
    {e \in D \X D : LexLess(T, C, X, e[1], e[2])}

LEMMA LexicalPair ==
    ASSUME NEW D, NEW T, NEW C, NEW X, NEW a \in D, NEW b \in D
    PROVE  <<a, b>> \in Lexical(D, T, C, X) <=> LexLess(T, C, X, a, b)
<1>1. PICK e : e = <<a, b>>
  OBVIOUS
<1>2. e \in D \X D /\ e[1] = a /\ e[2] = b
  BY SMT, <1>1
<1> QED
  BY <1>1, <1>2 DEF Lexical

LEMMA LexicalOrder ==
    ASSUME NEW D, NEW T, NEW C, NEW X, \A i \in D : T[i] \in Int /\ C[i] \in Int /\ X[i] \in Int,
           \A i, j \in D : T[i] = T[j] /\ C[i] = C[j] /\ X[i] = X[j] => i = j
    PROVE  IsOrder(Lexical(D, T, C, X), D)
<1> DEFINE Lt(a, b) == LexLess(T, C, X, a, b)
<1>1. \A a, b \in D : <<a, b>> \in Lexical(D, T, C, X) <=> Lt(a, b)
  BY LexicalPair
<1>2. ASSUME NEW a \in D PROVE ~Lt(a, a)
  <2>1. PICK t \in Int, c \in Int, x \in Int : t = T[a] /\ c = C[a] /\ x = X[a]
    OBVIOUS
  <2>2. ~(t < t) /\ ~(c < c) /\ ~(x < x)
    BY SMT
  <2> QED
    BY <2>1, <2>2 DEF LexLess
<1>3. ASSUME NEW a \in D, NEW b \in D, NEW c \in D, Lt(a, b), Lt(b, c) PROVE Lt(a, c)
  <2>1. /\ T[a] \in Int /\ C[a] \in Int /\ X[a] \in Int /\ T[b] \in Int /\ C[b] \in Int /\ X[b] \in Int
        /\ T[c] \in Int /\ C[c] \in Int /\ X[c] \in Int
    OBVIOUS
  <2> QED
    BY SMT, <1>3, <2>1 DEF LexLess
<1>4. ASSUME NEW a \in D, NEW b \in D, a # b PROVE Lt(a, b) \/ Lt(b, a)
  <2>1. /\ T[a] \in Int /\ C[a] \in Int /\ X[a] \in Int /\ T[b] \in Int /\ C[b] \in Int /\ X[b] \in Int
        /\ ~(T[a] = T[b] /\ C[a] = C[b] /\ X[a] = X[b])
    BY <1>4
  <2> QED
    BY SMT, <2>1 DEF LexLess
<1> HIDE DEF Lt
<1> QED
  BY <1>1, <1>2, <1>3, <1>4 DEF IsOrder

\* A strict order of the operations is a sequence of them.
LEMMA OrderedSequence ==
    ASSUME NEW h, IsHistory(h), NEW R, IsOrder(R, DOMAIN h)
    PROVE  \E seq, place : /\ Ordering(h, Len(h), seq, place) /\ seq \in Numberings(h)
                           /\ \A a, b \in DOMAIN h : <<a, b>> \in R <=> place[a] < place[b]
<1>0. PICK N \in Nat : N = Len(h) /\ DOMAIN h = 1 .. N
  BY DEF IsHistory
<1>1. PICK D, place : D = DOMAIN h /\ D = 1 .. N /\ place = Places(R, D) /\ N = Len(h)
  BY <1>0
<1>2. IsFiniteSet(D) /\ N = Cardinality(D)
  <2>1. IsFiniteSet(1 .. N) /\ Cardinality(1 .. N) = N
    BY SMT, FS_Interval
  <2> QED
    BY <1>1, <2>1
<1>3. /\ place \in [D -> 1 .. N] /\ \A a, b \in D : <<a, b>> \in R <=> place[a] < place[b]
      /\ \A n \in 1 .. N : \E e \in D : place[e] = n
  <2>1. Placed(R, D, N, place)
    BY <1>1, <1>2, PlacesFacts
  <2> QED
    BY <2>1 DEF Placed
<1>4. ASSUME NEW a \in D, NEW b \in D, place[a] = place[b] PROVE a = b
  <2>1. place[a] \in 1 .. N /\ ~(place[a] < place[a])
    BY SMT, <1>3
  <2>2. <<a, b>> \notin R /\ <<b, a>> \notin R
    BY <1>3, <1>4, <2>1
  <2> QED
    BY <1>1, <2>2 DEF IsOrder
<1> DEFINE seq == [n \in 1 .. N |-> CHOOSE e \in D : place[e] = n]
<1>5. \A n \in 1 .. N : seq[n] \in D /\ place[seq[n]] = n
  BY <1>3
<1>6. seq \in [1 .. N -> D]
  BY <1>5
<1> HIDE DEF seq
<1>7. \A i \in D : seq[place[i]] = i
  <2> SUFFICES ASSUME NEW i \in D PROVE seq[place[i]] = i
    OBVIOUS
  <2>1. place[i] \in 1 .. N
    BY <1>3
  <2>2. seq[place[i]] \in D /\ place[seq[place[i]]] = place[i]
    BY <1>5, <2>1
  <2> QED
    BY <1>4, <2>2
<1>8. Ordering(h, Len(h), seq, place)
  BY <1>1, <1>3, <1>5, <1>6, <1>7 DEF Ordering
<1>9. \A i, j \in D : i # j => seq[i] # seq[j]
  BY <1>1, <1>5
<1>10. seq \in Numberings(h)
  BY <1>1, <1>6, <1>9 DEF Numberings
<1> QED
  BY <1>1, <1>3, <1>8, <1>10

\* Where operation i is in q, and an operation that stands for key k.
At(q, i) == CHOOSE x \in DOMAIN q : q[x] = i
OneOn(h, k) == CHOOSE i \in DOMAIN h : h[i].Key = k

\* What is known of operation i, on key k, if x is its position in q.
OpOK(h, k, q, L, i, x) ==
    /\ i \in DOMAIN h /\ h[i].Key = k /\ x \in 1 .. L /\ q[x] = i
    /\ h[i].Call \in Int /\ h[i].Return \in Int
    /\ Begins(h, k, q, L, On(h, k)) /\ PointOK(h, q, L, x)

LEMMA OpFacts ==
    ASSUME NEW h, IsHistory(h), NEW i \in DOMAIN h, NEW k, k = h[i].Key, NEW q, NEW L,
           Begins(h, k, q, L, On(h, k))
    PROVE  OpOK(h, k, q, L, i, At(q, i))
<1>1. i \in On(h, k)
  BY DEF On
<1>2. \E x \in DOMAIN q : q[x] = i
  BY <1>1 DEF Begins
<1>3. At(q, i) \in DOMAIN q /\ q[At(q, i)] = i
  BY <1>2 DEF At
<1>4. At(q, i) \in 1 .. L
  BY <1>3 DEF Begins
<1>5. PointOK(h, q, L, At(q, i))
  BY <1>4, PointFacts
<1>6. h[i].Call \in Int /\ h[i].Return \in Int
  BY DEF IsHistory
<1> QED
  BY <1>3, <1>4, <1>5, <1>6 DEF OpOK

\* A history is linearizable if it is on each of its keys.
LEMMA Merge ==
    ASSUME NEW h, IsHistory(h), NEW Q, NEW Ls,
           \A i \in DOMAIN h : Begins(h, h[i].Key, Q[h[i].Key], Ls[h[i].Key], On(h, h[i].Key))
    PROVE  \E seq \in Numberings(h) : InOrder(h, seq) /\ Legal(h, seq)
<1>1. PICK D : D = DOMAIN h
  OBVIOUS
<1> DEFINE X == [i \in D |-> At(Q[h[i].Key], i)]
           T == [i \in D |-> Point(h, Q[h[i].Key], X[i])]
           C == [i \in D |-> OneOn(h, h[i].Key)]
<1>2. \A i \in D : /\ X[i] = At(Q[h[i].Key], i) /\ T[i] = Point(h, Q[h[i].Key], X[i])
                   /\ C[i] = OneOn(h, h[i].Key)
  OBVIOUS
<1> HIDE DEF X, T, C
<1>3. ASSUME NEW i \in D
      PROVE  OpOK(h, h[i].Key, Q[h[i].Key], Ls[h[i].Key], i, X[i])
  <2>1. PICK k, q, L : k = h[i].Key /\ q = Q[h[i].Key] /\ L = Ls[h[i].Key]
    OBVIOUS
  <2>2. Begins(h, k, q, L, On(h, k))
    BY <1>1, <2>1
  <2>3. OpOK(h, k, q, L, i, At(q, i))
    BY <1>1, <2>1, <2>2, OpFacts
  <2> QED
    BY <1>2, <2>1, <2>3
<1>4. ASSUME NEW i \in D
      PROVE  T[i] \in Int /\ C[i] \in Int /\ X[i] \in Int /\ h[C[i]].Key = h[i].Key
  <2>1. T[i] \in Int
    BY <1>2, <1>3 DEF OpOK, PointOK
  <2>2. C[i] \in D /\ h[C[i]].Key = h[i].Key
    BY <1>1, <1>2 DEF OneOn
  <2>3. C[i] \in 1 .. Len(h) /\ Len(h) \in Nat
    BY <1>1, <2>2 DEF IsHistory
  <2>4. X[i] \in 1 .. Ls[h[i].Key] /\ Ls[h[i].Key] \in Nat
    BY <1>3 DEF OpOK, Begins
  <2> QED
    BY SMT, <2>1, <2>2, <2>3, <2>4
<1>5. ASSUME NEW i \in D, NEW j \in D, T[i] = T[j] /\ C[i] = C[j] /\ X[i] = X[j] PROVE i = j
  <2>1. h[i].Key = h[j].Key
    BY <1>4, <1>5
  <2> QED
    BY <1>3, <1>5, <2>1 DEF OpOK
<1>6. IsOrder(Lexical(D, T, C, X), D)
  BY <1>4, <1>5, LexicalOrder
<1>7. PICK R : R = Lexical(D, T, C, X)
  OBVIOUS
<1>8. PICK seq, place : /\ Ordering(h, Len(h), seq, place) /\ seq \in Numberings(h)
                        /\ \A a, b \in D : <<a, b>> \in R <=> place[a] < place[b]
  BY <1>1, <1>6, <1>7, OrderedSequence
<1>9. ASSUME NEW a \in D, NEW b \in D PROVE place[a] < place[b] <=> LexLess(T, C, X, a, b)
  BY <1>7, <1>8, LexicalPair
<1>10. /\ DOMAIN seq = 1 .. Len(h) /\ Len(h) \in Nat
       /\ \A n \in 1 .. Len(h) : seq[n] \in D /\ place[seq[n]] = n
  BY <1>1, <1>8 DEF Ordering
<1>11. InOrder(h, seq)
  <2> SUFFICES ASSUME NEW a \in 1 .. Len(h), NEW b \in 1 .. Len(h), a < b
               PROVE  ~Precedes(h, seq[b], seq[a])
    BY <1>10 DEF InOrder
  <2>1. PICK i \in D, j \in D : i = seq[a] /\ j = seq[b] /\ place[i] < place[j]
    BY <1>10
  <2>2. LexLess(T, C, X, i, j)
    BY <1>9, <2>1
  <2>3. T[i] < T[j] \/ T[i] = T[j]
    BY <2>2 DEF LexLess
  <2>4. /\ h[i].Call \in Int /\ h[i].Call <= T[i] /\ T[i] \in Int
        /\ h[j].Return \in Int /\ T[j] <= h[j].Return /\ T[j] \in Int
    BY <1>2, <1>3, <1>4 DEF OpOK, PointOK
  <2>5. ~(h[j].Return < h[i].Call)
    BY SMT, <2>3, <2>4
  <2> QED
    BY <2>1, <2>5 DEF Precedes
<1>12. Legal(h, seq)
  <2> SUFFICES ASSUME NEW n \in 1 .. Len(h)
               PROVE  Accepts(StoreAfter(h, seq, n - 1)[h[seq[n]].Key], h[seq[n]])
    BY <1>10 DEF Legal
  <2>1. PICK i \in D : i = seq[n]
    BY <1>10
  <2>2. PICK k, q, L : k = h[i].Key /\ q = Q[k] /\ L = Ls[k]
    OBVIOUS
  <2>3. k \in Keys /\ Begins(h, k, q, L, On(h, k))
    BY <1>1, <2>2 DEF IsHistory
  <2>4. ASSUME NEW x \in 1 .. L PROVE q[x] \in D /\ h[q[x]].Key = k /\ X[q[x]] = x
    <3>1. q[x] \in D /\ h[q[x]].Key = k
      BY <1>1, <2>3 DEF Begins, On
    <3>2. X[q[x]] \in 1 .. L /\ q[X[q[x]]] = q[x]
      BY <1>3, <2>2, <3>1 DEF OpOK
    <3> QED
      BY <2>3, <3>1, <3>2 DEF Begins
  <2>5. ASSUME NEW x \in 1 .. L, NEW y \in 1 .. L, x < y PROVE place[q[x]] < place[q[y]]
    <3>0. ASSUME NEW z \in 1 .. L
          PROVE  q[z] \in D /\ X[q[z]] = z /\ C[q[z]] = OneOn(h, k) /\ T[q[z]] = Point(h, q, z)
      <4>1. q[z] \in D /\ h[q[z]].Key = k /\ X[q[z]] = z
        BY <2>4
      <4>2. T[q[z]] = Point(h, Q[h[q[z]].Key], X[q[z]]) /\ C[q[z]] = OneOn(h, h[q[z]].Key)
        BY <1>2, <4>1
      <4> QED
        BY <2>2, <4>1, <4>2
    <3>1. /\ q[x] \in D /\ q[y] \in D /\ X[q[x]] < X[q[y]] /\ C[q[x]] = C[q[y]]
          /\ T[q[x]] = Point(h, q, x) /\ T[q[y]] = Point(h, q, y)
      BY <2>5, <3>0
    <3>2. x <= y
      BY SMT, <2>3, <2>5 DEF Begins
    <3>3. Point(h, q, x) <= Point(h, q, y)
      <4>1. PointOK(h, q, L, x)
        BY <2>3, PointFacts
      <4> QED
        BY <3>2, <4>1 DEF PointOK
    <3>4. T[q[x]] < T[q[y]] \/ T[q[x]] = T[q[y]]
      <4>1. T[q[x]] \in Int /\ T[q[y]] \in Int /\ T[q[x]] <= T[q[y]]
        BY <1>4, <3>1, <3>3
      <4> QED
        BY SMT, <4>1
    <3>5. LexLess(T, C, X, q[x], q[y])
      BY <3>1, <3>4 DEF LexLess
    <3> QED
      BY <1>9, <3>1, <3>5
  <2>6. PICK N : N = Len(h)
    OBVIOUS
  <2>7. Ordering(h, N, seq, place) /\ n \in 1 .. N /\ h[seq[n]].Key = k
    BY <1>8, <2>1, <2>2, <2>6
  <2>8. Accepts(StoreAfter(h, seq, n - 1)[k], h[seq[n]])
    BY <2>3, <2>5, <2>7, LegalOnKey
  <2> QED
    BY <2>7, <2>8
<1> QED
  BY <1>8, <1>11, <1>12

\* The steps keep SearchOK.  The call c, with return node m, goes on top of the
\* stack cs.
Pushes(h, k, es, nx, pv, v, set, cs, ca, c, m, nx2, pv2, v1, set1, cs1) ==
    /\ IsHistory(h) /\ SearchOK(h, k, es, nx, pv, c.entry, v, set, cs, ca) /\ nx[0] # Nil
    /\ MayCome(h, es, Done(es, cs, Len(cs)), v, c.entry, v1) /\ c.state = v
    /\ OnTop(cs, c, cs1) /\ m \in 1 .. Len(es) /\ ReturnOf(es, c.entry, m)
    /\ lift(nx, pv, c.entry, m) = <<nx2, pv2>> /\ set1 = set \cup {es[c.entry].id}

LEMMA LinearizeOK ==
    ASSUME NEW h, NEW k, NEW es, NEW nx, NEW pv, NEW v, NEW set, NEW cs, NEW ca, NEW c, NEW m,
           NEW nx2, NEW pv2, NEW v1, NEW set1, NEW cs1,
           Pushes(h, k, es, nx, pv, v, set, cs, ca, c, m, nx2, pv2, v1, set1, cs1)
    PROVE  SearchOK(h, k, es, nx2, pv2, nx2[0], v1, set1, cs1, ca \cup {<<set1, v1>>})
<1>0. /\ IsHistory(h) /\ SearchOK(h, k, es, nx, pv, c.entry, v, set, cs, ca)
      /\ MayCome(h, es, Done(es, cs, Len(cs)), v, c.entry, v1) /\ c.state = v
      /\ OnTop(cs, c, cs1) /\ m \in 1 .. Len(es) /\ ReturnOf(es, c.entry, m)
      /\ lift(nx, pv, c.entry, m) = <<nx2, pv2>> /\ set1 = set \cup {es[c.entry].id}
  BY DEF Pushes
<1>1. /\ Sorted(h, k, es) /\ StackOK(h, es, cs, v) /\ set = Done(es, cs, Len(cs))
      /\ LinksOK(es, cs, nx, pv) /\ TriedOK(h, k, es, cs, v, c.entry, ca)
  BY <1>0 DEF SearchOK
<1>2. StackOK(h, es, cs1, v1)
  BY <1>0, <1>1, StackPush
<1>3. set1 = Done(es, cs1, Len(cs1))
  <2>1. SameBelow(es, cs, c, v, cs1, v1)
    BY <1>0, Levels
  <2> QED
    BY <1>0, <1>1, <2>1 DEF SameBelow
<1>4. LinksOK(es, cs1, nx2, pv2)
  <2>1. PICK n : n = c.entry
    OBVIOUS
  <2>2. n \in Left(es, cs, Len(cs)) /\ es[n].kind = "call"
    BY <1>0, <2>1 DEF MayCome, Left
  <2>3. ReturnOf(es, n, m) /\ lift(nx, pv, n, m) = <<nx2, pv2>>
    BY <1>0, <2>1
  <2> QED
    BY <1>0, <1>1, <2>1, <2>2, <2>3, LinksPush
<1>5. AtFirst(es, cs1, nx2)
  BY <1>4, EntryFirst
<1>6. EntryOK(es, cs1, nx2, nx2[0]) /\ \A r \in Left(es, cs1, Len(cs1)) : ~(r < nx2[0])
  BY <1>5 DEF AtFirst
<1>7. PICK x : x = <<set1, v1>>
  OBVIOUS
<1>8. x = <<Done(es, cs, Len(cs)) \cup {es[c.entry].id}, v1>>
  BY <1>0, <1>1, <1>7
<1>9. TriedOK(h, k, es, cs1, v1, nx2[0], ca \cup {x})
  BY <1>0, <1>1, <1>6, <1>8, TriedPush
<1> QED
  BY <1>1, <1>2, <1>3, <1>4, <1>6, <1>7, <1>9 DEF SearchOK

LEMMA SkipOK ==
    ASSUME NEW h, IsHistory(h), NEW k, NEW es, NEW nx, NEW pv, NEW n, NEW v, NEW set, NEW cs,
           NEW ca, SearchOK(h, k, es, nx, pv, n, v, set, cs, ca), nx[0] # Nil,
           es[n].kind = "call",
           Accepts(v, h[es[n].id]) => <<set \cup {es[n].id}, NewValue(v, h[es[n].id])>> \in ca
    PROVE  SearchOK(h, k, es, nx, pv, nx[n], v, set, cs, ca)
<1>1. /\ Sorted(h, k, es) /\ StackOK(h, es, cs, v) /\ set = Done(es, cs, Len(cs))
      /\ LinksOK(es, cs, nx, pv) /\ EntryOK(es, cs, nx, n)
      /\ TriedOK(h, k, es, cs, v, n, ca)
  BY DEF SearchOK
<1>2. n \in Left(es, cs, Len(cs)) /\ InFront(es, Left(es, cs, Len(cs)), n)
  BY <1>1 DEF EntryOK
<1>3. AtNext(es, cs, nx, n)
  BY <1>1, <1>2, EntryNext
<1>4. EntryOK(es, cs, nx, nx[n]) /\ \A r \in Left(es, cs, Len(cs)) : r < nx[n] => r < n \/ r = n
  BY <1>3 DEF AtNext
<1>5. PICK x : x = <<set \cup {es[n].id}, NewValue(v, h[es[n].id])>>
  OBVIOUS
<1>6. /\ x = <<Done(es, cs, Len(cs)) \cup {es[n].id}, NewValue(v, h[es[n].id])>>
      /\ Accepts(v, h[es[n].id]) => x \in ca
  BY <1>1, <1>5
<1>7. TriedOK(h, k, es, cs, v, nx[n], ca)
  BY <1>1, <1>2, <1>4, <1>6, TriedSkip
<1> QED
  BY <1>1, <1>4, <1>7 DEF SearchOK

\* The call c, with node n and return node m, is taken from the stack cs1.
Pops(h, k, es, nx, pv, en, v1, set1, cs1, ca, c, n, m, nx2, pv2, v, cs) ==
    /\ IsHistory(h) /\ k \in Keys /\ SearchOK(h, k, es, nx, pv, en, v1, set1, cs1, ca)
    /\ nx[0] # Nil /\ es[en].kind = "return" /\ OnTop(cs, c, cs1) /\ n = c.entry /\ c.state = v
    /\ m \in 1 .. Len(es) /\ ReturnOf(es, n, m) /\ unlift(nx, pv, n, m) = <<nx2, pv2>>

LEMMA BacktrackOK ==
    ASSUME NEW h, NEW k, NEW es, NEW nx, NEW pv, NEW en, NEW v1, NEW set1, NEW cs1, NEW ca, NEW c,
           NEW n, NEW m, NEW nx2, NEW pv2, NEW v, NEW cs,
           Pops(h, k, es, nx, pv, en, v1, set1, cs1, ca, c, n, m, nx2, pv2, v, cs)
    PROVE  SearchOK(h, k, es, nx2, pv2, nx2[n], v, set1 \ {es[n].id}, cs, ca)
<1>0. /\ IsHistory(h) /\ k \in Keys /\ SearchOK(h, k, es, nx, pv, en, v1, set1, cs1, ca)
      /\ nx[0] # Nil /\ es[en].kind = "return" /\ OnTop(cs, c, cs1) /\ n = c.entry /\ c.state = v
      /\ m \in 1 .. Len(es) /\ ReturnOf(es, n, m) /\ unlift(nx, pv, n, m) = <<nx2, pv2>>
  BY DEF Pops
<1>1. /\ Sorted(h, k, es) /\ StackOK(h, es, cs1, v1) /\ set1 = Done(es, cs1, Len(cs1))
      /\ LinksOK(es, cs1, nx, pv) /\ EntryOK(es, cs1, nx, en)
      /\ TriedOK(h, k, es, cs1, v1, en, ca)
  BY <1>0 DEF SearchOK
<1>4. StackOK(h, es, cs, v) /\ MayCome(h, es, Done(es, cs, Len(cs)), v, c.entry, v1)
  BY <1>0, <1>1, StackPop
<1>5. /\ n \in Left(es, cs, Len(cs)) /\ es[n].kind = "call"
      /\ InFront(es, Left(es, cs, Len(cs)), n) /\ es[n].id \notin Done(es, cs, Len(cs))
  BY <1>0, <1>4 DEF MayCome, Left, NodesWithout
<1>6. SameBelow(es, cs, c, v, cs1, v1)
  BY <1>0, Levels
<1>7. set1 \ {es[n].id} = Done(es, cs, Len(cs))
  <2>1. set1 = Done(es, cs, Len(cs)) \cup {es[n].id}
    BY <1>0, <1>1, <1>6 DEF SameBelow
  <2> QED
    BY <1>5, <2>1
<1>9. LinksOK(es, cs, nx2, pv2)
  BY <1>0, <1>1, <1>4, <1>5, LinksPop
<1>10. AtNext(es, cs, nx2, n)
  BY <1>0, <1>1, <1>5, <1>9, EntryNext
<1>11. /\ EntryOK(es, cs, nx2, nx2[n])
       /\ \A r \in Left(es, cs, Len(cs)) : r < nx2[n] => r < c.entry \/ r = c.entry
  BY <1>0, <1>10 DEF AtNext
<1>13. en \in Left(es, cs1, Len(cs1))
  BY <1>0, <1>1 DEF EntryOK
<1>14. TriedOK(h, k, es, cs, v, nx2[n], ca)
  BY <1>0, <1>1, <1>11, <1>13, TriedPop
<1>15. SearchOK(h, k, es, nx2, pv2, nx2[n], v, Done(es, cs, Len(cs)), cs, ca)
  BY <1>1, <1>4, <1>9, <1>11, <1>14 DEF SearchOK
<1> QED
  BY <1>7, <1>15

\* The bitset, and the sequence that is listed for each of its members.
LEMMA SetFacts ==
    ASSUME NEW h, IsHistory(h), NEW k \in Keys, NEW es, NEW nx, NEW pv, NEW en, NEW v, NEW set,
           NEW cs, NEW ca, SearchOK(h, k, es, nx, pv, en, v, set, cs, ca)
    PROVE  /\ \E q : q = [j \in DOMAIN cs |-> es[cs[j].entry].id] /\ Begins(h, k, q, Len(cs), set)
           /\ set \subseteq On(h, k)
<1>1. /\ Sorted(h, k, es) /\ StackOK(h, es, cs, v) /\ set = Done(es, cs, Len(cs))
  BY DEF SearchOK
<1>2. PICK q : q = [j \in 1 .. Len(cs) |-> es[cs[j].entry].id]
  OBVIOUS
<1>3. Begins(h, k, q, Len(cs), Done(es, cs, Len(cs)))
  BY <1>1, <1>2, StackBegins
<1>4. Begins(h, k, q, Len(cs), set)
  BY <1>1, <1>3
<1>5. DOMAIN cs = 1 .. Len(cs)
  BY <1>1 DEF StackOK, IsStack
<1>6. set \subseteq On(h, k)
  <2> SUFFICES ASSUME NEW i \in set PROVE i \in On(h, k)
    OBVIOUS
  <2>1. PICK j \in 1 .. Len(cs) : i = q[j]
    BY <1>4 DEF Begins
  <2> QED
    BY <1>4, <2>1 DEF Begins
<1> QED
  BY <1>2, <1>4, <1>5, <1>6

\* When the list is empty, every operation is linearized.
LEMMA ListEmpty ==
    ASSUME NEW h, IsHistory(h), NEW k \in Keys, NEW es, NEW nx, NEW pv, NEW en, NEW v, NEW set,
           NEW cs, NEW ca, SearchOK(h, k, es, nx, pv, en, v, set, cs, ca), nx[0] = Nil
    PROVE  set = On(h, k)
<1>1. /\ Sorted(h, k, es) /\ set = Done(es, cs, Len(cs)) /\ LinksOK(es, cs, nx, pv)
  BY DEF SearchOK
<1>2. AtEnd(Left(es, cs, Len(cs)), 0)
  BY <1>1 DEF LinksOK, Linked, NextIn
<1>3. ASSUME NEW i \in On(h, k) PROVE i \in set
  <2> SUFFICES ASSUME i \notin set PROVE FALSE
    OBVIOUS
  <2>1. PICK n \in 1 .. Len(es) : es[n].id = i
    BY <1>1 DEF Sorted
  <2>2. n <= 0
    BY <1>1, <1>2, <2>1 DEF AtEnd, Left, NodesWithout
  <2> QED
    BY SMT, <2>2
<1>4. set \subseteq On(h, k)
  BY SetFacts
<1> QED
  BY <1>3, <1>4

\* When a return is reached and no call is left to take back, the history is
\* not linearizable.
LEMMA NothingLeft ==
    ASSUME NEW h, IsHistory(h), NEW k \in Keys, NEW es, NEW nx, NEW pv, NEW en, NEW v, NEW set,
           NEW cs, NEW ca, SearchOK(h, k, es, nx, pv, en, v, set, cs, ca), nx[0] # Nil,
           es[en].kind = "return", cs = <<>>
    PROVE  ~Reach(h, k, {}, <<>>)
<1>1. /\ Sorted(h, k, es) /\ StackOK(h, es, cs, v) /\ set = Done(es, cs, Len(cs))
      /\ EntryOK(es, cs, nx, en) /\ PassedOK(h, k, es, cs, v, en)
  BY DEF SearchOK, TriedOK
<1>2. Len(cs) = 0
  BY SMT
<1>3. v = <<>>
  <2>1. ~(0 < 0)
    BY SMT
  <2> QED
    BY <1>1, <1>2, <2>1 DEF StackOK, ValueAt
<1>4. Done(es, cs, Len(cs)) = {}
  <2>1. 1 .. 0 = {}
    BY SMT
  <2> QED
    BY <1>2, <2>1 DEF Done
<1>5. en \in NodesWithout(es, {})
  BY <1>1, <1>4 DEF EntryOK, Left
<1>6. \A n \in NodesWithout(es, {}) : n < en => Futile(h, k, {}, <<>>, es[n].id)
  BY <1>1, <1>3, <1>4 DEF PassedOK, Left
<1> QED
  BY <1>1, <1>5, <1>6, DeadEnd

-----------------------------------------------------------------------------
(***************************************************************************)
(* The invariant is inductive.                                             *)
(***************************************************************************)

LEMMA InputFacts ==
    ASSUME history \in Histories
    PROVE  /\ IsHistory(history) /\ \A k \in Partitions : k \in Keys /\ OpsOn(k) = On(history, k)
           /\ IsFiniteSet(Partitions)
<1>1. IsHistory(history)
  BY HistoriesAssumption DEF IsHistory
<1>2. \A k \in Partitions : k \in Keys /\ OpsOn(k) = On(history, k)
  BY <1>1 DEF Partitions, OpsOn, On, IsHistory
<1>3. IsFiniteSet(Partitions)
  <2>1. PICK f : f = [i \in DOMAIN history |-> history[i].Key]
    OBVIOUS
  <2>2. f \in Surjection(DOMAIN history, Partitions)
    BY <2>1 DEF Surjection, Partitions
  <2>3. IsFiniteSet(DOMAIN history)
    BY SMT, <1>1, FS_Interval DEF IsHistory
  <2> QED
    BY <2>2, <2>3, FS_Surjection
<1> QED
  BY <1>1, <1>2, <1>3

\* The variables of key l keep their values.
SameVars(l) ==
    /\ next'[l] = next[l] /\ prev'[l] = prev[l] /\ entry'[l] = entry[l] /\ state'[l] = state[l]
    /\ linearized'[l] = linearized[l] /\ calls'[l] = calls[l] /\ cache'[l] = cache[l]
    /\ longest'[l] = longest[l] /\ pc'[l] = pc[l] /\ result'[l] = result[l]

LEMMA SameKey ==
    ASSUME NEW l, KeyInv(l), history' = history, entries' = entries, SameVars(l),
           kill \in BOOLEAN, kill' \in BOOLEAN, kill => kill'
    PROVE  KeyInv(l)'
<1>1. SearchOK(history, l, entries[l], next[l], prev[l], entry[l], state[l], linearized[l],
               calls[l], cache[l])'
  <2>1. SearchOK(history, l, entries[l], next[l], prev[l], entry[l], state[l], linearized[l],
                 calls[l], cache[l])
    BY DEF KeyInv
  <2> QED
    BY <2>1 DEF SameVars
<1>2. LongestOK(history, l, longest[l])'
  BY DEF KeyInv, SameVars
<1>3. ResultOK(history, l, pc[l], result[l], linearized[l], kill)'
  BY DEF KeyInv, SameVars, ResultOK
<1> QED
  BY <1>1, <1>2, <1>3 DEF KeyInv

\* What checkParallel knows depends on the results it has received.
LEMMA SameParallel ==
    ASSUME ParallelInv, history' = history, Received' = Received,
           results' \subseteq {l \in Partitions : pc'[l] = "ended"},
           \A l \in Received : result'[l] = result[l],
           UNCHANGED <<computeInfo, kill, ok, timedOut, count, at, verdict>>
    PROVE  ParallelInv'
<1>1. Partitions' = Partitions /\ LinearizableHistory' = LinearizableHistory /\ Verdict' = Verdict
  BY DEF Partitions, LinearizableHistory, Verdict
<1>2. Received \subseteq Partitions
  BY DEF Received
<1>3. (results \subseteq {l \in Partitions : pc[l] = "ended"})'
  BY <1>1
<1>4. (count = Cardinality(Received))'
  BY DEF ParallelInv
<1>5. (at = "loop" /\ ok => \A l \in Received : result[l])'
  BY DEF ParallelInv
<1>6. (at # "loop" /\ ok /\ ~timedOut => Received = Partitions /\ \A l \in Partitions : result[l])'
  BY <1>1 DEF ParallelInv
<1>7. (at = "end" => verdict = Verdict /\ (computeInfo => Received = Partitions))'
  BY <1>1 DEF ParallelInv
<1>8. (~ok => ~LinearizableHistory)'
  BY <1>1 DEF ParallelInv
<1> QED
  BY <1>3, <1>4, <1>5, <1>6, <1>7, <1>8 DEF ParallelInv

\* A step of the search of key k leaves the others alone.
OnlyKey(k) ==
    /\ history' = history /\ entries' = entries /\ computeInfo' = computeInfo /\ kill' = kill
    /\ DomainInv' /\ \A l \in Partitions : l # k => SameVars(l)

LEMMA KeyStep ==
    ASSUME CheckInv, NEW k \in Partitions, OnlyKey(k), KeyInv(k)', ParallelInv'
    PROVE  CheckInv'
<1>1. Partitions' = Partitions /\ history' \in Histories
  BY DEF OnlyKey, Partitions, CheckInv
<1>2. kill \in BOOLEAN
  BY DEF CheckInv, ParallelInv
<1>3. ASSUME NEW l \in Partitions PROVE KeyInv(l)'
  <2>1. CASE l = k
    BY <2>1
  <2>2. CASE l # k
    BY <1>2, <2>2, SameKey DEF OnlyKey, CheckInv
  <2> QED
    BY <2>1, <2>2
<1> QED
  BY <1>1, <1>3 DEF CheckInv, OnlyKey

\* What a search knows at its call or return node.
LEMMA EntryIsNode ==
    ASSUME CheckInv, NEW k \in Partitions, next[k][0] # Nil
    PROVE  /\ entry[k] \in 1 .. Len(entries[k])
           /\ entries[k][entry[k]].kind \in {"call", "return"}
<1>1. PICK es, cs, nx, en : es = entries[k] /\ cs = calls[k] /\ nx = next[k] /\ en = entry[k]
  OBVIOUS
<1>2. Sorted(history, k, es) /\ EntryOK(es, cs, nx, en)
  BY <1>1 DEF CheckInv, KeyInv, SearchOK
<1>3. en \in 1 .. Len(es)
  BY <1>1, <1>2 DEF EntryOK, Left, NodesWithout
<1>4. IsHistory(history)
  BY InputFacts DEF CheckInv
<1>5. es[en].kind \in {"call", "return"}
  BY <1>2, <1>3, <1>4, NodeFacts
<1> QED
  BY <1>1, <1>3, <1>5

\* match() finds the return of a call.
LEMMA MatchFacts ==
    ASSUME CheckInv, NEW k \in Partitions, NEW n \in 1 .. Len(entries[k]),
           entries[k][n].kind = "call"
    PROVE  match(k, n) \in 1 .. Len(entries[k]) /\ ReturnOf(entries[k], n, match(k, n))
<1>1. PICK es : es = entries[k]
  OBVIOUS
<1>2. Sorted(history, k, es)
  BY <1>1 DEF CheckInv, KeyInv, SearchOK
<1>3. IsHistory(history)
  BY InputFacts DEF CheckInv
<1>4. \E m \in 1 .. Len(es) : ReturnOf(es, n, m)
  BY <1>1, <1>2, <1>3, ReturnFacts
<1>5. DOMAIN es = 1 .. Len(es)
  <2>1. PICK E : es \in Seq(E)
    BY <1>2 DEF Sorted
  <2> QED
    BY SMT, <2>1
<1>6. \E m \in DOMAIN entries[k] : /\ entries[k][m].kind = "return"
                                   /\ entries[k][m].id = entries[k][n].id
  BY <1>1, <1>4, <1>5 DEF ReturnOf
<1>7. /\ match(k, n) \in DOMAIN entries[k] /\ entries[k][match(k, n)].kind = "return"
      /\ entries[k][match(k, n)].id = entries[k][n].id
  BY <1>6 DEF match
<1> QED
  BY <1>1, <1>5, <1>7 DEF ReturnOf

\* lift() and unlift() return two functions.
LEMMA LinkPairs ==
    ASSUME NEW nx, NEW pv, NEW n, NEW m
    PROVE  /\ lift(nx, pv, n, m) = <<lift(nx, pv, n, m)[1], lift(nx, pv, n, m)[2]>>
           /\ unlift(nx, pv, n, m) = <<unlift(nx, pv, n, m)[1], unlift(nx, pv, n, m)[2]>>
BY SMT DEF lift, unlift

LEMMA QuietParallel ==
    ASSUME ParallelInv, NEW k, OnlyKey(k), UNCHANGED <<pc, result, parallel>> PROVE ParallelInv'
<1>1. Received' = Received /\ results' \subseteq {l \in Partitions : pc'[l] = "ended"}
  BY DEF Received, parallel, OnlyKey, Partitions, ParallelInv
<1> QED
  BY <1>1, SameParallel DEF parallel, OnlyKey

LEMMA LinearizeInv ==
    ASSUME CheckInv, NEW k \in Partitions, Linearize(k) PROVE CheckInv'
<1>1. DomainInv /\ ParallelInv /\ KeyInv(k) /\ IsHistory(history)
  BY InputFacts DEF CheckInv
<1>2. PICK es, cs, nx, pv, n, v, set, ca :
         /\ es = entries[k] /\ cs = calls[k] /\ nx = next[k] /\ pv = prev[k] /\ n = entry[k]
         /\ v = state[k] /\ set = linearized[k] /\ ca = cache[k]
  OBVIOUS
<1>3. PICK m, c, v1, set1 :
         /\ m = match(k, n) /\ c = [entry |-> n, state |-> v] /\ v1 = NewValue(v, history[es[n].id])
         /\ set1 = set \cup {es[n].id}
  OBVIOUS
<1>4. PICK cs1, nx2, pv2 :
         cs1 = Append(cs, c) /\ nx2 = lift(nx, pv, n, m)[1] /\ pv2 = lift(nx, pv, n, m)[2]
  OBVIOUS
<1>5. /\ nx[0] # Nil /\ pc[k] = "search" /\ es[n].kind = "call" /\ Accepts(v, history[es[n].id])
  BY <1>2 DEF Linearize, Searching, Linearizable1, IsCall, Id
<1>6. /\ cache' = [cache EXCEPT ![k] = ca \cup {<<set1, v1>>}]
      /\ calls' = [calls EXCEPT ![k] = cs1]
      /\ state' = [state EXCEPT ![k] = v1]
      /\ linearized' = [linearized EXCEPT ![k] = set1]
      /\ next' = [next EXCEPT ![k] = nx2] /\ prev' = [prev EXCEPT ![k] = pv2]
      /\ entry' = [entry EXCEPT ![k] = nx2[0]]
      /\ UNCHANGED <<input, longest, pc, result, parallel>>
  BY <1>2, <1>3, <1>4 DEF Linearize, NewCacheEntry, CacheEntry, Id
<1>7. /\ cache'[k] = ca \cup {<<set1, v1>>} /\ calls'[k] = cs1 /\ state'[k] = v1
      /\ linearized'[k] = set1 /\ next'[k] = nx2 /\ prev'[k] = pv2 /\ entry'[k] = nx2[0]
  BY <1>1, <1>6 DEF DomainInv
<1>8. OnlyKey(k) /\ UNCHANGED <<longest, pc, result, parallel>>
  <2>1. history' = history /\ entries' = entries /\ computeInfo' = computeInfo /\ kill' = kill
    BY <1>6 DEF input, parallel
  <2>2. Partitions' = Partitions
    BY <2>1 DEF Partitions
  <2>3. DomainInv'
    BY <1>1, <1>6, <2>1, <2>2 DEF DomainInv
  <2>4. \A l \in Partitions : l # k => SameVars(l)
    BY <1>1, <1>6 DEF DomainInv, SameVars
  <2> QED
    BY <1>6, <2>1, <2>3, <2>4 DEF OnlyKey
<1>9. SearchOK(history, k, es, nx2, pv2, nx2[0], v1, set1, cs1, ca \cup {<<set1, v1>>})
  <2>1. SearchOK(history, k, es, nx, pv, n, v, set, cs, ca)
    BY <1>1, <1>2 DEF KeyInv
  <2>2. c.entry = n /\ c.state = v
    <3>1. c = [entry |-> n, state |-> v]
      BY <1>3
    <3> QED
      BY SMT, <3>1
  <2>3. MayCome(history, es, Done(es, cs, Len(cs)), v, n, v1)
    BY <1>3, <1>5, <2>1 DEF SearchOK, EntryOK, MayCome, Left
  <2>4. m \in 1 .. Len(es) /\ ReturnOf(es, n, m)
    BY <1>2, <1>3, <1>5, EntryIsNode, MatchFacts
  <2>5. lift(nx, pv, n, m) = <<nx2, pv2>>
    BY <1>4, LinkPairs
  <2>6. OnTop(cs, c, cs1)
    <3>1. OnTop(cs, c, Append(cs, c))
      BY <2>1, Push DEF SearchOK, StackOK
    <3> QED
      BY <1>4, <3>1
  <2>7. /\ SearchOK(history, k, es, nx, pv, c.entry, v, set, cs, ca)
        /\ MayCome(history, es, Done(es, cs, Len(cs)), v, c.entry, v1)
        /\ ReturnOf(es, c.entry, m) /\ lift(nx, pv, c.entry, m) = <<nx2, pv2>>
        /\ set1 = set \cup {es[c.entry].id}
    BY <1>3, <2>1, <2>2, <2>3, <2>4, <2>5
  <2>8. IsHistory(history) /\ nx[0] # Nil /\ c.state = v /\ m \in 1 .. Len(es)
    BY <1>1, <1>5, <2>2, <2>4
  <2>9. Pushes(history, k, es, nx, pv, v, set, cs, ca, c, m, nx2, pv2, v1, set1, cs1)
    BY <2>6, <2>7, <2>8 DEF Pushes
  <2> QED
    BY <2>9, LinearizeOK
<1>10. KeyInv(k)'
  <2>1. SearchOK(history, k, entries[k], next[k], prev[k], entry[k], state[k], linearized[k],
                 calls[k], cache[k])'
    BY <1>2, <1>7, <1>8, <1>9 DEF OnlyKey
  <2>2. LongestOK(history, k, longest[k])'
    BY <1>1, <1>8 DEF OnlyKey, KeyInv
  <2>3. ResultOK(history, k, pc[k], result[k], linearized[k], kill)'
    BY <1>1, <1>5, <1>8 DEF OnlyKey, KeyInv, ResultOK
  <2> QED
    BY <2>1, <2>2, <2>3 DEF KeyInv
<1>11. ParallelInv'
  BY <1>1, <1>8, QuietParallel
<1> QED
  BY <1>8, <1>10, <1>11, KeyStep

LEMMA SkipInv ==
    ASSUME CheckInv, NEW k \in Partitions, Skip(k) PROVE CheckInv'
<1>1. DomainInv /\ ParallelInv /\ KeyInv(k) /\ IsHistory(history)
  BY InputFacts DEF CheckInv
<1>2. PICK es, cs, nx, pv, n, v, set, ca :
         /\ es = entries[k] /\ cs = calls[k] /\ nx = next[k] /\ pv = prev[k] /\ n = entry[k]
         /\ v = state[k] /\ set = linearized[k] /\ ca = cache[k]
  OBVIOUS
<1>3. /\ nx[0] # Nil /\ es[n].kind = "call"
      /\ Accepts(v, history[es[n].id]) =>
            <<set \cup {es[n].id}, NewValue(v, history[es[n].id])>> \in ca
  BY <1>2 DEF Skip, Searching, Linearizable1, IsCall, Id, cacheContains, NewCacheEntry,
                     CacheEntry
<1>4. entry' = [entry EXCEPT ![k] = nx[n]]
  BY <1>2 DEF Skip
<1>5. UNCHANGED <<input, next, prev, state, linearized, calls, cache, longest, pc, result, parallel>>
  BY DEF Skip
<1>6. OnlyKey(k) /\ entry'[k] = nx[n]
  <2>1. history' = history /\ entries' = entries /\ computeInfo' = computeInfo /\ kill' = kill
    BY <1>5 DEF input, parallel
  <2>2. Partitions' = Partitions
    BY <2>1 DEF Partitions
  <2>3. DomainInv' /\ entry'[k] = nx[n]
    BY <1>1, <1>4, <1>5, <2>1, <2>2 DEF DomainInv
  <2>4. \A l \in Partitions : l # k => SameVars(l)
    BY <1>1, <1>4, <1>5 DEF DomainInv, SameVars
  <2> QED
    BY <2>1, <2>3, <2>4 DEF OnlyKey
<1>7. SearchOK(history, k, es, nx, pv, n, v, set, cs, ca)
  BY <1>1, <1>2 DEF KeyInv
<1>8. SearchOK(history, k, es, nx, pv, nx[n], v, set, cs, ca)
  BY <1>1, <1>3, <1>7, SkipOK
<1>9. KeyInv(k)'
  <2>1. SearchOK(history, k, entries[k], next[k], prev[k], entry[k], state[k], linearized[k],
                 calls[k], cache[k])'
    BY <1>2, <1>5, <1>6, <1>8 DEF OnlyKey
  <2>2. LongestOK(history, k, longest[k])'
    BY <1>1, <1>5, <1>6 DEF OnlyKey, KeyInv
  <2>3. ResultOK(history, k, pc[k], result[k], linearized[k], kill)'
    BY <1>1, <1>5, <1>6 DEF OnlyKey, KeyInv
  <2> QED
    BY <2>1, <2>2, <2>3 DEF KeyInv
<1>10. ParallelInv'
  BY <1>1, <1>5, <1>6, QuietParallel
<1> QED
  BY <1>6, <1>9, <1>10, KeyStep

\* The linearization that is listed, for each of its operations, is valid.
LEMMA IdsPartial ==
    ASSUME CheckInv, NEW k \in Partitions, NEW i \in linearized[k]
    PROVE  PartialOK(history, k, i, Ids(k, calls[k]))
<1>1. KeyInv(k) /\ IsHistory(history) /\ k \in Keys
  BY InputFacts DEF CheckInv
<1>2. PICK es, cs, nx, pv, n, v, set, ca :
         /\ es = entries[k] /\ cs = calls[k] /\ nx = next[k] /\ pv = prev[k] /\ n = entry[k]
         /\ v = state[k] /\ set = linearized[k] /\ ca = cache[k]
  OBVIOUS
<1>3. SearchOK(history, k, es, nx, pv, n, v, set, cs, ca)
  BY <1>1, <1>2 DEF KeyInv
<1>4. PICK q : /\ q = [j \in DOMAIN cs |-> es[cs[j].entry].id]
               /\ Begins(history, k, q, Len(cs), set)
  BY <1>1, <1>3, SetFacts
<1>5. PartialOK(history, k, i, q)
  BY <1>2, <1>4, BeginsPartial
<1>6. q = Ids(k, calls[k])
  BY <1>2, <1>4 DEF Ids, Id
<1> QED
  BY <1>5, <1>6

LEMMA LongerOK ==
    ASSUME CheckInv, NEW k \in Partitions PROVE LongestOK(history, k, Longer(k))
<1>1. OpsOn(k) = On(history, k) /\ LongestOK(history, k, longest[k])
  BY InputFacts DEF CheckInv, KeyInv
<1>2. ASSUME NEW i \in On(history, k)
      PROVE  Longer(k)[i] # <<>> => PartialOK(history, k, i, Longer(k)[i])
  <2>1. Longer(k)[i] = IF computeInfo /\ IsLonger(k, i) THEN Ids(k, calls[k]) ELSE longest[k][i]
    BY <1>1 DEF Longer
  <2>2. CASE computeInfo /\ IsLonger(k, i)
    <3>1. i \in linearized[k]
      BY <2>2 DEF IsLonger
    <3> QED
      BY <2>1, <2>2, <3>1, IdsPartial
  <2>3. CASE ~(computeInfo /\ IsLonger(k, i))
    <3>1. Longer(k)[i] = longest[k][i]
      BY <2>1, <2>3
    <3> QED
      BY <1>1, <3>1 DEF LongestOK
  <2> QED
    BY <2>2, <2>3
<1>3. DOMAIN Longer(k) = On(history, k)
  BY <1>1 DEF Longer
<1> QED
  BY <1>2, <1>3 DEF LongestOK

LEMMA BacktrackInv ==
    ASSUME CheckInv, NEW k \in Partitions, Backtrack(k) PROVE CheckInv'
<1>1. DomainInv /\ ParallelInv /\ KeyInv(k) /\ IsHistory(history) /\ k \in Keys
  BY InputFacts DEF CheckInv
<1>2. PICK es, cs1, nx, pv, en, v1, set1, ca :
         /\ es = entries[k] /\ cs1 = calls[k] /\ nx = next[k] /\ pv = prev[k] /\ en = entry[k]
         /\ v1 = state[k] /\ set1 = linearized[k] /\ ca = cache[k]
  OBVIOUS
<1>3. PICK c, cs : c = cs1[Len(cs1)] /\ cs = SubSeq(cs1, 1, Len(cs1) - 1)
  OBVIOUS
<1>4. PICK n, v, m : n = c.entry /\ v = c.state /\ m = match(k, n)
  OBVIOUS
<1>5. PICK nx2, pv2 : nx2 = unlift(nx, pv, n, m)[1] /\ pv2 = unlift(nx, pv, n, m)[2]
  OBVIOUS
<1>6. nx[0] # Nil /\ pc[k] = "search" /\ es[en].kind # "call" /\ cs1 # <<>>
  BY <1>2 DEF Backtrack, Searching, IsCall
<1>7. /\ longest' = [longest EXCEPT ![k] = Longer(k)]
      /\ state' = [state EXCEPT ![k] = v]
      /\ linearized' = [linearized EXCEPT ![k] = set1 \ {es[n].id}]
      /\ calls' = [calls EXCEPT ![k] = cs]
      /\ next' = [next EXCEPT ![k] = nx2] /\ prev' = [prev EXCEPT ![k] = pv2]
      /\ entry' = [entry EXCEPT ![k] = nx2[n]]
      /\ UNCHANGED <<input, cache, pc, result, parallel>>
  BY <1>2, <1>3, <1>4, <1>5 DEF Backtrack, Id
<1>8. /\ longest'[k] = Longer(k) /\ calls'[k] = cs /\ state'[k] = v
      /\ linearized'[k] = set1 \ {es[n].id} /\ next'[k] = nx2 /\ prev'[k] = pv2
      /\ entry'[k] = nx2[n]
  BY <1>1, <1>7 DEF DomainInv
<1>9. OnlyKey(k) /\ UNCHANGED <<cache, pc, result, parallel>>
  <2>1. history' = history /\ entries' = entries /\ computeInfo' = computeInfo /\ kill' = kill
    BY <1>7 DEF input, parallel
  <2>2. Partitions' = Partitions
    BY <2>1 DEF Partitions
  <2>3. DomainInv'
    BY <1>1, <1>7, <2>1, <2>2 DEF DomainInv
  <2>4. \A l \in Partitions : l # k => SameVars(l)
    BY <1>1, <1>7 DEF DomainInv, SameVars
  <2> QED
    BY <1>7, <2>1, <2>3, <2>4 DEF OnlyKey
<1>10. SearchOK(history, k, es, nx2, pv2, nx2[n], v, set1 \ {es[n].id}, cs, ca)
  <2>1. SearchOK(history, k, es, nx, pv, en, v1, set1, cs1, ca)
    BY <1>1, <1>2 DEF KeyInv
  <2>2. es[en].kind = "return"
    BY <1>2, <1>6, EntryIsNode
  <2>3. StackOK(history, es, cs1, v1) /\ IsStack(cs1)
    BY <2>1 DEF SearchOK, StackOK
  <2>4. Len(cs1) \in 1 .. Len(cs1) /\ OnTop(cs, c, cs1)
    BY <1>3, <1>6, <2>3, Pop
  <2>5. n \in 1 .. Len(es) /\ es[n].kind = "call"
    BY <1>3, <1>4, <2>3, <2>4 DEF StackOK, MayCome, NodesWithout
  <2>6. m \in 1 .. Len(es) /\ ReturnOf(es, n, m)
    BY <1>2, <1>4, <2>5, MatchFacts
  <2>7. unlift(nx, pv, n, m) = <<nx2, pv2>>
    BY <1>5, LinkPairs
  <2>8. Pops(history, k, es, nx, pv, en, v1, set1, cs1, ca, c, n, m, nx2, pv2, v, cs)
    BY <1>1, <1>4, <1>6, <2>1, <2>2, <2>4, <2>6, <2>7 DEF Pops
  <2> QED
    BY <2>8, BacktrackOK
<1>11. KeyInv(k)'
  <2>1. SearchOK(history, k, entries[k], next[k], prev[k], entry[k], state[k], linearized[k],
                 calls[k], cache[k])'
    BY <1>2, <1>8, <1>9, <1>10 DEF OnlyKey
  <2>2. LongestOK(history, k, longest[k])'
    BY <1>8, <1>9, LongerOK DEF OnlyKey
  <2>3. ResultOK(history, k, pc[k], result[k], linearized[k], kill)'
    BY <1>1, <1>6, <1>9 DEF OnlyKey, KeyInv, ResultOK
  <2> QED
    BY <2>1, <2>2, <2>3 DEF KeyInv
<1>12. ParallelInv'
  BY <1>1, <1>9, QuietParallel
<1> QED
  BY <1>9, <1>11, <1>12, KeyStep

LEMMA StopInv ==
    ASSUME CheckInv, NEW k \in Partitions, Stop(k) PROVE CheckInv'
<1>1. /\ DomainInv /\ ParallelInv /\ KeyInv(k) /\ IsHistory(history) /\ k \in Keys
      /\ OpsOn(k) = On(history, k)
  BY InputFacts DEF CheckInv
<1>2. PICK es, cs, nx, pv, en, v, set, ca :
         /\ es = entries[k] /\ cs = calls[k] /\ nx = next[k] /\ pv = prev[k] /\ en = entry[k]
         /\ v = state[k] /\ set = linearized[k] /\ ca = cache[k]
  OBVIOUS
<1>3. SearchOK(history, k, es, nx, pv, en, v, set, cs, ca)
  BY <1>1, <1>2 DEF KeyInv
<1>4. pc[k] = "search" /\ ~result[k]
  BY <1>1 DEF Stop, KeyInv, ResultOK
<1>5. /\ pc' = [pc EXCEPT ![k] = "send"]
      /\ UNCHANGED <<input, next, prev, entry, state, linearized, calls, cache, parallel>>
  BY DEF Stop
<1> DEFINE all == [i \in OpsOn(k) |-> Ids(k, calls[k])]
<1>6. \/ /\ nx[0] = Nil /\ longest' = [longest EXCEPT ![k] = all]
         /\ result' = [result EXCEPT ![k] = TRUE]
      \/ /\ nx[0] # Nil /\ (kill \/ (es[en].kind # "call" /\ cs = <<>>))
         /\ UNCHANGED <<longest, result>>
  BY <1>2 DEF Stop, IsCall
<1>7. nx[0] = Nil => LongestOK(history, k, all) /\ set = On(history, k)
  <2> SUFFICES ASSUME nx[0] = Nil PROVE LongestOK(history, k, all) /\ set = On(history, k)
    OBVIOUS
  <2>1. set = On(history, k)
    BY <1>1, <1>3, ListEmpty
  <2>2. \A i \in On(history, k) : PartialOK(history, k, i, Ids(k, calls[k]))
    BY <1>2, <2>1, IdsPartial
  <2> QED
    BY <1>1, <2>1, <2>2 DEF LongestOK
<1> HIDE DEF all
<1>8. OnlyKey(k) /\ pc'[k] = "send"
  <2>1. history' = history /\ entries' = entries /\ computeInfo' = computeInfo /\ kill' = kill
    BY <1>5 DEF input, parallel
  <2>2. Partitions' = Partitions
    BY <2>1 DEF Partitions
  <2>3. /\ DOMAIN longest' = Partitions /\ DOMAIN result' = Partitions /\ DOMAIN pc' = Partitions
        /\ pc'[k] = "send"
        /\ \A l \in Partitions : l # k => /\ longest'[l] = longest[l] /\ result'[l] = result[l]
                                          /\ pc'[l] = pc[l]
    BY <1>1, <1>5, <1>6 DEF DomainInv
  <2>4. DomainInv'
    BY <1>1, <1>5, <2>1, <2>2, <2>3 DEF DomainInv
  <2>5. \A l \in Partitions : l # k => SameVars(l)
    BY <1>5, <2>3 DEF SameVars
  <2> QED
    BY <2>1, <2>3, <2>4, <2>5 DEF OnlyKey
<1>9. LongestOK(history, k, longest'[k]) /\ ResultOK(history, k, "send", result'[k], set, kill)
  <2>1. CASE nx[0] = Nil
    <3>1. longest'[k] = all /\ result'[k] = TRUE
      BY <1>1, <1>6, <2>1 DEF DomainInv
    <3> QED
      BY <1>7, <2>1, <3>1 DEF ResultOK
  <2>2. CASE nx[0] # Nil
    <3>1. longest' = longest /\ result' = result /\ (kill \/ (es[en].kind # "call" /\ cs = <<>>))
      BY <1>6, <2>2
    <3>2. es[en].kind # "call" /\ cs = <<>> => ~Reach(history, k, {}, <<>>)
      <4>1. es[en].kind \in {"call", "return"}
        BY <1>2, <2>2, EntryIsNode
      <4> QED
        BY <1>1, <1>3, <2>2, <4>1, NothingLeft
    <3>3. result'[k] = FALSE
      BY <1>1, <1>4, <3>1 DEF KeyInv, ResultOK
    <3>4. LongestOK(history, k, longest'[k])
      BY <1>1, <3>1 DEF KeyInv
    <3> QED
      BY <3>1, <3>2, <3>3, <3>4 DEF ResultOK
  <2> QED
    BY <2>1, <2>2
<1>10. KeyInv(k)'
  <2>1. SearchOK(history, k, entries[k], next[k], prev[k], entry[k], state[k], linearized[k],
                 calls[k], cache[k])'
    BY <1>2, <1>3, <1>5, <1>8 DEF OnlyKey
  <2>2. LongestOK(history, k, longest[k])'
    BY <1>8, <1>9 DEF OnlyKey
  <2>3. ResultOK(history, k, pc[k], result[k], linearized[k], kill)'
    BY <1>2, <1>5, <1>8, <1>9 DEF OnlyKey
  <2> QED
    BY <2>1, <2>2, <2>3 DEF KeyInv
<1>11. ParallelInv'
  <2>1. \A l \in Partitions : /\ pc'[l] = "ended" <=> pc[l] = "ended"
                              /\ pc[l] = "ended" => result'[l] = result[l]
    BY <1>4, <1>8 DEF OnlyKey, SameVars
  <2>2. Partitions' = Partitions /\ results' = results
    BY <1>5 DEF input, parallel, Partitions
  <2>3. Received' = Received /\ \A l \in Received : result'[l] = result[l]
    BY <2>1, <2>2 DEF Received
  <2>4. results' \subseteq {l \in Partitions : pc'[l] = "ended"}
    BY <1>1, <2>1, <2>2 DEF ParallelInv
  <2> QED
    BY <1>1, <1>5, <1>8, <2>3, <2>4, SameParallel DEF parallel, OnlyKey
<1> QED
  BY <1>8, <1>10, <1>11, KeyStep

LEMMA SendInv ==
    ASSUME CheckInv, NEW k \in Partitions, Send(k) PROVE CheckInv'
<1>1. DomainInv /\ ParallelInv /\ KeyInv(k)
  BY DEF CheckInv
<1>2. /\ pc[k] = "send" /\ results' = results \cup {k} /\ pc' = [pc EXCEPT ![k] = "ended"]
      /\ UNCHANGED <<input, search, result, kill, ok, timedOut, count, at, verdict>>
  BY DEF Send
<1>3. pc'[k] = "ended" /\ \A l \in Partitions : l # k => pc'[l] = pc[l]
  BY <1>1, <1>2 DEF DomainInv
<1>4. OnlyKey(k)
  <2>1. history' = history /\ entries' = entries /\ computeInfo' = computeInfo /\ kill' = kill
    BY <1>2 DEF input
  <2>2. Partitions' = Partitions
    BY <2>1 DEF Partitions
  <2>3. DomainInv'
    BY <1>1, <1>2, <2>1, <2>2 DEF DomainInv, search
  <2>4. \A l \in Partitions : l # k => SameVars(l)
    BY <1>2, <1>3 DEF SameVars, search
  <2> QED
    BY <2>1, <2>3, <2>4 DEF OnlyKey
<1>5. KeyInv(k)'
  <2>1. SearchOK(history, k, entries[k], next[k], prev[k], entry[k], state[k], linearized[k],
                 calls[k], cache[k])'
    <3>1. SearchOK(history, k, entries[k], next[k], prev[k], entry[k], state[k], linearized[k],
                   calls[k], cache[k])
      BY <1>1 DEF KeyInv
    <3> QED
      BY <1>2, <3>1 DEF input, search
  <2>2. LongestOK(history, k, longest[k])'
    BY <1>1, <1>2 DEF KeyInv, input, search
  <2>3. ResultOK(history, k, "ended", result[k], linearized[k], kill)
    BY <1>1, <1>2 DEF KeyInv, ResultOK
  <2>4. ResultOK(history, k, pc[k], result[k], linearized[k], kill)'
    BY <1>2, <1>3, <2>3 DEF input, search
  <2> QED
    BY <2>1, <2>2, <2>4 DEF KeyInv
<1>6. ParallelInv'
  <2>1. Partitions' = Partitions /\ results \subseteq {l \in Partitions : pc[l] = "ended"}
    BY <1>1, <1>2 DEF input, Partitions, ParallelInv
  <2>2. Received' = Received
    BY <1>2, <1>3, <2>1 DEF Received
  <2>3. results' \subseteq {l \in Partitions : pc'[l] = "ended"}
    BY <1>2, <1>3, <2>1
  <2> QED
    BY <1>1, <1>2, <2>2, <2>3, SameParallel DEF input
<1> QED
  BY <1>4, <1>5, <1>6, KeyStep

\* A step of checkParallel itself.
LEMMA CollectStep ==
    ASSUME CheckInv, UNCHANGED <<input, search, pc, result>>, kill => kill', ParallelInv'
    PROVE  CheckInv'
<1>1. /\ history' = history /\ entries' = entries
      /\ \A l \in Partitions : SameVars(l)
  BY DEF input, search, SameVars
<1>2. kill \in BOOLEAN /\ kill' \in BOOLEAN
  BY DEF CheckInv, ParallelInv
<1>3. Partitions' = Partitions /\ history' \in Histories
  BY <1>1 DEF Partitions, CheckInv
<1>4. DomainInv'
  BY <1>1, <1>3 DEF CheckInv, DomainInv, search
<1>5. \A l \in Partitions : KeyInv(l)'
  BY <1>1, <1>2, SameKey DEF CheckInv
<1> QED
  BY <1>3, <1>4, <1>5 DEF CheckInv

\* One more result is received, once.
LEMMA Arrive ==
    ASSUME CheckInv, NEW k \in results, results' = results \ {k}, UNCHANGED <<input, pc>>
    PROVE  /\ Received' = Received \cup {k} /\ Received' \subseteq Partitions
           /\ Cardinality(Received') = count + 1 /\ k \in Partitions /\ pc[k] = "ended"
           /\ results' \subseteq {l \in Partitions : pc'[l] = "ended"}
<1>1. results \subseteq {l \in Partitions : pc[l] = "ended"} /\ count = Cardinality(Received)
  BY DEF CheckInv, ParallelInv
<1>2. Partitions' = Partitions /\ pc' = pc
  BY DEF input, Partitions
<1>3. /\ Received' = Received \cup {k} /\ k \notin Received /\ k \in Partitions /\ pc[k] = "ended"
      /\ results' \subseteq {l \in Partitions : pc'[l] = "ended"}
  BY <1>1, <1>2 DEF Received
<1>4. Received \subseteq Partitions
  BY DEF Received
<1>5. IsFiniteSet(Received)
  BY <1>4, InputFacts, FS_Subset DEF CheckInv
<1>6. Cardinality(Received \cup {k}) = Cardinality(Received) + 1
  <2>1. k \notin Received
    BY <1>3
  <2> QED
    BY <1>5, <2>1, FS_AddElement
<1> QED
  BY <1>1, <1>3, <1>4, <1>6

LEMMA AllOfThem ==
    ASSUME NEW P, IsFiniteSet(P), NEW S \in SUBSET P, ~(Cardinality(S) < Cardinality(P)) PROVE S = P
<1>1. Cardinality(S) \in Nat /\ Cardinality(P) \in Nat /\ Cardinality(S) <= Cardinality(P)
  BY SMT, FS_Subset, FS_CardinalityType
<1>2. Cardinality(S) = Cardinality(P)
  BY SMT, <1>1
<1> QED
  BY <1>2, FS_Subset

LEMMA ReceiveInv ==
    ASSUME CheckInv, NEW k \in Partitions, Receive(k) PROVE CheckInv'
<1>1. /\ ParallelInv /\ KeyInv(k) /\ IsHistory(history) /\ k \in Keys /\ IsFiniteSet(Partitions)
  BY InputFacts DEF CheckInv
<1>2. /\ at = "loop" /\ k \in results /\ results' = results \ {k} /\ count' = count + 1
      /\ ok' = (ok /\ result[k]) /\ kill' = (kill \/ (~ok' /\ ~computeInfo))
      /\ at' = IF (~ok' /\ ~computeInfo) \/ AllIn(count') THEN "drain" ELSE "loop"
      /\ UNCHANGED <<input, search, pc, result, timedOut, verdict>>
  BY DEF Receive
<1>3. /\ Received' = Received \cup {k} /\ Received' \subseteq Partitions
      /\ Cardinality(Received') = count' /\ pc[k] = "ended"
      /\ results' \subseteq {l \in Partitions : pc'[l] = "ended"}
  BY <1>2, Arrive
<1>4. /\ ok \in BOOLEAN /\ computeInfo \in BOOLEAN /\ timedOut \in BOOLEAN /\ ~kill /\ ~timedOut
      /\ verdict = "none" /\ (ok => \A l \in Received : result[l])
      /\ kill = FALSE /\ timedOut = FALSE
  <2>1. kill \in BOOLEAN /\ ~kill /\ timedOut \in BOOLEAN /\ ~timedOut
    BY <1>1, <1>2 DEF ParallelInv
  <2>2. verdict = "none"
    <3>1. verdict # "none" => at = "end"
      BY <1>1 DEF ParallelInv
    <3> QED
      BY SMT, <1>2, <3>1
  <2> QED
    BY <1>1, <1>2, <2>1, <2>2 DEF ParallelInv
<1>5. result[k] \in BOOLEAN /\ (~result[k] => ~LinearizableHistory)
  <2>1. ResultOK(history, k, "ended", result[k], linearized[k], kill)
    BY <1>1, <1>3 DEF KeyInv
  <2>2. result[k] \in BOOLEAN /\ (~result[k] => ~Reach(history, k, {}, <<>>))
    <3>1. "ended" # "search"
      OBVIOUS
    <3> QED
      BY <1>4, <2>1, <3>1 DEF ResultOK
  <2>3. LinearizableHistory => Reach(history, k, {}, <<>>)
    BY <1>1, ReachStart DEF LinearizableHistory
  <2> QED
    BY <2>2, <2>3
<1>6. /\ Partitions' = Partitions /\ LinearizableHistory' = LinearizableHistory
      /\ computeInfo' = computeInfo /\ timedOut' = timedOut /\ verdict' = verdict
      /\ result' = result
  BY <1>2 DEF input, Partitions, LinearizableHistory
<1>7. ok' \in BOOLEAN /\ kill' \in BOOLEAN /\ (~ok' => ~LinearizableHistory)
  BY <1>1, <1>2, <1>4, <1>5 DEF ParallelInv
<1>8. ok' => \A l \in Received' : result[l]
  BY <1>2, <1>3, <1>4
<1>9. at' \in {"loop", "drain"} /\ at' # "end" /\ (at' = "loop" => ~kill')
  BY SMT, <1>2, <1>4
<1>10. at' # "loop" /\ ok' => Received' = Partitions
  <2> SUFFICES ASSUME at' # "loop", ok' PROVE Received' = Partitions
    OBVIOUS
  <2>1. AllIn(count')
    BY <1>2
  <2>2. Cardinality(Partitions) \in Nat /\ Cardinality(Received') \in Nat
    BY <1>1, <1>3, FS_Subset, FS_CardinalityType
  <2>3. ~(Cardinality(Received') < Cardinality(Partitions))
    BY SMT, <1>3, <2>1, <2>2 DEF AllIn
  <2> QED
    BY <1>1, <1>3, <2>3, AllOfThem
<1>11. ParallelInv'
  <2>1. (results \subseteq {l \in Partitions : pc[l] = "ended"})' /\ (count = Cardinality(Received))'
    BY <1>3, <1>6
  <2>2. (/\ kill \in BOOLEAN /\ ok \in BOOLEAN /\ timedOut \in BOOLEAN /\ computeInfo \in BOOLEAN
         /\ at \in {"loop", "drain", "end"} /\ verdict \in {"none", "Ok", "Illegal", "Unknown"}
         /\ (at = "loop" => ~kill /\ ~timedOut))'
    BY <1>4, <1>6, <1>7, <1>9
  <2>3. (/\ at = "loop" /\ ok => \A l \in Received : result[l]
         /\ ~ok => ~LinearizableHistory
         /\ at # "loop" /\ ok /\ ~timedOut
               => Received = Partitions /\ \A l \in Partitions : result[l])'
    BY <1>6, <1>7, <1>8, <1>10
  <2>4. (verdict # "none" => at = "end")' /\ at' # "end"
    BY <1>4, <1>6, <1>9
  <2> QED
    BY <2>1, <2>2, <2>3, <2>4 DEF ParallelInv
<1> QED
  BY <1>2, <1>11, <1>4, CollectStep

LEMMA DrainInv ==
    ASSUME CheckInv, NEW k \in Partitions, Drain(k) PROVE CheckInv'
<1>1. ParallelInv
  BY DEF CheckInv
<1>2. /\ at = "drain" /\ k \in results /\ results' = results \ {k} /\ count' = count + 1
      /\ UNCHANGED <<input, search, pc, result, kill, ok, timedOut, at, verdict>>
  BY DEF Drain
<1>3. /\ Received' = Received \cup {k} /\ Received' \subseteq Partitions
      /\ Cardinality(Received') = count'
      /\ results' \subseteq {l \in Partitions : pc'[l] = "ended"}
  BY <1>2, Arrive
<1>4. /\ Partitions' = Partitions /\ LinearizableHistory' = LinearizableHistory
      /\ computeInfo' = computeInfo /\ timedOut' = timedOut /\ verdict' = verdict
      /\ result' = result /\ kill' = kill /\ ok' = ok /\ at' = at
  BY <1>2 DEF input, Partitions, LinearizableHistory
<1>5. at # "loop" /\ at # "end"
  BY <1>2
<1>6. (results \subseteq {l \in Partitions : pc[l] = "ended"})' /\ (count = Cardinality(Received))'
  BY <1>3, <1>4
<1>7. (/\ kill \in BOOLEAN /\ ok \in BOOLEAN /\ timedOut \in BOOLEAN /\ computeInfo \in BOOLEAN
       /\ at \in {"loop", "drain", "end"} /\ verdict \in {"none", "Ok", "Illegal", "Unknown"})'
  BY <1>1, <1>4 DEF ParallelInv
<1>8. ok /\ ~timedOut => Received = Partitions /\ \A l \in Partitions : result[l]
  BY <1>1, <1>5 DEF ParallelInv
<1>9. (at # "loop" /\ ok /\ ~timedOut => Received = Partitions /\ \A l \in Partitions : result[l])'
  BY <1>3, <1>4, <1>8
<1>10. (~ok => ~LinearizableHistory)' /\ (verdict # "none" => at = "end")'
  BY <1>1, <1>4 DEF ParallelInv
<1>11. ParallelInv'
  BY <1>4, <1>5, <1>6, <1>7, <1>9, <1>10 DEF ParallelInv
<1> QED
  BY <1>2, <1>11, CollectStep

LEMMA FinishInv ==
    ASSUME CheckInv, Finish PROVE CheckInv'
<1>1. ParallelInv /\ IsFiniteSet(Partitions)
  BY InputFacts DEF CheckInv
<1>2. /\ at = "drain" /\ ~Wait /\ verdict' = Verdict /\ at' = "end"
      /\ UNCHANGED <<input, search, pc, result, kill, ok, timedOut, results, count>>
  BY DEF Finish
<1>3. /\ Partitions' = Partitions /\ LinearizableHistory' = LinearizableHistory
      /\ computeInfo' = computeInfo /\ timedOut' = timedOut /\ Verdict' = Verdict
      /\ result' = result /\ kill' = kill /\ ok' = ok /\ Received' = Received
      /\ results' = results /\ pc' = pc /\ count' = count
  BY <1>2 DEF input, Partitions, LinearizableHistory, Verdict, Received
<1>4. at # "loop" /\ at' # "loop"
  BY <1>2
<1>5. Verdict \in {"none", "Ok", "Illegal", "Unknown"}
  BY DEF Verdict
<1>6. computeInfo => Received = Partitions
  <2>1. Received \in SUBSET Partitions
    BY DEF Received
  <2>2. computeInfo => ~(Cardinality(Received) < Cardinality(Partitions))
    BY <1>1, <1>2 DEF Wait, ParallelInv
  <2> QED
    BY <1>1, <2>1, <2>2, AllOfThem
<1>7. (results \subseteq {l \in Partitions : pc[l] = "ended"})' /\ (count = Cardinality(Received))'
  BY <1>1, <1>3 DEF ParallelInv
<1>8. (/\ kill \in BOOLEAN /\ ok \in BOOLEAN /\ timedOut \in BOOLEAN /\ computeInfo \in BOOLEAN
       /\ at \in {"loop", "drain", "end"} /\ verdict \in {"none", "Ok", "Illegal", "Unknown"})'
  BY <1>1, <1>2, <1>3, <1>5 DEF ParallelInv
<1>9. (at # "loop" /\ ok /\ ~timedOut => Received = Partitions /\ \A l \in Partitions : result[l])'
  BY <1>1, <1>3, <1>4 DEF ParallelInv
<1>10. (~ok => ~LinearizableHistory)'
  BY <1>1, <1>3 DEF ParallelInv
<1>11. (at = "end" => verdict = Verdict /\ (computeInfo => Received = Partitions))'
  BY <1>2, <1>3, <1>6
<1>12. ParallelInv'
  BY <1>2, <1>4, <1>7, <1>8, <1>9, <1>10, <1>11 DEF ParallelInv
<1> QED
  BY <1>2, <1>12, CollectStep

LEMMA TimeOutInv ==
    ASSUME CheckInv, TimeOut PROVE CheckInv'
<1>1. ParallelInv
  BY DEF CheckInv
<1>2. /\ at = "loop" /\ timedOut' = TRUE /\ kill' = TRUE /\ at' = "drain"
      /\ UNCHANGED <<input, search, pc, result, ok, results, count, verdict>>
  BY DEF TimeOut
<1>3. /\ Partitions' = Partitions /\ LinearizableHistory' = LinearizableHistory
      /\ computeInfo' = computeInfo /\ verdict' = verdict /\ Received' = Received
      /\ result' = result /\ ok' = ok /\ results' = results /\ pc' = pc /\ count' = count
  BY <1>2 DEF input, Partitions, LinearizableHistory, Received
<1>4. at' # "loop" /\ at' # "end" /\ at # "end" /\ timedOut' /\ kill'
  BY <1>2
<1>5. (results \subseteq {l \in Partitions : pc[l] = "ended"})' /\ (count = Cardinality(Received))'
  BY <1>1, <1>3 DEF ParallelInv
<1>6. (/\ kill \in BOOLEAN /\ ok \in BOOLEAN /\ timedOut \in BOOLEAN /\ computeInfo \in BOOLEAN
       /\ at \in {"loop", "drain", "end"} /\ verdict \in {"none", "Ok", "Illegal", "Unknown"})'
  BY <1>1, <1>2, <1>3 DEF ParallelInv
<1>7. (~ok => ~LinearizableHistory)' /\ (verdict # "none" => at = "end")'
  BY <1>1, <1>3, <1>4 DEF ParallelInv
<1>8. ParallelInv'
  BY <1>4, <1>5, <1>6, <1>7 DEF ParallelInv
<1> QED
  BY <1>2, <1>4, <1>8, CollectStep

-----------------------------------------------------------------------------
(***************************************************************************)
(* The start of the check.                                                 *)
(***************************************************************************)

\* The list that makeLinkedEntries() links.
LEMMA LinksAtStart ==
    ASSUME NEW es, Len(es) \in Nat PROVE LinksOK(es, <<>>, LinkedEntries(es), BackLinks(es))
<1>1. PICK N, nx, pv : N = Len(es) /\ nx = LinkedEntries(es) /\ pv = BackLinks(es)
  OBVIOUS
<1>2. /\ nx = [n \in 0 .. N |-> IF n = N THEN Nil ELSE n + 1] /\ pv = [n \in 0 .. N |-> n - 1]
      /\ N \in Nat
  BY <1>1 DEF LinkedEntries, BackLinks
<1>3. nx \in NextLinks(N)
  BY SMT, <1>2 DEF NextLinks
<1>4. pv \in PrevLinks(N)
  BY SMT, <1>2 DEF PrevLinks, Nil
<1>5. \A n \in 0 .. N : NextIn(1 .. N, nx, n)
  BY SMT, <1>2 DEF NextIn, Follows, AtEnd, Nil
<1>6. \A n \in 1 .. N : PrevIn(1 .. N, pv, n)
  BY SMT, <1>2 DEF PrevIn
<1>7. Len(<<>>) = 0 /\ (\A d : d \notin 1 .. 0) /\ 1 .. N \cup {0} = 0 .. N
  BY SMT, <1>2
<1>8. Left(es, <<>>, Len(<<>>)) = 1 .. N
  BY <1>1, <1>7 DEF Left, NodesWithout, Done
<1> QED
  BY <1>1, <1>3, <1>4, <1>5, <1>6, <1>7, <1>8 DEF LinksOK, Linked

LEMMA SearchStart ==
    ASSUME NEW h, NEW k, NEW es, Sorted(h, k, es)
    PROVE  SearchOK(h, k, es, LinkedEntries(es), BackLinks(es), 1, <<>>, {}, <<>>, {})
<1>1. Len(es) \in Nat
  BY SMT DEF Sorted
<1>2. Len(<<>>) = 0 /\ (\A d : d \notin 1 .. 0) /\ IsStack(<<>>) /\ ~(0 < Len(<<>>))
  BY SMT DEF IsStack
<1>3. LinksOK(es, <<>>, LinkedEntries(es), BackLinks(es))
  BY <1>1, LinksAtStart
<1>4. Done(es, <<>>, Len(<<>>)) = {} /\ Left(es, <<>>, Len(<<>>)) = 1 .. Len(es)
  BY <1>2 DEF Left, NodesWithout, Done
<1>5. StackOK(h, es, <<>>, <<>>)
  BY <1>2 DEF StackOK, ValueAt
<1>6. EntryOK(es, <<>>, LinkedEntries(es), 1)
  <2>1. LinkedEntries(es)[0] # Nil => 1 \in 1 .. Len(es)
    BY SMT, <1>1 DEF LinkedEntries
  <2>2. \A r \in 1 .. Len(es) : ~(r < 1)
    BY SMT, <1>1
  <2> QED
    BY <1>4, <2>1, <2>2 DEF EntryOK, InFront
<1>7. TriedOK(h, k, es, <<>>, <<>>, 1, {})
  <2>1. \A r \in 1 .. Len(es) : ~(r < 1)
    BY SMT, <1>1
  <2> QED
    BY <1>2, <1>4, <2>1 DEF TriedOK, CacheOK, PassedOK
<1> QED
  BY <1>3, <1>4, <1>5, <1>6, <1>7 DEF SearchOK

LEMMA InitCheckInv ==
    ASSUME Init PROVE CheckInv
<1>1. history \in Histories /\ computeInfo \in BOOLEAN
  BY DEF Init
<1>2. IsHistory(history) /\ \A k \in Partitions : k \in Keys /\ OpsOn(k) = On(history, k)
  BY <1>1, InputFacts
<1>3. PICK rank \in Numberings(history) : entries = [k \in Partitions |-> makeEntries(k, rank)]
  BY DEF Init
<1>4. DomainInv
  BY <1>3 DEF Init, DomainInv
<1>5. ParallelInv
  <2>1. Received = {} /\ (\A k \in Partitions : pc[k] = "search") /\ results = {} /\ count = 0
    BY DEF Init, Received
  <2>2. Cardinality({}) = 0
    BY FS_EmptySet
  <2>3. kill = FALSE /\ ok = TRUE /\ timedOut = FALSE /\ at = "loop" /\ verdict = "none" /\ at # "end"
    BY DEF Init
  <2> QED
    BY <1>1, <2>1, <2>2, <2>3 DEF ParallelInv
<1>6. ASSUME NEW k \in Partitions PROVE KeyInv(k)
  <2>1. PICK es : es = entries[k]
    OBVIOUS
  <2>2. Sorted(history, k, es)
    BY <1>2, <1>3, <2>1, EntriesSorted
  <2>3. SearchOK(history, k, es, LinkedEntries(es), BackLinks(es), 1, <<>>, {}, <<>>, {})
    BY <2>2, SearchStart
  <2>4. /\ next[k] = LinkedEntries(es) /\ prev[k] = BackLinks(es) /\ entry[k] = 1
        /\ state[k] = <<>> /\ linearized[k] = {} /\ calls[k] = <<>> /\ cache[k] = {}
        /\ longest[k] = [i \in OpsOn(k) |-> <<>>] /\ pc[k] = "search" /\ result[k] = FALSE
        /\ kill = FALSE
    BY <2>1 DEF Init
  <2>5. LongestOK(history, k, longest[k])
    BY <1>2, <2>4 DEF LongestOK
  <2>6. ResultOK(history, k, "search", FALSE, {}, FALSE)
    BY DEF ResultOK
  <2> QED
    BY <2>1, <2>3, <2>4, <2>5, <2>6 DEF KeyInv
<1> QED
  BY <1>1, <1>4, <1>5, <1>6 DEF CheckInv

LEMMA NextCheckInv ==
    ASSUME CheckInv, [Next]_vars PROVE CheckInv'
<1>1. CASE \E k \in Partitions : Search(k)
  BY <1>1, LinearizeInv, SkipInv, BacktrackInv, StopInv, SendInv DEF Search
<1>2. CASE Collect
  BY <1>2, ReceiveInv, DrainInv, FinishInv DEF Collect
<1>3. CASE TimeOut
  BY <1>3, TimeOutInv
<1>4. CASE UNCHANGED vars
  <2>1. ParallelInv /\ kill' = kill /\ UNCHANGED <<input, search, pc, result>>
    BY <1>4 DEF vars, CheckInv, parallel
  <2>2. Received' = Received /\ results' \subseteq {l \in Partitions : pc'[l] = "ended"}
    BY <1>4, <2>1 DEF Received, parallel, vars, input, Partitions, ParallelInv
  <2>3. ParallelInv'
    BY <1>4, <2>1, <2>2, SameParallel DEF vars, parallel, input
  <2> QED
    BY <2>1, <2>3, CollectStep
<1> QED
  BY <1>1, <1>2, <1>3, <1>4 DEF Next

-----------------------------------------------------------------------------
(***************************************************************************)
(* The theorems.                                                           *)
(***************************************************************************)

\* At every moment of CheckOperations, each checkSingle has a stack of calls
\* that is a legal linearization of some of its operations, a list that holds
\* the others and can be restored by unlift(), and a cache that excludes only
\* what leads nowhere; checkParallel knows what it has received.
THEOREM CheckInvariant == Spec => []CheckInv
<1>1. Init => CheckInv
  BY InitCheckInv
<1>2. CheckInv /\ [Next]_vars => CheckInv'
  BY NextCheckInv
<1> QED
  BY <1>1, <1>2, PTL DEF Spec

LEMMA CountBounded ==
    ASSUME CheckInv PROVE results \subseteq Partitions /\ count \in 0 .. Cardinality(Partitions)
<1>1. IsFiniteSet(Partitions) /\ ParallelInv
  BY InputFacts DEF CheckInv
<1>2. Received \in SUBSET Partitions /\ results \subseteq Partitions /\ count = Cardinality(Received)
  BY <1>1 DEF Received, ParallelInv
<1>3. PICK a, b : a = Cardinality(Received) /\ b = Cardinality(Partitions)
  OBVIOUS
<1>4. IsFiniteSet(Received) /\ a <= b
  BY <1>1, <1>2, <1>3, FS_Subset
<1>5. a \in Nat /\ b \in Nat
  BY <1>1, <1>3, <1>4, FS_CardinalityType
<1>6. a \in 0 .. b
  BY SMT, <1>4, <1>5
<1> QED
  BY <1>2, <1>3, <1>6

LEMMA CheckTypes ==
    ASSUME CheckInv PROVE TypeOK
<1>1. ASSUME NEW k \in Partitions
      PROVE  /\ DOMAIN next[k] = 0 .. Last(k) /\ DOMAIN prev[k] = 0 .. Last(k)
             /\ \A n \in 0 .. Last(k) : /\ next[k][n] \in (1 .. Last(k)) \cup {Nil}
                                        /\ prev[k][n] \in (0 .. Last(k)) \cup {Nil}
             /\ linearized[k] \subseteq OpsOn(k)
             /\ pc[k] = "search" /\ next[k][0] # Nil => entry[k] \in 1 .. Last(k)
             /\ pc[k] \in {"search", "send", "ended"} /\ result[k] \in BOOLEAN
  <2>1. KeyInv(k) /\ IsHistory(history) /\ k \in Keys /\ OpsOn(k) = On(history, k)
    BY InputFacts DEF CheckInv
  <2>2. SearchOK(history, k, entries[k], next[k], prev[k], entry[k], state[k], linearized[k],
                 calls[k], cache[k])
    BY <2>1 DEF KeyInv
  <2>3. next[k] \in NextLinks(Last(k)) /\ prev[k] \in PrevLinks(Last(k))
    BY <2>2 DEF SearchOK, LinksOK, Last
  <2>4. linearized[k] \subseteq OpsOn(k)
    <3>1. PICK es, cs, nx, pv, n, v, set, ca :
             /\ es = entries[k] /\ cs = calls[k] /\ nx = next[k] /\ pv = prev[k] /\ n = entry[k]
             /\ v = state[k] /\ set = linearized[k] /\ ca = cache[k]
      OBVIOUS
    <3>2. SearchOK(history, k, es, nx, pv, n, v, set, cs, ca)
      BY <2>2, <3>1
    <3>3. set \subseteq On(history, k)
      BY <2>1, <3>2, SetFacts
    <3> QED
      BY <2>1, <3>1, <3>3
  <2>5. next[k][0] # Nil => entry[k] \in 1 .. Last(k)
    BY EntryIsNode DEF Last
  <2>6. pc[k] \in {"search", "send", "ended"} /\ result[k] \in BOOLEAN
    BY <2>1 DEF KeyInv, ResultOK
  <2> QED
    BY <2>3, <2>4, <2>5, <2>6 DEF NextLinks, PrevLinks
<1>2. at \in {"loop", "drain", "end"} /\ verdict \in {"none", "Ok", "Illegal", "Unknown"}
  BY DEF CheckInv, ParallelInv
<1> QED
  BY <1>1, <1>2, CountBounded DEF TypeOK, CheckInv

\* checkSingle never follows a link out of its list, and checkParallel never
\* counts more results than there are searches.
THEOREM CheckTypeCorrect == Spec => []TypeOK
<1>1. CheckInv => TypeOK
  BY CheckTypes
<1> QED
  BY <1>1, CheckInvariant, PTL

\* In a list of nodes the links of neighbours agree.
LinkAt(nodes, nx, pv, n) ==
    LET later == {m \in nodes : m > n}
    IN  IF later = {} THEN nx[n] = Nil
        ELSE nx[n] \in later /\ (\A m \in later : nx[n] <= m) /\ pv[nx[n]] = n

LEMMA Neighbours ==
    ASSUME NEW N \in Nat, NEW nodes \in SUBSET (1 .. N), NEW nx, NEW pv, Linked(nodes, nx, pv),
           NEW n \in nodes \cup {0}
    PROVE  LinkAt(nodes, nx, pv, n)
<1>1. NextIn(nodes, nx, n)
  BY DEF Linked
<1>2. n \in Nat /\ \A r \in nodes : r \in Nat /\ r > 0
  BY SMT
<1>3. CASE nx[n] = Nil
  <2>1. \A r \in nodes : ~(r > n)
    BY SMT, <1>1, <1>2, <1>3 DEF NextIn, AtEnd
  <2> QED
    BY <1>3, <2>1 DEF LinkAt
<1>4. CASE nx[n] # Nil
  <2>1. PICK m, p : m = nx[n] /\ p = pv[m]
    OBVIOUS
  <2>2. m \in nodes /\ n < m /\ \A r \in nodes : n < r => m <= r
    BY <1>1, <1>4, <2>1 DEF NextIn, Follows
  <2>3. p \in nodes \cup {0} /\ p < m /\ \A r \in nodes : r < m => r <= p
    BY <2>1, <2>2 DEF Linked, PrevIn
  <2>4. p = n
    BY SMT, <1>2, <2>2, <2>3
  <2>5. m > n /\ \A r \in nodes : r > n => m <= r
    BY SMT, <1>2, <2>2
  <2> QED
    BY <2>1, <2>2, <2>4, <2>5 DEF LinkAt
<1> QED
  BY <1>3, <1>4

LEMMA CheckLists ==
    ASSUME CheckInv PROVE ListIntact
<1> SUFFICES ASSUME NEW k \in Partitions, NEW n \in Remaining(k) \cup {0}
             PROVE  LinkAt(Remaining(k), next[k], prev[k], n)
  BY DEF ListIntact, LinkAt
<1>1. PICK es, cs, nodes, N : /\ es = entries[k] /\ cs = calls[k] /\ N = Len(es)
                              /\ nodes = Left(es, cs, Len(cs))
  OBVIOUS
<1>2. SearchOK(history, k, entries[k], next[k], prev[k], entry[k], state[k], linearized[k],
               calls[k], cache[k])
  BY DEF CheckInv, KeyInv
<1>3. Sorted(history, k, es) /\ linearized[k] = Done(es, cs, Len(cs)) /\ LinksOK(es, cs, next[k], prev[k])
  BY <1>1, <1>2 DEF SearchOK
<1>4. N \in Nat /\ DOMAIN es = 1 .. N
  BY SMT, <1>1, <1>3 DEF Sorted
<1>5. Remaining(k) = nodes
  BY <1>1, <1>3, <1>4 DEF Remaining, Id, Left, NodesWithout
<1>6. nodes \in SUBSET (1 .. N) /\ Linked(nodes, next[k], prev[k])
  BY <1>1, <1>3 DEF Left, NodesWithout, LinksOK
<1>7. n \in nodes \cup {0}
  BY <1>5
<1>8. LinkAt(nodes, next[k], prev[k], n)
  BY <1>4, <1>6, <1>7, Neighbours
<1> QED
  BY <1>5, <1>8

\* lift() and unlift() keep each list whole: it links exactly the entries of
\* the operations that are not linearized, in both directions and in order.
THEOREM ListStaysWhole == Spec => []ListIntact
<1>1. CheckInv => ListIntact
  BY CheckLists
<1> QED
  BY <1>1, CheckInvariant, PTL

LEMMA CheckPartials ==
    ASSUME CheckInv PROVE PartialsValid
<1>1. ASSUME NEW k \in Partitions, NEW i \in OpsOn(k), longest[k][i] # <<>>
      PROVE  PartialOK(history, k, i, longest[k][i]) /\ OpsOn(k) = On(history, k)
  <2>1. LongestOK(history, k, longest[k]) /\ OpsOn(k) = On(history, k)
    BY InputFacts DEF CheckInv, KeyInv
  <2> QED
    BY <1>1, <2>1 DEF LongestOK
<1> QED
  BY <1>1 DEF PartialsValid, PartialOK

\* What computePartial copies to longest, from the stacks of searches that
\* ended, backtracked or were killed, are valid partial linearizations.
THEOREM PartialsAreValid == Spec => []PartialsValid
<1>1. CheckInv => PartialsValid
  BY CheckPartials
<1> QED
  BY <1>1, CheckInvariant, PTL

LEMMA AllTrue ==
    ASSUME CheckInv, \A k \in Partitions : result[k] PROVE LinearizableHistory
<1>1. IsHistory(history)
  BY InputFacts DEF CheckInv
<1>2. PICK Q, Ls : /\ Q = [k \in Partitions |-> [j \in DOMAIN calls[k] |-> entries[k][calls[k][j].entry].id]]
                   /\ Ls = [k \in Partitions |-> Len(calls[k])]
  OBVIOUS
<1>3. ASSUME NEW k \in Partitions PROVE Begins(history, k, Q[k], Ls[k], On(history, k))
  <2>1. KeyInv(k) /\ k \in Keys /\ result[k]
    BY InputFacts DEF CheckInv
  <2>2. linearized[k] = On(history, k)
    BY <2>1 DEF KeyInv, ResultOK
  <2>3. PICK es, cs, nx, pv, n, v, ca :
           /\ es = entries[k] /\ cs = calls[k] /\ nx = next[k] /\ pv = prev[k] /\ n = entry[k]
           /\ v = state[k] /\ ca = cache[k]
    OBVIOUS
  <2>4. SearchOK(history, k, es, nx, pv, n, v, On(history, k), cs, ca)
    BY <2>1, <2>2, <2>3 DEF KeyInv
  <2>5. PICK q : /\ q = [j \in DOMAIN cs |-> es[cs[j].entry].id]
                 /\ Begins(history, k, q, Len(cs), On(history, k))
    BY <1>1, <2>1, <2>4, SetFacts
  <2>6. Q[k] = q /\ Ls[k] = Len(cs)
    BY <1>2, <2>3, <2>5
  <2> QED
    BY <2>5, <2>6
<1>4. \A i \in DOMAIN history : Begins(history, history[i].Key, Q[history[i].Key],
                                       Ls[history[i].Key], On(history, history[i].Key))
  BY <1>3 DEF Partitions
<1> QED
  BY <1>1, <1>4, Merge DEF LinearizableHistory

LEMMA CheckVerdict ==
    ASSUME CheckInv PROVE VerdictCorrect
<1>1. ParallelInv
  BY DEF CheckInv
<1>2. CASE verdict = "none"
  <2>1. verdict # "Ok" /\ verdict # "Illegal" /\ verdict # "Unknown"
    BY <1>2
  <2> QED
    BY <2>1 DEF VerdictCorrect
<1>3. CASE verdict # "none"
  <2>1. at = "end" /\ verdict = Verdict
    BY <1>1, <1>3 DEF ParallelInv
  <2>2. at # "loop"
    BY <2>1
  <2>3. ok /\ ~timedOut => LinearizableHistory
    BY <1>1, <2>2, AllTrue DEF ParallelInv
  <2>4. ~ok => ~LinearizableHistory
    BY <1>1 DEF ParallelInv
  <2>5. /\ verdict = "Ok" => ok /\ ~timedOut
        /\ verdict = "Illegal" => ~ok
        /\ verdict = "Unknown" => timedOut
    BY <2>1 DEF Verdict
  <2> QED
    BY <2>3, <2>4, <2>5 DEF VerdictCorrect
<1> QED
  BY <1>2, <1>3

\* The verdict of CheckOperations is right for every history, however the
\* searches of its keys and the timeout interleave.
THEOREM VerdictIsCorrect == Spec => []VerdictCorrect
<1>1. CheckInv => VerdictCorrect
  BY CheckVerdict
<1> QED
  BY <1>1, CheckInvariant, PTL

LEMMA InfoStep ==
    ASSUME CheckInv, [Next]_vars, computeInfo, verdict # "none" PROVE UNCHANGED longest
<1>1. \A k \in Partitions : pc[k] = "ended"
  <2>1. at = "end"
    BY DEF CheckInv, ParallelInv
  <2>2. Received = Partitions
    BY <2>1 DEF CheckInv, ParallelInv
  <2> QED
    BY <2>2 DEF Received
<1>2. \A k \in Partitions : pc[k] # "search"
  BY <1>1
<1>3. CASE \E k \in Partitions : Search(k)
  BY <1>2, <1>3 DEF Search, Linearize, Skip, Backtrack, Stop, Searching, Send, search
<1>4. CASE Collect
  BY <1>4 DEF Collect, Receive, Drain, Finish, search
<1>5. CASE TimeOut
  BY <1>5 DEF TimeOut, search
<1>6. CASE UNCHANGED vars
  BY <1>6 DEF vars, search
<1> QED
  BY <1>3, <1>4, <1>5, <1>6 DEF Next

\* Once checkParallel has returned with info, no search that it killed on the
\* timeout still writes to the longest that the caller reads.
THEOREM InfoStaysPut == Spec => InfoStable
<1>1. CheckInv /\ [Next]_vars => (computeInfo /\ verdict # "none" => UNCHANGED longest)
  BY InfoStep
<1>2. CheckInv /\ [Next]_vars => [computeInfo /\ verdict # "none" => UNCHANGED longest]_vars
  BY <1>1
<1> QED
  BY <1>2, CheckInvariant, PTL DEF Spec, InfoStable
=============================================================================
