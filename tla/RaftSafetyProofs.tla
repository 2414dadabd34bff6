-------------------------- MODULE RaftSafetyProofs --------------------------
(***************************************************************************)
(* Every step of Raft keeps the history that SafetyInv speaks of, when the *)
(* service takes no snapshots, and what the history says of the logs, the  *)
(* commits and the services.  RaftTheorems puts the steps together.        *)
(***************************************************************************)
EXTENDS RaftSafety, TLAPS

(***************************************************************************)
(* Facts of sets and sequences.                                            *)
(***************************************************************************)

\* Two majorities share a server, and a bounded set of integers has a least
\* and a greatest element.  RaftTheorems derives this from ServersAssumption
\* and the lemmas of RaftProofs; here it is a hypothesis.
SetFacts ==
    /\ \A P, Q \in SUBSET Servers : IsMajority(P) /\ IsMajority(Q) => P \cap Q # {}
    /\ \A S \in SUBSET Int, b \in Int :
          (\A n \in S : b <= n) /\ S # {} => \E m \in S : \A n \in S : m <= n
    /\ \A S \in SUBSET Int, b \in Int :
          (\A n \in S : n <= b) /\ S # {} => \E m \in S : \A n \in S : n <= m

\* The length and the elements of a sequence.
LEMMA SequenceFacts ==
    ASSUME NEW S, NEW q \in Seq(S)
    PROVE  /\ Len(q) \in Nat /\ DOMAIN q = 1 .. Len(q) /\ q \in [1 .. Len(q) -> S]
           /\ \A k \in 1 .. Len(q) : q[k] \in S
           /\ q # <<>> <=> Len(q) >= 1
  OBVIOUS

\* What is known of the fields of AppendEntries arguments.
LEMMA CallFacts ==
    ASSUME AppendEntriesType, NEW m \in aeArgs
    PROVE  /\ m.Term \in Nat /\ m.From \in Servers /\ m.To \in Servers
           /\ m.PrevLogIndex \in Int /\ m.PrevLogTerm \in Int
           /\ m.Entries \in Seq(Entries) /\ m.LeaderCommit \in Int
           /\ Len(m.Entries) \in Nat
<1>1. m \in AppendEntriesArgs
  BY Zenon DEF AppendEntriesType
<1>2. m.Entries \in Seq(Entries)
  BY Zenon, <1>1 DEF AppendEntriesArgs
<1>3. Len(m.Entries) \in Nat
  BY Zenon, <1>2, SequenceFacts
<1> QED
  BY Zenon, <1>1, <1>2, <1>3 DEF AppendEntriesArgs

-----------------------------------------------------------------------------

(***************************************************************************)
(* Logs.                                                                   *)
(***************************************************************************)

\* Agreement up to a position is an equivalence on the logs that reach it.
LEMMA AgreeSame ==
    ASSUME NEW L, NEW M, NEW N, NEW p, Agree(L, M, p), Agree(M, N, p)
    PROVE  Agree(L, N, p)
BY Zenon DEF Agree

\* Agreement is symmetric.
LEMMA AgreeSym ==
    ASSUME NEW L, NEW M, NEW p, Agree(L, M, p)
    PROVE  Agree(M, L, p)
BY Zenon DEF Agree

\* Logs that agree up to a position agree up to every earlier one.
LEMMA AgreeLess ==
    ASSUME NEW L \in Seq(Entries), NEW M \in Seq(Entries), NEW p \in Int, NEW q \in Int,
           q <= p, Agree(L, M, p)
    PROVE  Agree(L, M, q)
<1>1. Len(L) \in Nat /\ Len(M) \in Nat
  BY Zenon, SequenceFacts
<1>2. p <= Len(L) /\ p <= Len(M) /\ \A k \in 1 .. p : L[k] = M[k]
  BY Zenon DEF Agree
<1>3. q <= Len(L) /\ q <= Len(M)
  BY <1>1, <1>2
<1>4. ASSUME NEW k \in 1 .. q PROVE k \in 1 .. p
  OBVIOUS
<1> QED
  BY Zenon, <1>2, <1>3, <1>4 DEF Agree

\* A log agrees with itself.
LEMMA AgreeSelf ==
    ASSUME NEW L \in Seq(Entries)
    PROVE  Agree(L, L, Len(L)) /\ \A p \in Int : p <= Len(L) => Agree(L, L, p)
BY SequenceFacts DEF Agree

\* An entry is also in a log that agrees.
LEMMA AgreeHas ==
    ASSUME NEW L \in Seq(Entries), NEW M \in Seq(Entries), NEW p \in Int, NEW q \in Int, NEW t,
           q <= p, Agree(L, M, p), Has(L, q, t)
    PROVE  Has(M, q, t)
<1>1. Len(L) \in Nat /\ Len(M) \in Nat
  BY Zenon, SequenceFacts
<1>2. p <= Len(M) /\ q \in 2 .. Len(L) /\ L[q].Term = t
  BY Zenon DEF Agree, Has
<1>3. q \in 2 .. Len(M) /\ q \in 1 .. p
  BY <1>1, <1>2
<1>4. L[q] = M[q]
  BY Zenon, <1>3 DEF Agree
<1> QED
  BY Zenon, <1>2, <1>3, <1>4 DEF Has

\* What is known of a log whose entries are backed by the history.
LEMMA BackedEntry ==
    ASSUME NEW T \in LeaderLogs, NEW W \in Leaderships, NEW L, Backed(L, T, W),
           NEW p, NEW t, Has(L, p, t)
    PROVE  t \in Nat /\ W[t] # Nobody /\ Agree(L, T[t], p)
BY Zenon DEF Backed, Has

\* Two such logs with an entry of the same position and term agree up to it.
LEMMA BackedMatch ==
    ASSUME NEW T \in LeaderLogs, NEW W \in Leaderships, NEW L, NEW M,
           Backed(L, T, W), Backed(M, T, W), NEW p, NEW t, Has(L, p, t), Has(M, p, t)
    PROVE  Agree(L, M, p)
<1>1. Agree(L, T[t], p) /\ Agree(M, T[t], p)
  BY Zenon, BackedEntry
<1>2. Agree(T[t], M, p)
  BY Zenon, <1>1, AgreeSym
<1> QED
  BY Zenon, <1>1, <1>2, AgreeSame

\* The log of a leader in the history is a non-empty log.
LEMMA LeaderLogFacts ==
    ASSUME NEW T \in LeaderLogs, NEW t \in Nat
    PROVE  T[t] \in Seq(Entries) /\ T[t] # <<>> /\ Len(T[t]) \in Nat /\ Len(T[t]) >= 1
<1>1. T[t] \in Seq(Entries) /\ T[t] # <<>>
  BY Zenon DEF LeaderLogs
<1> QED
  BY Zenon, <1>1, SequenceFacts

\* The terms of its entries never fall.
LEMMA TermsNeverFall ==
    ASSUME NEW T \in LeaderLogs, NEW W \in Leaderships, \A u \in Nat : NotAfter(T[u], u),
           NEW L \in Seq(Entries), Backed(L, T, W),
           NEW p, NEW q, NEW t, NEW u, Has(L, p, t), Has(L, q, u), p <= q
    PROVE  t <= u
<1>1. Len(L) \in Nat
  BY Zenon, SequenceFacts
<1>2. p \in Int /\ q \in Int /\ p >= 2
  BY <1>1 DEF Has
<1>3. u \in Nat /\ Agree(L, T[u], q)
  BY Zenon, BackedEntry
<1>4. T[u] \in Seq(Entries)
  BY Zenon, <1>3, LeaderLogFacts
<1>5. Has(T[u], p, t)
  BY Zenon, <1>2, <1>3, <1>4, AgreeHas
<1> QED
  BY Zenon, <1>3, <1>5 DEF Has, NotAfter

\* A prefix of a backed log is backed.
LEMMA PrefixBacked ==
    ASSUME NEW T \in LeaderLogs, NEW W \in Leaderships,
           NEW N \in Seq(Entries) \ {<<>>}, NEW M \in Seq(Entries), NEW t,
           Agree(N, M, Len(N)), Backed(M, T, W), NotAfter(M, t)
    PROVE  Backed(N, T, W) /\ NotAfter(N, t)
<1>1. Len(N) \in Nat /\ Len(N) >= 1 /\ Len(M) \in Nat
  BY Zenon, SequenceFacts
<1>2. Len(N) <= Len(M) /\ \A q \in 1 .. Len(N) : N[q] = M[q]
  BY Zenon DEF Agree
<1>3. N[1] = Dummy(0)
  BY <1>1, <1>2 DEF Backed
<1>4. ASSUME NEW p \in 2 .. Len(N)
      PROVE  /\ N[p].Term \in Nat /\ W[N[p].Term] # Nobody /\ Agree(N, T[N[p].Term], p)
             /\ N[p].Term <= t
  <2>1. p \in 2 .. Len(M) /\ p \in 1 .. Len(N) /\ p \in Int /\ Len(N) \in Int /\ p <= Len(N)
    BY <1>1, <1>2
  <2>2. N[p] = M[p]
    BY Zenon, <1>2, <2>1
  <2>3. N[p].Term \in Nat /\ W[N[p].Term] # Nobody /\ Agree(M, T[N[p].Term], p) /\ N[p].Term <= t
    BY Zenon, <2>1, <2>2 DEF Backed, NotAfter
  <2>4. N \in Seq(Entries)
    BY Zenon
  <2>5. Agree(N, M, p)
    BY Zenon, <2>1, <2>4, AgreeLess
  <2> QED
    BY Zenon, <2>3, <2>5, AgreeSame
<1> QED
  BY Zenon, <1>3, <1>4 DEF Backed, NotAfter

\* A voter's log that has an entry is refused nothing less than that entry:
\* isLogUpToDate() compares last terms and then lengths.
LEMMA UpToDateSees ==
    ASSUME NEW T \in LeaderLogs, NEW W \in Leaderships, \A u \in Nat : NotAfter(T[u], u),
           NEW L \in Seq(Entries), Backed(L, T, W),
           NEW p, NEW t, Has(L, p, t),
           NEW index \in Int, NEW term \in Int, isLogUpToDate(L, 0, NoTerm, index, term)
    PROVE  t < term \/ (t = term /\ p <= index + 1)
<1>1. Len(L) \in Nat /\ p \in 2 .. Len(L)
  BY Zenon, SequenceFacts DEF Has
<1>2. Len(L) \in 2 .. Len(L) /\ Len(L) > 1 /\ p <= Len(L) /\ p \in Int
  BY <1>1
<1> DEFINE u == L[Len(L)].Term
<1>3. lastLogIndexTerm(L, NoTerm) = u /\ Has(L, Len(L), u)
  BY Zenon, <1>2 DEF lastLogIndexTerm, Has
<1>4. t <= u
  BY Zenon, <1>2, <1>3, TermsNeverFall
<1>5. t \in Nat /\ u \in Nat
  BY Zenon, <1>3, BackedEntry
<1>6. IF term # u THEN term > u ELSE index >= lastLogIndex(L, 0)
  BY Zenon, <1>3 DEF isLogUpToDate
<1> HIDE DEF u
<1> QED
  BY <1>1, <1>2, <1>4, <1>5, <1>6 DEF lastLogIndex

\* A candidate's log that is at least as good as an entry of term t's leader
\* has that entry, if the leaders of the terms in between have it.
LEMMA UpToDateHas ==
    ASSUME NEW T \in LeaderLogs, NEW W \in Leaderships, \A u \in Nat : NotAfter(T[u], u),
           \A u \in Nat : Backed(T[u], T, W),
           NEW L \in Seq(Entries), Backed(L, T, W), NEW t \in Nat, NEW p \in Nat,
           Has(T[t], p, t), \A u \in Nat : t < u /\ W[u] # Nobody => Has(T[u], p, t),
           \/ t < lastLogIndexTerm(L, NoTerm)
           \/ t = lastLogIndexTerm(L, NoTerm) /\ p <= lastLogIndex(L, 0) + 1
    PROVE  Has(L, p, t)
<1>1. Len(L) \in Nat
  BY Zenon, SequenceFacts
<1>2. Len(L) > 1
  BY <1>1 DEF lastLogIndexTerm, NoTerm
<1>3. /\ Len(L) \in 2 .. Len(L) /\ lastLogIndex(L, 0) + 1 = Len(L) /\ Len(L) \in Int
      /\ Len(L) <= Len(L)
  BY <1>1, <1>2 DEF lastLogIndex
<1> DEFINE u == L[Len(L)].Term
<1>4. lastLogIndexTerm(L, NoTerm) = u /\ Has(L, Len(L), u)
  BY Zenon, <1>2, <1>3 DEF lastLogIndexTerm, Has
<1>5. u \in Nat /\ W[u] # Nobody /\ Agree(L, T[u], Len(L))
  BY Zenon, <1>4, BackedEntry
<1>6. (t < u \/ (t = u /\ p <= Len(L)))
  BY Zenon, <1>3, <1>4
<1>7. T[u] \in Seq(Entries) /\ Agree(T[u], L, Len(L)) /\ Len(T[u]) \in Nat
  BY Zenon, <1>5, AgreeSym, LeaderLogFacts
<1> HIDE DEF u
<1>8. Has(T[u], p, t)
  BY Zenon, <1>5, <1>6
<1>9. p <= Len(L)
  <2>1. CASE t = u /\ p <= Len(L)
    BY Zenon, <2>1
  <2>2. CASE t < u
    <3>1. Has(T[u], Len(L), u)
      BY Zenon, <1>3, <1>4, <1>5, <1>7, AgreeHas
    <3>2. ASSUME Len(L) <= p PROVE u <= t
      BY Zenon, <1>5, <1>7, <1>8, <3>1, <3>2, TermsNeverFall
    <3> QED
      BY <1>1, <1>5, <2>2, <3>2
  <2> QED
    BY Zenon, <1>6, <2>1, <2>2
<1>10. p \in Int
  OBVIOUS
<1> QED
  BY Zenon, <1>3, <1>7, <1>8, <1>9, <1>10, AgreeHas

\* One sequence of entries after another.
LEMMA JoinFacts ==
    ASSUME NEW A \in Seq(Entries), NEW B \in Seq(Entries), NEW N, N = A \o B
    PROVE  /\ Len(N) = Len(A) + Len(B)
           /\ \A q \in 1 .. Len(A) : N[q] = A[q]
           /\ \A l \in 1 .. Len(B) : N[Len(A) + l] = B[l]
           /\ N \in Seq(Entries)
  OBVIOUS

\* The loop of AppendEntries, for entries of the leader's log M that follow a
\* position up to which the logs agree: either everything sent is there and
\* the log stays as it is, or the log becomes a prefix of M.  It agrees with
\* M on what was sent, and nothing on which it agreed with M is lost.
LEMMA AppendNewFacts ==
    ASSUME SetFacts,
           NEW L \in Seq(Entries) \ {<<>>}, NEW M \in Seq(Entries), NEW e \in Seq(Entries),
           NEW prev \in Nat, prev + Len(e) + 1 <= Len(M),
           \A k \in 1 .. Len(e) : e[k] = M[prev + 1 + k],
           Agree(L, M, prev + 1),
           \A q \in 2 .. Len(L) : q <= Len(M) /\ L[q].Term = M[q].Term => Agree(L, M, q),
           NEW N, N = AppendNew(L, 0, prev, e)
    PROVE  /\ Agree(N, M, prev + Len(e) + 1)
           /\ N = L \/ Agree(N, M, Len(N))
           /\ \A q \in Nat : Agree(L, M, q) => Agree(N, M, q)
<1> DEFINE MW(k) == MustWrite(L, 0, prev, e, k)
<1>1. /\ Len(L) \in Nat /\ Len(L) >= 1 /\ Len(M) \in Nat /\ Len(e) \in Nat
      /\ L \in Seq(Entries)
  BY Zenon, SequenceFacts
<1>2. ASSUME NEW k \in 1 .. Len(e)
      PROVE  MW(k) <=> prev + k >= Len(L) \/ L[prev + k + 1].Term # e[k].Term
  <2>1. prev + k - 0 = prev + k /\ prev + k >= 1 /\ ~(prev + k < 0)
    BY <1>1
  <2> QED
    BY <1>1, <2>1 DEF MustWrite, toPhysicalIndex, termAtPhysical
<1>3. ASSUME NEW k \in 1 .. Len(e), ~MW(k) PROVE Agree(L, M, prev + k + 1)
  <2>1. ~(prev + k >= Len(L)) /\ L[prev + k + 1].Term = e[k].Term
    BY Zenon, <1>2, <1>3
  <2>2. /\ prev + k + 1 \in 2 .. Len(L) /\ prev + k + 1 <= Len(M)
        /\ prev + 1 + k = prev + k + 1
    BY <1>1, <2>1
  <2>3. e[k] = M[prev + k + 1]
    BY Zenon, <2>2
  <2> QED
    BY Zenon, <2>1, <2>2, <2>3
<1>4. CASE \A k \in 1 .. Len(e) : ~MW(k)
  <2>1. N = L
    BY Zenon, <1>4 DEF AppendNew, MW
  <2>2. CASE Len(e) = 0
    <3>1. prev + Len(e) + 1 = prev + 1
      BY <2>2
    <3> QED
      BY Zenon, <2>1, <3>1
  <2>3. CASE Len(e) # 0
    <3>1. Len(e) \in 1 .. Len(e)
      BY <1>1, <2>3
    <3> QED
      BY Zenon, <1>3, <1>4, <2>1, <3>1
  <2> QED
    BY Zenon, <2>2, <2>3
<1>5. CASE ~ \A k \in 1 .. Len(e) : ~MW(k)
  <2> DEFINE S == {k \in 1 .. Len(e) : MW(k)}
             first == CHOOSE k \in 1 .. Len(e) : MW(k) /\ \A l \in 1 .. k - 1 : ~MW(l)
  <2>1. \E k \in 1 .. Len(e) : MW(k) /\ \A l \in 1 .. k - 1 : ~MW(l)
    <3>1. S \in SUBSET Int /\ 1 \in Int /\ \A n \in S : 1 <= n
      BY <1>1
    <3>2. S # {}
      BY Zenon, <1>5
    <3> HIDE DEF S
    <3>3. PICK k \in S : \A n \in S : k <= n
      BY Zenon, <3>1, <3>2 DEF SetFacts
    <3>4. k \in Int /\ \A l \in 1 .. k - 1 : l \notin S
      BY <3>1, <3>3
    <3> USE DEF S
    <3>5. k \in 1 .. Len(e) /\ MW(k)
      BY Zenon
    <3>6. ASSUME NEW l \in 1 .. k - 1 PROVE l \in 1 .. Len(e)
      BY <1>1, <3>5
    <3> QED
      BY Zenon, <3>4, <3>5, <3>6
  <2>2. first \in 1 .. Len(e) /\ MW(first) /\ \A l \in 1 .. first - 1 : ~MW(l)
    BY Zenon, <2>1
  <2> DEFINE b == toPhysicalIndex(0, prev + first)
             n == IF b < Len(L) THEN b ELSE Len(L)
  <2>3. N = SubSeq(L, 1, n) \o SubSeq(e, first, Len(e))
    BY Zenon, <1>5 DEF AppendNew
  <2> HIDE DEF first, S, MW
  <2>4. PICK k \in 1 .. Len(e) : k = first
    BY Zenon, <2>2
  <2>5. Agree(L, M, prev + k)
    <3>1. CASE k = 1
      BY Zenon, <3>1
    <3>2. CASE k # 1
      <4>1. k - 1 \in 1 .. Len(e) /\ k - 1 \in 1 .. k - 1 /\ prev + (k - 1) + 1 = prev + k
        BY <1>1, <3>2
      <4> QED
        BY Zenon, <1>3, <2>2, <2>4, <4>1
    <3> QED
      BY Zenon, <3>1, <3>2
  <2>6. prev + k <= Len(L) /\ prev + k <= Len(M) /\ \A q \in 1 .. prev + k : L[q] = M[q]
    BY Zenon, <2>5 DEF Agree
  <2>7. n = prev + k
    BY <1>1, <2>4, <2>6 DEF toPhysicalIndex
  <2> HIDE DEF n
  <2>8. N = SubSeq(L, 1, prev + k) \o SubSeq(e, k, Len(e))
    BY Zenon, <2>3, <2>4, <2>7
  <2>9. PICK A \in Seq(Entries) :
           /\ A = SubSeq(L, 1, prev + k) /\ Len(A) = prev + k
           /\ \A q \in 1 .. prev + k : A[q] = L[q]
    <3>1. 1 \in Nat \ {0} /\ prev + k \in Int /\ 1 <= prev + k /\ prev + k - 1 + 1 = prev + k
      BY <1>1
    <3>2. /\ SubSeq(L, 1, prev + k) \in Seq(Entries)
          /\ Len(SubSeq(L, 1, prev + k)) = prev + k
          /\ \A q \in 1 .. prev + k : SubSeq(L, 1, prev + k)[q] = L[q]
      BY <1>1, <2>6, <3>1
    <3> QED
      BY Zenon, <3>2
  <2>10. PICK B \in Seq(Entries) :
           /\ B = SubSeq(e, k, Len(e)) /\ Len(B) = Len(e) - k + 1
           /\ \A l \in 1 .. Len(e) - k + 1 : B[l] = e[k + l - 1]
    <3>1. k \in Nat \ {0} /\ Len(e) \in Int /\ k <= Len(e) /\ Len(e) <= Len(e)
      BY <1>1
    <3>2. /\ SubSeq(e, k, Len(e)) \in Seq(Entries)
          /\ Len(SubSeq(e, k, Len(e))) = Len(e) - k + 1
          /\ \A l \in 1 .. Len(e) - k + 1 : SubSeq(e, k, Len(e))[l] = e[k + l - 1]
      BY <3>1
    <3> QED
      BY Zenon, <3>2
  <2>11. /\ Len(N) = Len(A) + Len(B)
         /\ \A q \in 1 .. Len(A) : N[q] = A[q]
         /\ \A l \in 1 .. Len(B) : N[Len(A) + l] = B[l]
         /\ N \in Seq(Entries)
    <3>1. N = A \o B
      BY Zenon, <2>8, <2>9, <2>10
    <3> QED
      BY Zenon, <3>1, JoinFacts
  <2>12. Len(N) = prev + Len(e) + 1
    BY <1>1, <2>9, <2>10, <2>11
  <2>13. ASSUME NEW q \in 1 .. Len(N) PROVE N[q] = M[q]
    <3>1. CASE q <= prev + k
      <4>1. q \in 1 .. prev + k
        BY <1>1, <3>1
      <4> QED
        BY Zenon, <2>6, <2>9, <2>11, <4>1
    <3>2. CASE q > prev + k
      <4> DEFINE l == q - (prev + k)
      <4>1. /\ l \in 1 .. Len(e) - k + 1 /\ prev + k + l = q
            /\ k + l - 1 \in 1 .. Len(e) /\ prev + 1 + (k + l - 1) = q
        BY <1>1, <2>12, <3>2
      <4> HIDE DEF l
      <4>2. N[Len(A) + l] = B[l] /\ B[l] = e[k + l - 1]
        BY Zenon, <2>10, <2>11, <4>1
      <4>3. N[q] = e[k + l - 1]
        BY Zenon, <2>9, <4>1, <4>2
      <4> QED
        BY Zenon, <4>1, <4>3
    <3> QED
      BY <1>1, <3>1, <3>2
  <2>14. Len(N) <= Len(N) /\ Len(N) <= Len(M) /\ Len(N) \in Int /\ prev + k <= Len(N)
    BY <1>1, <2>12
  <2>15. Agree(N, M, Len(N))
    BY Zenon, <2>13, <2>14 DEF Agree
  <2>16. ASSUME NEW q \in Nat, Agree(L, M, q) PROVE Agree(N, M, q)
    <3>1. q <= Len(L) /\ q <= Len(M) /\ \A a \in 1 .. q : L[a] = M[a]
      BY Zenon, <2>16 DEF Agree
    <3>2. q <= prev + k
      <4>1. SUFFICES ASSUME q > prev + k PROVE FALSE
        BY <1>1
      <4>2. /\ prev + k + 1 \in 1 .. q /\ ~(prev + k >= Len(L))
            /\ prev + 1 + k = prev + k + 1
        BY <1>1, <3>1, <4>1
      <4>3. L[prev + k + 1] = e[k]
        BY Zenon, <3>1, <4>2
      <4> QED
        BY Zenon, <1>2, <2>2, <2>4, <4>2, <4>3
    <3>3. q <= Len(N) /\ q \in Int
      BY <1>1, <2>14, <3>2
    <3> QED
      BY Zenon, <2>11, <2>14, <2>15, <3>3, AgreeLess
  <2> QED
    BY Zenon, <2>12, <2>15, <2>16
<1> QED
  BY Zenon, <1>4, <1>5

-----------------------------------------------------------------------------
(***************************************************************************)
(* Histories that grow.                                                    *)
(***************************************************************************)

\* T2, W2 continues the history T, W.
Extends(T, W, T2, W2) ==
    \A t \in Nat : W[t] # Nobody => W2[t] = W[t] /\ Agree(T[t], T2[t], Len(T[t]))

\* Every history continues itself.
LEMMA ExtendsSelf ==
    ASSUME NEW T \in LeaderLogs, NEW W \in Leaderships
    PROVE  Extends(T, W, T, W)
BY Zenon, LeaderLogFacts, AgreeSelf DEF Extends

\* What a leader had up to a position it still has.
LEMMA ExtendsAgree ==
    ASSUME NEW T \in LeaderLogs, NEW W \in Leaderships, NEW T2 \in LeaderLogs,
           NEW W2 \in Leaderships, Extends(T, W, T2, W2),
           NEW t \in Nat, W[t] # Nobody, NEW p \in Int, p <= Len(T[t])
    PROVE  Agree(T[t], T2[t], p)
<1>1. T[t] \in Seq(Entries) /\ T2[t] \in Seq(Entries) /\ Len(T[t]) \in Int
  BY LeaderLogFacts
<1>2. Agree(T[t], T2[t], Len(T[t]))
  BY Zenon DEF Extends
<1> QED
  BY Zenon, <1>1, <1>2, AgreeLess

\* A longer history backs what a shorter one backs.
LEMMA BackedExtended ==
    ASSUME NEW T \in LeaderLogs, NEW W \in Leaderships, NEW T2 \in LeaderLogs,
           NEW W2 \in Leaderships, Extends(T, W, T2, W2), NEW L, Backed(L, T, W)
    PROVE  Backed(L, T2, W2)
<1>1. ASSUME NEW p \in 2 .. Len(L), NEW u, u = L[p].Term
      PROVE  u \in Nat /\ W2[u] # Nobody /\ Agree(L, T2[u], p)
  <2>1. u \in Nat /\ W[u] # Nobody /\ Agree(L, T[u], p)
    BY Zenon, <1>1 DEF Backed
  <2>2. p \in Int /\ p <= Len(T[u])
    BY <2>1 DEF Agree
  <2>3. Agree(T[u], T2[u], p)
    BY Zenon, <2>1, <2>2, ExtendsAgree
  <2> QED
    BY Zenon, <2>1, <2>3, AgreeSame DEF Extends
<1> QED
  BY Zenon, <1>1 DEF Backed

\* A leader's own entries stay its own in a longer history.
LEMMA OwnExtended ==
    ASSUME NEW T \in LeaderLogs, NEW W \in Leaderships, NEW T2 \in LeaderLogs,
           NEW W2 \in Leaderships, Extends(T, W, T2, W2),
           NEW t \in Nat, NEW p \in Nat, Own(t, p, T, W)
    PROVE  Own(t, p, T2, W2)
<1>1. W[t] # Nobody /\ Has(T[t], p, t) /\ W2[t] # Nobody
  BY Zenon DEF Own, Extends
<1>2. T[t] \in Seq(Entries) /\ T2[t] \in Seq(Entries) /\ p \in Int /\ p <= p /\ p <= Len(T[t])
  BY <1>1, LeaderLogFacts DEF Has
<1>3. Agree(T[t], T2[t], p)
  BY Zenon, <1>1, <1>2, ExtendsAgree
<1>4. Has(T2[t], p, t)
  BY Zenon, <1>1, <1>2, <1>3, AgreeHas
<1> QED
  BY Zenon, <1>1, <1>4 DEF Own

\* An acknowledgement is never taken back.
LEMMA AckedStays ==
    ASSUME NEW W \in Leaderships, NEW W2 \in Leaderships, aeReplies \subseteq aeReplies',
           NEW j \in Servers, NEW t, NEW p, W[t] # Nobody => W2[t] = W[t],
           Acked(j, t, p, W)
    PROVE  Acked(j, t, p, W2)'
BY Zenon, ServersAssumption DEF Acked

\* What a majority had stays chosen.
LEMMA ChosenStays ==
    ASSUME NEW T \in LeaderLogs, NEW W \in Leaderships, NEW T2 \in LeaderLogs,
           NEW W2 \in Leaderships, Extends(T, W, T2, W2), aeReplies \subseteq aeReplies',
           NEW t \in Nat, NEW p \in Nat, Chosen(t, p, T, W)
    PROVE  Chosen(t, p, T2, W2)'
<1>1. Own(t, p, T2, W2)
  BY Zenon, OwnExtended DEF Chosen
<1>2. PICK Q \in SUBSET Servers : IsMajority(Q) /\ \A j \in Q : Acked(j, t, p, W)
  BY Zenon DEF Chosen
<1>3. \A j \in Q : Acked(j, t, p, W2)'
  BY Zenon, <1>2, AckedStays DEF Extends
<1> QED
  BY Zenon, <1>1, <1>2, <1>3 DEF Chosen, Own, IsMajority

\* What is settled stays settled, for any log that agrees and any later term.
LEMMA SettledStays ==
    ASSUME NEW T \in LeaderLogs, NEW W \in Leaderships, NEW T2 \in LeaderLogs,
           NEW W2 \in Leaderships, Extends(T, W, T2, W2), aeReplies \subseteq aeReplies',
           NEW M, NEW M2, NEW k, NEW t \in Nat, NEW t2 \in Nat, t <= t2,
           Settled(M, k, t, T, W), k # 0 => Agree(M2, M, k + 1)
    PROVE  Settled(M2, k, t2, T2, W2)'
<1>1. CASE k = 0
  BY Zenon, <1>1 DEF Settled
<1>2. CASE k # 0
  <2>1. k \in Nat
    BY Zenon, <1>2 DEF Settled
  <2>2. PICK u \in Nat, p \in Nat :
           u <= t /\ k < p /\ Chosen(u, p, T, W) /\ Agree(M, T[u], k + 1)
    BY Zenon, <1>2 DEF Settled
  <2>3. Chosen(u, p, T2, W2)'
    BY Zenon, <2>2, ChosenStays
  <2>4. W[u] # Nobody /\ k + 1 \in Int /\ k + 1 <= Len(T[u]) /\ u <= t2
    BY <2>1, <2>2 DEF Chosen, Own, Agree
  <2>5. Agree(T[u], T2[u], k + 1)
    BY Zenon, <2>4, ExtendsAgree
  <2>6. Agree(M2, T2[u], k + 1)
    BY Zenon, <1>2, <2>2, <2>5, AgreeSame
  <2> QED
    BY Zenon, <2>1, <2>2, <2>3, <2>4, <2>6 DEF Settled
<1> QED
  BY Zenon, <1>1, <1>2

\* What is decided stays decided.
LEMMA DecidedStays ==
    ASSUME NEW T \in LeaderLogs, NEW W \in Leaderships, NEW T2 \in LeaderLogs,
           NEW W2 \in Leaderships, Extends(T, W, T2, W2), aeReplies \subseteq aeReplies',
           NEW k \in Nat, NEW command, Decided(k, command, T, W)
    PROVE  Decided(k, command, T2, W2)'
<1>1. PICK u \in Nat, p \in Nat :
        k < p /\ Chosen(u, p, T, W) /\ T[u][k + 1].Command = command
  BY Zenon DEF Decided
<1>2. Chosen(u, p, T2, W2)'
  BY Zenon, <1>1, ChosenStays
<1>3. W[u] # Nobody /\ p \in 2 .. Len(T[u])
  BY Zenon, <1>1 DEF Chosen, Own, Has
<1>4. Len(T[u]) \in Nat
  BY Zenon, LeaderLogFacts
<1>5. k + 1 \in Int /\ k + 1 <= Len(T[u]) /\ k + 1 \in 1 .. k + 1
  BY <1>1, <1>3, <1>4
<1>6. Agree(T[u], T2[u], k + 1)
  BY Zenon, <1>3, <1>5, ExtendsAgree
<1>7. T2[u][k + 1] = T[u][k + 1]
  BY Zenon, <1>5, <1>6 DEF Agree
<1> QED
  BY Zenon, <1>1, <1>2, <1>7 DEF Decided

-----------------------------------------------------------------------------
(***************************************************************************)
(* What steps leave as it is.                                              *)
(***************************************************************************)

\* No term falls.
TermsRise == \A k \in Servers : CurrentTerm'[k] >= CurrentTerm[k]

\* Nobody becomes a leader, and who stands for election does so in a new term.
RolesKept ==
    \A k \in Servers :
        \/ status'[k] = status[k] /\ CurrentTerm'[k] = CurrentTerm[k] /\ Log'[k] = Log[k]
        \/ /\ status'[k] # "Leader" /\ CurrentTerm'[k] >= CurrentTerm[k]
           /\ status'[k] = "Candidate" => CurrentTerm'[k] > CurrentTerm[k]

\* No AppendEntries call is answered with success.
NoNewAcks ==
    aeReplies \subseteq aeReplies' /\ \A r \in aeReplies' : r.Success => r \in aeReplies

\* Terms are natural numbers.
LEMMA TermFacts ==
    ASSUME TypeOK, NEW k \in Servers
    PROVE  CurrentTerm[k] \in Nat
BY Zenon DEF TypeOK, TermType

\* The same after the step.
LEMMA TermFactsNext ==
    ASSUME TypeOK', NEW k \in Servers
    PROVE  CurrentTerm'[k] \in Nat
BY Zenon DEF TypeOK, TermType

\* A log is never empty: the dummy stays.
LEMMA LogFacts ==
    ASSUME TypeOK, NEW k \in Servers
    PROVE  Log[k] \in Seq(Entries) /\ Log[k] # <<>> /\ Len(Log[k]) \in Nat /\ Len(Log[k]) >= 1
<1>1. Log[k] \in Seq(Entries) /\ Log[k] # <<>>
  BY Zenon DEF TypeOK, LogType
<1> QED
  BY Zenon, <1>1, SequenceFacts

\* A bound on the terms of a log may be raised.
LEMMA NotAfterMore ==
    ASSUME NEW T \in LeaderLogs, NEW W \in Leaderships, NEW L, Backed(L, T, W),
           NEW t \in Nat, NEW u \in Nat, t <= u, NotAfter(L, t)
    PROVE  NotAfter(L, u)
<1>1. ASSUME NEW p \in 2 .. Len(L) PROVE L[p].Term <= u
  <2>1. L[p].Term \in Nat /\ L[p].Term <= t
    BY Zenon DEF Backed, NotAfter
  <2> QED
    BY <2>1
<1> QED
  BY Zenon, <1>1 DEF NotAfter

\* Logs stay backed when none changes and terms only rise.
LEMMA LogsFrame ==
    ASSUME NEW T \in LeaderLogs, NEW W \in Leaderships, LogsBacked(T, W), TypeOK, TypeOK',
           TermsRise, Log' = Log
    PROVE  LogsBacked(T, W)'
<1>1. ASSUME NEW i \in Servers PROVE (Backed(Log[i], T, W) /\ NotAfter(Log[i], CurrentTerm[i]))'
  <2>1. Backed(Log[i], T, W) /\ NotAfter(Log[i], CurrentTerm[i])
    BY Zenon DEF LogsBacked
  <2>2. CurrentTerm[i] \in Nat /\ CurrentTerm'[i] \in Nat
    BY Zenon, TermFacts, TermFactsNext
  <2>3. CurrentTerm[i] <= CurrentTerm'[i]
    BY <2>2 DEF TermsRise
  <2>4. NotAfter(Log[i], CurrentTerm'[i])
    BY Zenon, <2>1, <2>2, <2>3, NotAfterMore
  <2> QED
    BY Zenon, <2>1, <2>4
<1> QED
  BY Zenon, <1>1 DEF LogsBacked

\* Votes are never taken back.
LEMMA ElectedKept ==
    ASSUME NEW c, NEW t, Elected(c, t), Ballots \subseteq Ballots'
    PROVE  Elected(c, t)'
BY Zenon DEF Elected, Ballot, IsMajority

\* The recorded leaders stay so when no peer takes up a role.
LEMMA LeadersFrame ==
    ASSUME NEW T \in LeaderLogs, NEW W \in Leaderships, LeadersRecorded(T, W), TypeOK, TypeOK',
           RolesKept, Ballots \subseteq Ballots'
    PROVE  LeadersRecorded(T, W)'
<1>1. W[0] = Nobody
  BY Zenon DEF LeadersRecorded
<1>2. ASSUME NEW t \in Nat, W[t] # Nobody
      PROVE  /\ Elected(W[t], t)' /\ t <= CurrentTerm'[W[t]]
             /\ t = CurrentTerm'[W[t]] => status'[W[t]] # "Candidate"
  <2>1. PICK k \in Servers : k = W[t]
    BY Zenon, <1>2 DEF Leaderships
  <2>2. /\ Elected(k, t) /\ t <= CurrentTerm[k]
        /\ t = CurrentTerm[k] => status[k] # "Candidate"
    BY Zenon, <1>2, <2>1 DEF LeadersRecorded
  <2>3. Elected(k, t)'
    BY Zenon, <2>2, ElectedKept
  <2>4. CurrentTerm[k] \in Nat /\ CurrentTerm'[k] \in Nat
    BY Zenon, TermFacts, TermFactsNext
  <2>5. t <= CurrentTerm'[k] /\ (t = CurrentTerm'[k] => status'[k] # "Candidate")
    BY <2>2, <2>4 DEF RolesKept
  <2> QED
    BY Zenon, <2>1, <2>3, <2>5
<1>3. ASSUME NEW i \in Servers
      PROVE  /\ status'[i] # "Follower" => CurrentTerm'[i] >= 1
             /\ status'[i] = "Leader" => W[CurrentTerm'[i]] = i /\ T[CurrentTerm'[i]] = Log'[i]
  <2>1. CurrentTerm[i] \in Nat /\ CurrentTerm'[i] \in Nat
    BY Zenon, TermFacts, TermFactsNext
  <2>2. /\ status[i] # "Follower" => CurrentTerm[i] >= 1
        /\ status[i] = "Leader" => W[CurrentTerm[i]] = i /\ T[CurrentTerm[i]] = Log[i]
    BY Zenon DEF LeadersRecorded
  <2>3. CASE status'[i] = status[i] /\ CurrentTerm'[i] = CurrentTerm[i] /\ Log'[i] = Log[i]
    BY Zenon, <2>2, <2>3
  <2>4. CASE /\ status'[i] # "Leader" /\ CurrentTerm'[i] >= CurrentTerm[i]
             /\ status'[i] = "Candidate" => CurrentTerm'[i] > CurrentTerm[i]
    <3>1. status'[i] \in {"Leader", "Candidate", "Follower"}
      BY Zenon DEF TypeOK, RoleType
    <3> QED
      BY <2>1, <2>4, <3>1
  <2> QED
    BY Zenon, <2>3, <2>4 DEF RolesKept
<1> QED
  BY Zenon, <1>1, <1>2, <1>3 DEF LeadersRecorded

\* Candidates keep their logs when no peer takes up a role.
LEMMA CandidatesFrame ==
    ASSUME CandidatesAsk, ElectionInv, TypeOK', RolesKept, rvVars' = rvVars
    PROVE  CandidatesAsk'
<1>1. rvArgs' = rvArgs /\ rvReplies' = rvReplies
  BY Zenon DEF rvVars
<1>2. ASSUME NEW m \in rvArgs, status'[m.From] = "Candidate", CurrentTerm'[m.From] = m.Term
      PROVE  /\ m.LastLogIndex = lastLogIndex(Log'[m.From], 0)
             /\ m.LastLogTerm = lastLogIndexTerm(Log'[m.From], NoTerm)
  <2>1. m.From \in Servers /\ m.Term \in Nat
    BY Zenon DEF ElectionInv, TypeOK, RequestVoteType, RequestVoteArgs
  <2>2. CurrentTerm[m.From] \in Nat /\ CurrentTerm'[m.From] \in Nat
    BY Zenon, <2>1, TermFacts, TermFactsNext DEF ElectionInv
  <2>3. m.Term <= CurrentTerm[m.From]
    <3>1. Ballot(m.From, m.From, m.Term) \in Ballots
      BY Zenon DEF Ballots, Ballot
    <3> QED
      BY Zenon, <3>1 DEF ElectionInv, VotesKept, Ballot
  <2>4. ~(CurrentTerm'[m.From] > CurrentTerm[m.From])
    BY <1>2, <2>1, <2>2, <2>3
  <2>5. /\ status[m.From] = "Candidate" /\ CurrentTerm[m.From] = m.Term
        /\ Log'[m.From] = Log[m.From]
    BY Zenon, <1>2, <2>1, <2>4 DEF RolesKept
  <2> QED
    BY Zenon, <2>5 DEF CandidatesAsk
<1> QED
  BY Zenon, <1>1, <1>2 DEF CandidatesAsk

\* What a call says of the leader's log it still says when the log grows.
LEMMA CarriesMore ==
    ASSUME AppendEntriesType, NEW m \in aeArgs, m.PrevLogIndex >= 0,
           NEW M \in Seq(Entries), NEW N \in Seq(Entries), Agree(M, N, Len(M)), Carries(m, M)
    PROVE  Carries(m, N)
<1>1. /\ m.PrevLogIndex \in Nat /\ Len(m.Entries) \in Nat /\ Len(M) \in Nat /\ Len(N) \in Nat
      /\ m.LeaderCommit \in Int
  BY CallFacts, SequenceFacts
<1>2. m.PrevLogIndex + Len(m.Entries) + 1 <= Len(M) /\ Len(M) <= Len(N)
  BY Zenon DEF Carries, Agree
<1>3. m.PrevLogIndex + Len(m.Entries) + 1 <= Len(N) /\ m.PrevLogIndex + 1 \in 1 .. Len(M)
  BY <1>1, <1>2
<1>4. ASSUME NEW k \in 1 .. Len(m.Entries) PROVE m.Entries[k] = N[m.PrevLogIndex + 1 + k]
  <2>1. m.PrevLogIndex + 1 + k \in 1 .. Len(M)
    BY <1>1, <1>2
  <2> QED
    BY Zenon, <2>1 DEF Carries, Agree
<1>5. N[m.PrevLogIndex + 1] = M[m.PrevLogIndex + 1]
  BY Zenon, <1>3 DEF Agree
<1> QED
  BY Zenon, <1>3, <1>4, <1>5 DEF Carries

\* Old calls carry entries of the same logs in a longer history.
LEMMA CallsExtended ==
    ASSUME NEW T \in LeaderLogs, NEW W \in Leaderships, NEW T2 \in LeaderLogs,
           NEW W2 \in Leaderships, Extends(T, W, T2, W2), ElectionInv,
           CallsCarryLogs(T, W), aeArgs' = aeArgs
    PROVE  CallsCarryLogs(T2, W2)'
<1>1. ASSUME NEW m \in aeArgs
      PROVE  W2[m.Term] = m.From /\ m.To # m.From /\ Carries(m, T2[m.Term])
  <2>1. AppendEntriesType /\ m.PrevLogIndex >= 0
    BY Zenon DEF ElectionInv, TypeOK, NoSnapshots
  <2>2. m.Term \in Nat /\ m.From \in Servers
    BY Zenon, <2>1, CallFacts
  <2>3. W[m.Term] = m.From /\ m.To # m.From /\ Carries(m, T[m.Term])
    BY Zenon DEF CallsCarryLogs
  <2>4. W[m.Term] # Nobody
    BY Zenon, <2>2, <2>3, ServersAssumption
  <2>5. W2[m.Term] = m.From /\ Agree(T[m.Term], T2[m.Term], Len(T[m.Term]))
    BY Zenon, <2>2, <2>3, <2>4 DEF Extends
  <2>6. T[m.Term] \in Seq(Entries) /\ T2[m.Term] \in Seq(Entries)
    BY Zenon, <2>2, LeaderLogFacts
  <2>7. Carries(m, T2[m.Term])
    BY Zenon, <2>1, <2>3, <2>5, <2>6, CarriesMore
  <2> QED
    BY Zenon, <2>3, <2>5, <2>7
<1> QED
  BY Zenon, <1>1 DEF CallsCarryLogs

\* The types of the fields of a reply to AppendEntries.
LEMMA AppendEntriesRepliesFacts ==
    ASSUME TypeOK, NEW r \in aeReplies
    PROVE  /\ r.Term \in Nat /\ r.From \in Servers /\ r.To \in Servers /\ r.Last \in Int
           /\ r.ReplyTerm \in Nat
BY Zenon DEF TypeOK, AppendEntriesType, AppendEntriesReplies

\* Old replies answer the same leaders in a longer history.
LEMMA RepliesExtended ==
    ASSUME NEW T \in LeaderLogs, NEW W \in Leaderships, NEW T2 \in LeaderLogs,
           NEW W2 \in Leaderships, Extends(T, W, T2, W2), TypeOK, TypeOK',
           RepliesAnswer(T, W), TermsRise, NoNewAcks
    PROVE  RepliesAnswer(T2, W2)'
<1>1. ASSUME NEW r \in aeReplies, r.Success
      PROVE  /\ W2[r.Term] = r.To /\ r.From # r.To /\ r.Term <= CurrentTerm'[r.From]
             /\ r.Last + 1 <= Len(T2[r.Term])
  <2>1. r.Term \in Nat /\ r.From \in Servers /\ r.To \in Servers /\ r.Last \in Int
    BY Zenon, AppendEntriesRepliesFacts
  <2>2. /\ W[r.Term] = r.To /\ r.From # r.To /\ r.Term <= CurrentTerm[r.From]
        /\ r.Last + 1 <= Len(T[r.Term])
    BY Zenon, <1>1 DEF RepliesAnswer
  <2>3. W[r.Term] # Nobody
    BY Zenon, <2>1, <2>2, ServersAssumption
  <2>4. W2[r.Term] = r.To /\ Len(T[r.Term]) <= Len(T2[r.Term])
    BY Zenon, <2>1, <2>2, <2>3 DEF Extends, Agree
  <2>5. Len(T[r.Term]) \in Nat /\ Len(T2[r.Term]) \in Nat
    BY Zenon, <2>1, LeaderLogFacts
  <2>6. r.Last + 1 <= Len(T2[r.Term])
    BY <2>1, <2>2, <2>4, <2>5
  <2>7. CurrentTerm[r.From] \in Nat /\ CurrentTerm'[r.From] \in Nat
    BY Zenon, <2>1, TermFacts, TermFactsNext
  <2>8. r.Term <= CurrentTerm'[r.From]
    BY <2>1, <2>2, <2>7 DEF TermsRise
  <2> QED
    BY Zenon, <2>2, <2>4, <2>6, <2>8
<1> QED
  BY Zenon, <1>1 DEF RepliesAnswer, NoNewAcks

\* Without a new successful reply nothing is newly acknowledged.
LEMMA AckedBefore ==
    ASSUME NEW W, NEW j, NEW t, NEW p, NoNewAcks, Acked(j, t, p, W)'
    PROVE  Acked(j, t, p, W)
BY Zenon DEF NoNewAcks, Acked

\* What may be chosen after a step might have been chosen before it: no peer
\* returns to an earlier term, and an acknowledgement is given in its term.
LEMMA ChoosableBefore ==
    ASSUME TypeOK, TypeOK', TermsRise, NEW T, NEW W, NEW T2, NEW W2, NEW t \in Nat, NEW p,
           Own(t, p, T, W), Choosable(t, p, T2, W2)',
           \A j \in Servers : Acked(j, t, p, W2)' => Acked(j, t, p, W) \/ CurrentTerm[j] <= t
    PROVE  Choosable(t, p, T, W)
<1>1. PICK Q \in SUBSET Servers :
        IsMajority(Q) /\ \A j \in Q : Acked(j, t, p, W2)' \/ CurrentTerm'[j] <= t
  BY Zenon DEF Choosable, IsMajority
<1>2. ASSUME NEW j \in Q PROVE Acked(j, t, p, W) \/ CurrentTerm[j] <= t
  <2>1. j \in Servers
    BY Zenon
  <2>2. CurrentTerm[j] \in Nat /\ CurrentTerm'[j] \in Nat /\ CurrentTerm'[j] >= CurrentTerm[j]
    BY Zenon, <2>1, TermFacts, TermFactsNext DEF TermsRise
  <2>3. CurrentTerm'[j] <= t => CurrentTerm[j] <= t
    BY <2>2
  <2> QED
    BY Zenon, <1>1, <2>1, <2>3
<1> QED
  BY Zenon, <1>1, <1>2 DEF Choosable

\* Without new acknowledgements nothing becomes choosable.
LEMMA QuietChoosable ==
    ASSUME TypeOK, TypeOK', TermsRise, NoNewAcks, NEW T, NEW W, NEW t \in Nat, NEW p,
           Choosable(t, p, T, W)'
    PROVE  Choosable(t, p, T, W)
<1>1. Own(t, p, T, W)
  BY Zenon DEF Choosable, Own
<1>2. \A j \in Servers : Acked(j, t, p, W)' => Acked(j, t, p, W)
  BY Zenon, AckedBefore
<1> QED
  BY Zenon, <1>1, <1>2, ChoosableBefore

\* What may be chosen stays where it is when no log changes.
LEMMA ChoiceFrame ==
    ASSUME NEW T \in LeaderLogs, NEW W \in Leaderships, TypeOK, TypeOK', TermsRise, NoNewAcks,
           Log' = Log, LeadersHaveIt(T, W), PeersKeepIt(T, W)
    PROVE  LeadersHaveIt(T, W)' /\ PeersKeepIt(T, W)'
<1>1. \A t, p \in Nat : Choosable(t, p, T, W)' => Choosable(t, p, T, W)
  BY Zenon, QuietChoosable
<1>2. LeadersHaveIt(T, W)'
  BY Zenon, <1>1 DEF LeadersHaveIt
<1>3. PeersKeepIt(T, W)'
  BY Zenon, <1>1, AckedBefore DEF PeersKeepIt
<1> QED
  BY Zenon, <1>2, <1>3

\* Votes stay right when none is given and nothing is newly acknowledged.
LEMMA VotersFrame ==
    ASSUME NEW T \in LeaderLogs, NEW W \in Leaderships, TypeOK, TypeOK', TermsRise, NoNewAcks,
           rvVars' = rvVars, VotersSeeIt(T, W)
    PROVE  VotersSeeIt(T, W)'
<1>1. \A t, p \in Nat : Choosable(t, p, T, W)' => Choosable(t, p, T, W)
  BY Zenon, QuietChoosable
<1>2. rvArgs' = rvArgs /\ rvReplies' = rvReplies
  BY Zenon DEF rvVars
<1> QED
  BY Zenon, <1>1, <1>2, AckedBefore DEF VotersSeeIt

\* Commit indices stay settled when they do not change.
LEMMA CommitsExtended ==
    ASSUME NEW T \in LeaderLogs, NEW W \in Leaderships, NEW T2 \in LeaderLogs,
           NEW W2 \in Leaderships, Extends(T, W, T2, W2), aeReplies \subseteq aeReplies',
           TypeOK, TypeOK', TermsRise, CallsCarryLogs(T, W), CommitsSettled(T, W),
           aeArgs' = aeArgs, commitIndex' = commitIndex,
           \A i \in Servers : commitIndex[i] # 0 => Agree(Log'[i], Log[i], commitIndex[i] + 1)
    PROVE  CommitsSettled(T2, W2)'
<1>1. ASSUME NEW i \in Servers
      PROVE  Settled(Log[i], commitIndex[i], CurrentTerm[i], T2, W2)'
  <2>1. CurrentTerm[i] \in Nat /\ CurrentTerm'[i] \in Nat
    BY Zenon, TermFacts, TermFactsNext
  <2>2. CurrentTerm[i] <= CurrentTerm'[i]
    BY <2>1 DEF TermsRise
  <2>3. Settled(Log[i], commitIndex[i], CurrentTerm[i], T, W)
    BY Zenon DEF CommitsSettled
  <2> QED
    BY Zenon, <2>1, <2>2, <2>3, SettledStays
<1>2. ASSUME NEW m \in aeArgs
      PROVE  Settled(T2[m.Term], m.LeaderCommit, m.Term, T2, W2)'
  <2>1. m.Term \in Nat /\ m.From \in Servers /\ AppendEntriesType
    BY Zenon, CallFacts DEF TypeOK
  <2>2. Settled(T[m.Term], m.LeaderCommit, m.Term, T, W) /\ W[m.Term] # Nobody
    BY Zenon, <2>1, ServersAssumption DEF CommitsSettled, CallsCarryLogs
  <2>3. ASSUME m.LeaderCommit # 0
        PROVE  Agree(T2[m.Term], T[m.Term], m.LeaderCommit + 1)
    <3>1. m.LeaderCommit \in Nat /\ m.LeaderCommit + 1 <= Len(T[m.Term])
      BY Zenon, <2>2, <2>3 DEF Settled, Agree
    <3>2. m.LeaderCommit + 1 \in Int
      BY <3>1
    <3> QED
      BY Zenon, <2>1, <2>2, <3>1, <3>2, ExtendsAgree, AgreeSym
  <2>4. m.Term <= m.Term
    BY <2>1
  <2> QED
    BY Zenon, <2>1, <2>2, <2>3, <2>4, SettledStays
<1> QED
  BY Zenon, <1>1, <1>2 DEF CommitsSettled

\* What a leader knows to be matched stays acknowledged.
LEMMA MatchesFrame ==
    ASSUME NEW W \in Leaderships, aeReplies \subseteq aeReplies', MatchesAcked(W),
           \A k \in Servers :
               status'[k] = "Leader"
                 => /\ status[k] = "Leader" /\ CurrentTerm'[k] = CurrentTerm[k]
                    /\ matchIndex'[k] = matchIndex[k]
    PROVE  MatchesAcked(W)'
<1>1. ASSUME NEW i \in Servers, status'[i] = "Leader", NEW p \in Peers(i), matchIndex'[i][p] # 0
      PROVE  Acked(p, CurrentTerm[i], matchIndex[i][p] + 1, W)'
  <2>1. Acked(p, CurrentTerm[i], matchIndex[i][p] + 1, W)
    BY Zenon, <1>1 DEF MatchesAcked
  <2>2. p \in Servers
    BY Zenon DEF Peers
  <2>3. PICK t, a : t = CurrentTerm[i] /\ a = matchIndex[i][p] + 1
    BY Zenon
  <2>4. Acked(p, t, a, W)'
    BY Zenon, <2>1, <2>2, <2>3, AckedStays
  <2>5. t = CurrentTerm'[i] /\ a = matchIndex'[i][p] + 1
    BY Zenon, <1>1, <2>3
  <2> QED
    BY Zenon, <2>4, <2>5
<1> QED
  BY Zenon, <1>1 DEF MatchesAcked, Peers

\* What was applied stays decided when nothing is applied.
LEMMA AppliedExtended ==
    ASSUME NEW T \in LeaderLogs, NEW W \in Leaderships, NEW T2 \in LeaderLogs,
           NEW W2 \in Leaderships, Extends(T, W, T2, W2), aeReplies \subseteq aeReplies',
           TypeOK, AppliedDecided(T, W), applyVars' = applyVars, snapshot' = snapshot
    PROVE  AppliedDecided(T2, W2)'
<1>1. /\ lastApplied' = lastApplied /\ applySnapshot' = applySnapshot
      /\ applyCh' = applyCh /\ applied' = applied
  BY Zenon DEF applyVars
<1>2. ASSUME NEW i \in Servers PROVE Len(applied[i]) \in Nat
  BY Zenon, SequenceFacts DEF TypeOK, ApplyType, States
<1>3. ASSUME NEW i \in Servers, NEW k \in 1 .. Len(applied[i])
      PROVE  Decided(k, applied[i][k], T2, W2)'
  <2>1. Decided(k, applied[i][k], T, W)
    BY Zenon DEF AppliedDecided
  <2>2. k \in Nat
    BY <1>2
  <2> QED
    BY Zenon, <1>1, <2>1, <2>2, DecidedStays
<1>4. ASSUME NEW i \in Servers, NEW k \in 1 .. Len(applyCh[i])
      PROVE  Decided(Len(applied[i]) + k, applyCh[i][k].Command, T2, W2)'
  <2>1. Decided(Len(applied[i]) + k, applyCh[i][k].Command, T, W)
    BY Zenon DEF AppliedDecided
  <2>2. Len(applied[i]) + k \in Nat
    BY <1>2
  <2> QED
    BY Zenon, <1>1, <2>1, <2>2, DecidedStays
<1> QED
  BY Zenon, <1>1, <1>3, <1>4 DEF AppliedDecided

\* The part of the history about logs, leaders and votes survives a step that
\* changes no log, elects nobody and answers no call with success.
LEMMA QuietHistory ==
    ASSUME NEW T \in LeaderLogs, NEW W \in Leaderships, History(T, W), ElectionInv, TypeOK',
           TermsRise, RolesKept, NoNewAcks, rvVars' = rvVars, Log' = Log
    PROVE  /\ LogsBacked(T, W)' /\ LeadersRecorded(T, W)'
           /\ RepliesAnswer(T, W)' /\ CandidatesAsk'
           /\ LeadersHaveIt(T, W)' /\ PeersKeepIt(T, W)' /\ VotersSeeIt(T, W)'
<1>1. TypeOK /\ Extends(T, W, T, W)
  BY Zenon, ExtendsSelf DEF ElectionInv
<1>2. /\ LogsBacked(T, W) /\ LeadersRecorded(T, W) /\ RepliesAnswer(T, W) /\ CandidatesAsk
      /\ LeadersHaveIt(T, W) /\ PeersKeepIt(T, W) /\ VotersSeeIt(T, W)
  BY Zenon DEF History
<1>3. LogsBacked(T, W)'
  BY Zenon, <1>1, <1>2, LogsFrame
<1>4. LeadersRecorded(T, W)'
  <2>1. Ballots' = Ballots
    BY Zenon DEF Ballots, rvVars
  <2> QED
    BY Zenon, <1>1, <1>2, <2>1, LeadersFrame
<1>5. RepliesAnswer(T, W)'
  BY Zenon, <1>1, <1>2, RepliesExtended
<1>6. CandidatesAsk'
  BY Zenon, <1>2, CandidatesFrame
<1>7. LeadersHaveIt(T, W)' /\ PeersKeepIt(T, W)'
  BY Zenon, <1>1, <1>2, ChoiceFrame
<1>8. VotersSeeIt(T, W)'
  BY Zenon, <1>1, <1>2, VotersFrame
<1> QED
  BY Zenon, <1>3, <1>4, <1>5, <1>6, <1>7, <1>8

\* The part about calls and commitment survives a step that makes no call and
\* moves no commitIndex.
LEMMA QuietCommits ==
    ASSUME NEW T \in LeaderLogs, NEW W \in Leaderships, History(T, W), ElectionInv, TypeOK',
           TermsRise, aeReplies \subseteq aeReplies', Log' = Log, aeArgs' = aeArgs,
           commitIndex' = commitIndex
    PROVE  CallsCarryLogs(T, W)' /\ CommitsSettled(T, W)'
<1>1. TypeOK /\ Extends(T, W, T, W) /\ CallsCarryLogs(T, W) /\ CommitsSettled(T, W)
  BY Zenon, ExtendsSelf DEF ElectionInv, History
<1>2. CallsCarryLogs(T, W)'
  BY Zenon, <1>1, CallsExtended
<1>3. ASSUME NEW i \in Servers, commitIndex[i] # 0
      PROVE  Agree(Log'[i], Log[i], commitIndex[i] + 1)
  <2>1. /\ commitIndex[i] \in Nat /\ commitIndex[i] + 1 <= Len(Log[i])
    BY Zenon, <1>1, <1>3 DEF CommitsSettled, Settled, Agree
  <2>2. Log[i] \in Seq(Entries) /\ commitIndex[i] + 1 \in Int
    BY <1>1, <2>1, LogFacts
  <2> QED
    BY Zenon, <2>1, <2>2, AgreeSelf
<1>4. CommitsSettled(T, W)'
  BY Zenon, <1>1, <1>3, CommitsExtended
<1> QED
  BY Zenon, <1>2, <1>4

\* A step that changes none of the variables the history speaks of but roles
\* and terms.
LEMMA QuietStep ==
    ASSUME NEW T \in LeaderLogs, NEW W \in Leaderships, History(T, W), ElectionInv, TypeOK',
           TermsRise, RolesKept, NoNewAcks, rvVars' = rvVars, Log' = Log, snapshot' = snapshot,
           aeArgs' = aeArgs, commitIndex' = commitIndex, matchIndex' = matchIndex,
           applyVars' = applyVars
    PROVE  History(T, W)'
<1>1. /\ LogsBacked(T, W)' /\ LeadersRecorded(T, W)'
      /\ RepliesAnswer(T, W)' /\ CandidatesAsk'
      /\ LeadersHaveIt(T, W)' /\ PeersKeepIt(T, W)' /\ VotersSeeIt(T, W)'
  BY Zenon, QuietHistory
<1>2. aeReplies \subseteq aeReplies' /\ TypeOK /\ Extends(T, W, T, W)
  BY Zenon, ExtendsSelf DEF NoNewAcks, ElectionInv
<1>3. CallsCarryLogs(T, W)' /\ CommitsSettled(T, W)'
  BY Zenon, <1>2, QuietCommits
<1>4. MatchesAcked(W)'
  BY Zenon, <1>2, MatchesFrame DEF RolesKept, History
<1>5. AppliedDecided(T, W)'
  BY Zenon, <1>2, AppliedExtended DEF History
<1> QED
  BY Zenon, <1>1, <1>3, <1>4, <1>5 DEF History

\* A peer steps down and nothing else.
LEMMA StepDownSafe ==
    ASSUME NEW T \in LeaderLogs, NEW W \in Leaderships, History(T, W), ElectionInv, TypeOK',
           TermsRise, NEW i \in Servers, NEW term, stepDown(i, term),
           UNCHANGED <<leaderVars, commitIndex, applyVars, rvVars, aeVars>>
    PROVE  History(T, W)'
<1>1. /\ CurrentTerm \in [Servers -> Nat]
      /\ status \in [Servers -> {"Leader", "Candidate", "Follower"}]
  BY Zenon DEF ElectionInv, TypeOK, TermType, RoleType
<1>2. /\ CurrentTerm' = [CurrentTerm EXCEPT ![i] = term]
      /\ status' = [status EXCEPT ![i] = "Follower"] /\ Log' = Log /\ snapshot' = snapshot
  BY Zenon DEF stepDown, BecomeFollower, logVars
<1>3. RolesKept
  BY <1>1, <1>2 DEF RolesKept, TermsRise
<1>4. NoNewAcks
  BY Zenon DEF NoNewAcks, aeVars
<1>5. aeArgs' = aeArgs /\ matchIndex' = matchIndex
  BY Zenon DEF aeVars, leaderVars
<1> QED
  BY Zenon, <1>2, <1>3, <1>4, <1>5, QuietStep

\* The deferred function of a heartbeatWorker.
LEMMA WorkerExitSafe ==
    ASSUME NEW T \in LeaderLogs, NEW W \in Leaderships, History(T, W), ElectionInv, TypeOK',
           TermsRise, NEW i \in Servers, NEW p \in Peers(i), workerExit(i, p)
    PROVE  History(T, W)'
<1>1. /\ CurrentTerm' = CurrentTerm /\ status' = status /\ Log' = Log /\ snapshot' = snapshot
      /\ aeArgs' = aeArgs /\ aeReplies' = aeReplies /\ matchIndex' = matchIndex
      /\ rvVars' = rvVars /\ commitIndex' = commitIndex /\ applyVars' = applyVars
  BY Zenon DEF workerExit, termVars, logVars, aeVars, leaderVars
<1>2. RolesKept /\ NoNewAcks
  BY Zenon, <1>1 DEF RolesKept, NoNewAcks
<1> QED
  BY Zenon, <1>1, <1>2, QuietStep

\* AppendEntries refuses a call of an old term.
LEMMA RejectAppendEntriesSafe ==
    ASSUME NEW T \in LeaderLogs, NEW W \in Leaderships, History(T, W), ElectionInv, TypeOK',
           TermsRise, NEW m \in aeArgs, RejectAppendEntries(m.To, m)
    PROVE  History(T, W)'
<1>1. /\ CurrentTerm' = CurrentTerm /\ status' = status /\ Log' = Log /\ snapshot' = snapshot
      /\ aeArgs' = aeArgs /\ matchIndex' = matchIndex
      /\ rvVars' = rvVars /\ commitIndex' = commitIndex /\ applyVars' = applyVars
      /\ aeReplies' = aeReplies \cup
           {AppendEntriesReply(m.To, m, CurrentTerm[m.To], FALSE, NoConflict)}
  BY Zenon DEF RejectAppendEntries, termVars, logVars, leaderVars
<1>2. ~AppendEntriesReply(m.To, m, CurrentTerm[m.To], FALSE, NoConflict).Success
  BY Zenon DEF AppendEntriesReply
<1>3. RolesKept /\ NoNewAcks
  BY Zenon, <1>1, <1>2 DEF RolesKept, NoNewAcks
<1> QED
  BY Zenon, <1>1, <1>3, QuietStep

-----------------------------------------------------------------------------
(***************************************************************************)
(* Elections.                                                              *)
(***************************************************************************)

\* A RequestVote call is of a term its candidate has reached.
LEMMA RequestFacts ==
    ASSUME ElectionInv, NEW m \in rvArgs
    PROVE  /\ m.Term \in Nat /\ m.From \in Servers /\ m.To \in Servers
           /\ m.LastLogIndex \in Int /\ m.LastLogTerm \in Int
           /\ m.Term <= CurrentTerm[m.From]
<1>1. Ballot(m.From, m.From, m.Term) \in Ballots
  BY Zenon DEF Ballots, Ballot
<1>2. m.Term <= CurrentTerm[m.From]
  BY Zenon, <1>1 DEF ElectionInv, VotesKept, Ballot
<1> QED
  BY Zenon, <1>2 DEF ElectionInv, TypeOK, RequestVoteType, RequestVoteArgs

\* A vote is granted in a term its voter has reached.
LEMMA VoteFacts ==
    ASSUME ElectionInv, NEW r \in rvReplies
    PROVE  /\ r.Term \in Nat /\ r.From \in Servers /\ r.To \in Servers /\ r.ReplyTerm \in Nat
           /\ r.VoteGranted => r.Term <= CurrentTerm[r.From]
<1>1. r.VoteGranted => Ballot(r.From, r.To, r.Term) \in Ballots
  BY Zenon DEF Ballots, Ballot
<1>2. r.VoteGranted => r.Term <= CurrentTerm[r.From]
  BY Zenon, <1>1 DEF ElectionInv, VotesKept, Ballot
<1> QED
  BY Zenon, <1>2 DEF ElectionInv, TypeOK, RequestVoteType, RequestVoteReplies

\* startElection: a higher term, and votes asked for with the current log.
LEMMA StartElectionSafe ==
    ASSUME NEW T \in LeaderLogs, NEW W \in Leaderships, History(T, W), ElectionInv, TypeOK',
           TermsRise, NEW i \in Servers, startElection(i)
    PROVE  History(T, W)'
<1>1. /\ CurrentTerm \in [Servers -> Nat] /\ TypeOK /\ Extends(T, W, T, W)
      /\ status \in [Servers -> {"Leader", "Candidate", "Follower"}]
  BY Zenon, ExtendsSelf DEF ElectionInv, TypeOK, TermType, RoleType
<1>2. /\ CurrentTerm' = [CurrentTerm EXCEPT ![i] = @ + 1]
      /\ status' = [status EXCEPT ![i] = "Candidate"] /\ Log' = Log /\ snapshot' = snapshot
      /\ rvReplies' = rvReplies /\ aeArgs' = aeArgs /\ aeReplies' = aeReplies
      /\ matchIndex' = matchIndex /\ commitIndex' = commitIndex /\ applyVars' = applyVars
  BY Zenon DEF startElection, logVars, aeVars, leaderVars
<1>3. lastIncludedIndex[i] = 0 /\ lastIncludedTerm[i] = NoTerm
  BY Zenon DEF ElectionInv, NoSnapshots
<1>4. /\ rvArgs \subseteq rvArgs'
      /\ \A m \in rvArgs' :
           \/ m \in rvArgs
           \/ /\ m.From = i /\ m.Term = CurrentTerm[i] + 1
              /\ m.LastLogIndex = lastLogIndex(Log[i], 0)
              /\ m.LastLogTerm = lastLogIndexTerm(Log[i], NoTerm)
  <2>1. rvArgs' = rvArgs \cup
          {[Term |-> CurrentTerm[i] + 1, From |-> i, To |-> p,
            LastLogIndex |-> LastIndex(i), LastLogTerm |-> LastTerm(i)] : p \in Peers(i)}
    BY Zenon DEF startElection
  <2>2. /\ LastIndex(i) = lastLogIndex(Log[i], 0)
        /\ LastTerm(i) = lastLogIndexTerm(Log[i], NoTerm)
    BY Zenon, <1>3 DEF LastIndex, LastTerm
  <2> QED
    BY <2>1, <2>2
<1>5. NoNewAcks /\ aeReplies \subseteq aeReplies'
  BY Zenon, <1>2 DEF NoNewAcks
<1>6. RolesKept
  BY <1>1, <1>2 DEF RolesKept
<1>7. ASSUME NEW m \in rvArgs, m.From = i PROVE m.Term # CurrentTerm[i] + 1
  <2>1. m.Term \in Nat /\ m.Term <= CurrentTerm[i] /\ CurrentTerm[i] \in Nat
    BY Zenon, <1>1, <1>7, RequestFacts
  <2> QED
    BY <2>1
<1>8. LogsBacked(T, W)' /\ RepliesAnswer(T, W)' /\ LeadersHaveIt(T, W)' /\ PeersKeepIt(T, W)'
  BY Zenon, <1>1, <1>2, <1>5, LogsFrame, RepliesExtended, ChoiceFrame DEF History
<1>9. LeadersRecorded(T, W)'
  <2>1. Ballots \subseteq Ballots'
    BY Zenon, <1>2, <1>4 DEF Ballots
  <2> QED
    BY Zenon, <1>1, <1>6, <2>1, LeadersFrame DEF History
<1>10. CandidatesAsk'
  <2>1. CandidatesAsk
    BY Zenon DEF History
  <2>2. \A r \in rvReplies' : \E m \in rvArgs' : m.From = r.To /\ m.Term = r.Term
    BY Zenon, <1>2, <1>4, <2>1 DEF CandidatesAsk
  <2>3. CurrentTerm'[i] = CurrentTerm[i] + 1
    BY Zenon, <1>1, <1>2
  <2>4. ASSUME NEW m \in rvArgs', status'[m.From] = "Candidate", CurrentTerm'[m.From] = m.Term
        PROVE  /\ m.LastLogIndex = lastLogIndex(Log'[m.From], 0)
               /\ m.LastLogTerm = lastLogIndexTerm(Log'[m.From], NoTerm)
    <3>1. CASE m \in rvArgs
      <4>1. m.From # i
        BY Zenon, <1>7, <2>3, <2>4, <3>1
      <4>2. m.From \in Servers
        BY Zenon, <3>1, RequestFacts
      <4>3. status'[m.From] = status[m.From] /\ CurrentTerm'[m.From] = CurrentTerm[m.From]
        BY Zenon, <1>1, <1>2, <4>1, <4>2
      <4> QED
        BY Zenon, <1>2, <2>1, <2>4, <3>1, <4>3 DEF CandidatesAsk
    <3>2. CASE m \notin rvArgs
      BY Zenon, <1>2, <1>4, <3>2
    <3> QED
      BY Zenon, <3>1, <3>2
  <2>5. ASSUME NEW m \in rvArgs', NEW a \in rvArgs', a.From = m.From, a.Term = m.Term
        PROVE  a.LastLogIndex = m.LastLogIndex /\ a.LastLogTerm = m.LastLogTerm
    <3>1. CASE m \in rvArgs /\ a \in rvArgs
      BY Zenon, <2>1, <2>5, <3>1 DEF CandidatesAsk
    <3>2. CASE ~(m \in rvArgs /\ a \in rvArgs)
      BY Zenon, <1>4, <1>7, <2>5, <3>2
    <3> QED
      BY Zenon, <3>1, <3>2
  <2> QED
    BY Zenon, <2>2, <2>4, <2>5 DEF CandidatesAsk
<1>11. VotersSeeIt(T, W)'
  <2>1. ASSUME NEW r \in rvReplies, NEW m \in rvArgs', m.From = r.To, m.Term = r.Term
        PROVE  m \in rvArgs
    <3>1. \E a \in rvArgs : a.From = r.To /\ a.Term = r.Term
      BY Zenon DEF History, CandidatesAsk
    <3> QED
      BY Zenon, <1>4, <1>7, <2>1, <3>1
  <2>2. \A t, p \in Nat : Choosable(t, p, T, W)' => Choosable(t, p, T, W)
    BY Zenon, <1>1, <1>5, QuietChoosable
  <2> QED
    BY Zenon, <1>2, <1>5, <2>1, <2>2, AckedBefore DEF VotersSeeIt, History
<1>12. CallsCarryLogs(T, W)' /\ CommitsSettled(T, W)'
  BY Zenon, <1>2, <1>5, QuietCommits
<1>13. MatchesAcked(W)'
  BY Zenon, <1>2, <1>5, <1>6, MatchesFrame DEF RolesKept, History
<1>14. AppliedDecided(T, W)'
  BY Zenon, <1>1, <1>2, <1>5, AppliedExtended DEF History
<1> QED
  BY Zenon, <1>8, <1>9, <1>10, <1>11, <1>12, <1>13, <1>14 DEF History

\* RequestVote: a vote goes only to a candidate whose log is at least as good
\* as what the voter has acknowledged.
LEMMA RequestVoteSafe ==
    ASSUME NEW T \in LeaderLogs, NEW W \in Leaderships, History(T, W), ElectionInv, TypeOK',
           TermsRise, NEW m \in rvArgs, RequestVote(m.To, m)
    PROVE  History(T, W)'
<1> DEFINE j == m.To
<1>1. /\ CurrentTerm \in [Servers -> Nat] /\ TypeOK /\ Extends(T, W, T, W)
      /\ status \in [Servers -> {"Leader", "Candidate", "Follower"}]
  BY Zenon, ExtendsSelf DEF ElectionInv, TypeOK, TermType, RoleType
<1>2. /\ m.Term \in Nat /\ m.From \in Servers /\ j \in Servers
      /\ m.LastLogIndex \in Int /\ m.LastLogTerm \in Int
  BY Zenon, RequestFacts
<1>3. /\ Log' = Log /\ snapshot' = snapshot
      /\ rvArgs' = rvArgs /\ aeArgs' = aeArgs /\ aeReplies' = aeReplies
      /\ matchIndex' = matchIndex /\ commitIndex' = commitIndex /\ applyVars' = applyVars
  BY Zenon DEF RequestVote, logVars, aeVars, leaderVars
<1>4. \/ CurrentTerm' = CurrentTerm /\ status' = status
      \/ /\ CurrentTerm' = [CurrentTerm EXCEPT ![j] = m.Term]
         /\ status' = [status EXCEPT ![j] = "Follower"]
  BY Zenon DEF RequestVote
<1>5. /\ rvReplies \subseteq rvReplies'
      /\ \A r \in rvReplies' :
           \/ r \in rvReplies
           \/ /\ r.From = j /\ r.To = m.From /\ r.Term = m.Term
              /\ r.VoteGranted => GrantsVote(j, m)
  <2>1. PICK reply : /\ rvReplies' = rvReplies \cup {reply}
                     /\ reply = [Term |-> m.Term, From |-> j, To |-> m.From,
                                 ReplyTerm |-> CurrentTerm'[j], VoteGranted |-> GrantsVote(j, m)]
    BY Zenon DEF RequestVote
  <2>2. /\ reply.From = j /\ reply.To = m.From /\ reply.Term = m.Term
        /\ reply.VoteGranted = GrantsVote(j, m)
    BY Zenon, <2>1
  <2> QED
    BY Zenon, <2>1, <2>2
<1>6. NoNewAcks /\ aeReplies \subseteq aeReplies'
  BY Zenon, <1>3 DEF NoNewAcks
<1>7. RolesKept
  <2>1. CASE CurrentTerm' = CurrentTerm /\ status' = status
    BY Zenon, <1>3, <2>1 DEF RolesKept
  <2>2. CASE /\ CurrentTerm' = [CurrentTerm EXCEPT ![j] = m.Term]
             /\ status' = [status EXCEPT ![j] = "Follower"]
    BY <1>1, <1>3, <2>2 DEF RolesKept, TermsRise
  <2> QED
    BY Zenon, <1>4, <2>1, <2>2
<1>8. LogsBacked(T, W)' /\ RepliesAnswer(T, W)' /\ LeadersHaveIt(T, W)' /\ PeersKeepIt(T, W)'
  BY Zenon, <1>1, <1>3, <1>6, LogsFrame, RepliesExtended, ChoiceFrame DEF History
<1>9. LeadersRecorded(T, W)'
  <2>1. Ballots \subseteq Ballots'
    BY Zenon, <1>3, <1>5 DEF Ballots
  <2> QED
    BY Zenon, <1>1, <1>7, <2>1, LeadersFrame DEF History
<1>10. CandidatesAsk'
  <2>1. CandidatesAsk
    BY Zenon DEF History
  <2>2. \A r \in rvReplies' : \E a \in rvArgs' : a.From = r.To /\ a.Term = r.Term
    BY Zenon, <1>3, <1>5, <2>1 DEF CandidatesAsk
  <2>3. ASSUME NEW a \in rvArgs, status'[a.From] = "Candidate", CurrentTerm'[a.From] = a.Term
        PROVE  /\ a.LastLogIndex = lastLogIndex(Log'[a.From], 0)
               /\ a.LastLogTerm = lastLogIndexTerm(Log'[a.From], NoTerm)
    <3>1. a.From \in Servers
      BY Zenon, RequestFacts
    <3>2. status'[a.From] = status[a.From] /\ CurrentTerm'[a.From] = CurrentTerm[a.From]
      <4>1. CASE CurrentTerm' = CurrentTerm /\ status' = status
        BY Zenon, <4>1
      <4>2. CASE /\ CurrentTerm' = [CurrentTerm EXCEPT ![j] = m.Term]
                 /\ status' = [status EXCEPT ![j] = "Follower"]
        <5>1. a.From # j
          BY <1>1, <1>2, <2>3, <4>2
        <5> QED
          BY Zenon, <1>1, <3>1, <4>2, <5>1
      <4> QED
        BY Zenon, <1>4, <4>1, <4>2
    <3> QED
      BY Zenon, <1>3, <2>1, <2>3, <3>2 DEF CandidatesAsk
  <2> QED
    BY Zenon, <1>3, <2>1, <2>2, <2>3 DEF CandidatesAsk
<1>11. VotersSeeIt(T, W)'
  <2>1. \A t, p \in Nat : Choosable(t, p, T, W)' => Choosable(t, p, T, W)
    BY Zenon, <1>1, <1>6, QuietChoosable
  <2>2. ASSUME NEW r \in rvReplies', NEW a \in rvArgs, NEW t \in Nat, NEW p \in Nat,
               r.VoteGranted, a.From = r.To, a.Term = r.Term, t < r.Term,
               Acked(r.From, t, p, W), Choosable(t, p, T, W)
        PROVE  AtLeast(a, t, p)
    <3>1. CASE r \in rvReplies
      BY Zenon, <2>2, <3>1 DEF VotersSeeIt, History
    <3>2. CASE r \notin rvReplies
      <4>1. r.From = j /\ r.To = m.From /\ r.Term = m.Term /\ GrantsVote(j, m)
        BY Zenon, <1>5, <2>2, <3>2
      <4>2. Has(Log[j], p, t)
        BY Zenon, <1>2, <2>2, <4>1 DEF PeersKeepIt, History
      <4>3. isLogUpToDate(Log[j], 0, NoTerm, m.LastLogIndex, m.LastLogTerm)
        BY Zenon, <1>2, <4>1 DEF GrantsVote, ElectionInv, NoSnapshots
      <4>4. Backed(Log[j], T, W) /\ \A u \in Nat : NotAfter(T[u], u)
        BY Zenon, <1>2 DEF LogsBacked, History
      <4>5. Log[j] \in Seq(Entries)
        BY Zenon, <1>1, <1>2, LogFacts
      <4>6. t < m.LastLogTerm \/ (t = m.LastLogTerm /\ p <= m.LastLogIndex + 1)
        <5>1. PICK index \in Int, term \in Int, L \in Seq(Entries) :
                 index = m.LastLogIndex /\ term = m.LastLogTerm /\ L = Log[j]
          BY Zenon, <1>2, <4>5
        <5>2. Has(L, p, t) /\ isLogUpToDate(L, 0, NoTerm, index, term) /\ Backed(L, T, W)
          BY Zenon, <4>2, <4>3, <4>4, <5>1
        <5>3. t < term \/ (t = term /\ p <= index + 1)
          BY Zenon, <4>4, <5>2, UpToDateSees
        <5> QED
          BY Zenon, <5>1, <5>3
      <4>7. a.LastLogIndex = m.LastLogIndex /\ a.LastLogTerm = m.LastLogTerm
        BY Zenon, <2>2, <4>1 DEF CandidatesAsk, History
      <4> QED
        BY Zenon, <4>6, <4>7 DEF AtLeast
    <3> QED
      BY Zenon, <3>1, <3>2
  <2> QED
    BY Zenon, <1>3, <1>6, <2>1, <2>2, AckedBefore DEF VotersSeeIt
<1>12. CallsCarryLogs(T, W)' /\ CommitsSettled(T, W)'
  BY Zenon, <1>3, <1>6, QuietCommits
<1>13. MatchesAcked(W)'
  BY Zenon, <1>3, <1>6, <1>7, MatchesFrame DEF RolesKept, History
<1>14. AppliedDecided(T, W)'
  BY Zenon, <1>1, <1>3, <1>6, AppliedExtended DEF History
<1> QED
  BY Zenon, <1>8, <1>9, <1>10, <1>11, <1>12, <1>13, <1>14 DEF History

\* Two peers elected in a term are one.
LEMMA ElectedOnce ==
    ASSUME SetFacts,
           ElectionInv, NEW c, NEW d, NEW t, Elected(c, t), Elected(d, t)
    PROVE  c = d
<1>1. PICK P \in SUBSET Servers : IsMajority(P) /\ \A v \in P : Ballot(v, c, t) \in Ballots
  BY Zenon DEF Elected
<1>2. PICK Q \in SUBSET Servers : IsMajority(Q) /\ \A v \in Q : Ballot(v, d, t) \in Ballots
  BY Zenon DEF Elected
<1>3. PICK v : v \in P /\ v \in Q
  BY Zenon, <1>1, <1>2 DEF SetFacts
<1>4. Ballot(v, c, t) \in Ballots /\ Ballot(v, d, t) \in Ballots
  BY Zenon, <1>1, <1>2, <1>3
<1>5. Ballot(v, c, t).For = Ballot(v, d, t).For
  BY Zenon, <1>4 DEF ElectionInv, OneVotePerTerm, Ballot
<1> QED
  BY Zenon, <1>5 DEF Ballot

\* A candidate that a majority voted for has every entry of an earlier term
\* that may be chosen: one of its voters has acknowledged it.
LEMMA WinnerHasIt ==
    ASSUME SetFacts,
           NEW T \in LeaderLogs, NEW W \in Leaderships, History(T, W), ElectionInv,
           NEW i \in Servers, status[i] = "Candidate", NEW t \in Nat, t = CurrentTerm[i],
           Elected(i, t), NEW a \in Nat, NEW p \in Nat, a < t, Choosable(a, p, T, W)
    PROVE  Has(Log[i], p, a)
<1>1. PICK V \in SUBSET Servers : IsMajority(V) /\ \A v \in V : Ballot(v, i, t) \in Ballots
  BY Zenon DEF Elected
<1>2. PICK Q \in SUBSET Servers :
        IsMajority(Q) /\ \A j \in Q : Acked(j, a, p, W) \/ CurrentTerm[j] <= a
  BY Zenon DEF Choosable
<1>3. PICK v : v \in V /\ v \in Q
  BY Zenon, <1>1, <1>2 DEF SetFacts
<1>4. v \in Servers /\ Ballot(v, i, t) \in Ballots /\ TypeOK
  BY Zenon, <1>1, <1>3 DEF ElectionInv
<1>5. Acked(v, a, p, W)
  <2>1. t <= CurrentTerm[v]
    BY Zenon, <1>4 DEF ElectionInv, VotesKept, Ballot
  <2>2. CurrentTerm[v] \in Nat
    BY Zenon, <1>4, TermFacts
  <2>3. ~(CurrentTerm[v] <= a)
    BY <2>1, <2>2
  <2> QED
    BY Zenon, <1>2, <1>3, <2>3
<1>6. CASE v = i
  BY Zenon, <1>5, <1>6 DEF PeersKeepIt, History
<1>7. CASE v # i
  <2>1. PICK r \in rvReplies : r.VoteGranted /\ r.From = v /\ r.To = i /\ r.Term = t
    <3>1. \/ \E m \in rvArgs : Ballot(v, i, t) = [Voter |-> m.From, For |-> m.From, Term |-> m.Term]
          \/ \E r \in rvReplies : /\ r.VoteGranted
               /\ Ballot(v, i, t) = [Voter |-> r.From, For |-> r.To, Term |-> r.Term]
      BY Zenon, <1>4 DEF Ballots
    <3>2. PICK b : b = Ballot(v, i, t)
      BY Zenon
    <3>3. b.Voter = v /\ b.For = i /\ b.Term = t
      BY Zenon, <3>2 DEF Ballot
    <3>4. ASSUME NEW m \in rvArgs, b = [Voter |-> m.From, For |-> m.From, Term |-> m.Term]
          PROVE  FALSE
      <4>1. b.Voter = m.From /\ b.For = m.From
        BY Zenon, <3>4
      <4> QED
        BY Zenon, <4>1, <3>3, <1>7
    <3>5. ASSUME NEW r \in rvReplies, r.VoteGranted,
                 b = [Voter |-> r.From, For |-> r.To, Term |-> r.Term]
          PROVE  r.From = v /\ r.To = i /\ r.Term = t
      BY Zenon, <3>3, <3>5
    <3> QED
      BY Zenon, <3>1, <3>2, <3>4, <3>5
  <2>2. PICK m \in rvArgs : m.From = i /\ m.Term = t
    BY Zenon, <2>1 DEF CandidatesAsk, History
  <2>3. AtLeast(m, a, p)
    BY Zenon, <1>5, <2>1, <2>2 DEF VotersSeeIt, History
  <2>4. /\ m.LastLogIndex = lastLogIndex(Log[i], 0)
        /\ m.LastLogTerm = lastLogIndexTerm(Log[i], NoTerm)
    BY Zenon, <2>2 DEF CandidatesAsk, History
  <2>5. \/ a < lastLogIndexTerm(Log[i], NoTerm)
        \/ a = lastLogIndexTerm(Log[i], NoTerm) /\ p <= lastLogIndex(Log[i], 0) + 1
    BY Zenon, <2>3, <2>4 DEF AtLeast
  <2>6. /\ \A u \in Nat : NotAfter(T[u], u)
        /\ \A u \in Nat : Backed(T[u], T, W)
        /\ Backed(Log[i], T, W) /\ Has(T[a], p, a)
    BY Zenon DEF LogsBacked, History, Choosable, Own
  <2>7. \A u \in Nat : a < u /\ W[u] # Nobody => Has(T[u], p, a)
    BY Zenon DEF LeadersHaveIt, History
  <2>8. PICK L \in Seq(Entries) : L = Log[i]
    BY Zenon, <1>4, LogFacts
  <2>9. Has(L, p, a)
    BY Zenon, <2>5, <2>6, <2>7, <2>8, UpToDateHas
  <2> QED
    BY Zenon, <2>8, <2>9
<1> QED
  BY Zenon, <1>6, <1>7

\* The acknowledgements of a term depend on its leader and the replies only.
LEMMA AckedSame ==
    ASSUME NEW W, NEW W2, NEW j, NEW t, NEW p, aeReplies' = aeReplies, W2[t] = W[t],
           Acked(j, t, p, W2)'
    PROVE  Acked(j, t, p, W)
BY Zenon DEF Acked

\* A candidate that takes office: its term had no leader before, and its log
\* has no entry of the term.
LEMMA BecomeLeaderSafe ==
    ASSUME SetFacts,
           NEW T \in LeaderLogs, NEW W \in Leaderships, History(T, W), ElectionInv, TypeOK',
           NEW i \in Servers, status[i] = "Candidate", Elected(i, CurrentTerm[i]),
           becomeLeader(i),
           UNCHANGED <<termVars, logVars, commitIndex, applyVars, rvVars, aeVars>>
    PROVE  \E T2 \in LeaderLogs, W2 \in Leaderships : History(T2, W2)'
<1>1. /\ TypeOK /\ Log \in [Servers -> Seq(Entries) \ {<<>>}]
      /\ status \in [Servers -> {"Leader", "Candidate", "Follower"}]
      /\ matchIndex \in [Servers -> [Servers -> Int]] /\ CurrentTerm \in [Servers -> Nat]
  BY Zenon DEF ElectionInv, TypeOK, TermType, RoleType, LogType, LeaderType
<1>2. PICK t \in Nat : t = CurrentTerm[i]
  BY Zenon, <1>1
<1>3. PICK L \in Seq(Entries) \ {<<>>} : L = Log[i]
  BY Zenon, <1>1
<1>4. /\ CurrentTerm' = CurrentTerm /\ Log' = Log /\ snapshot' = snapshot
      /\ rvArgs' = rvArgs /\ rvReplies' = rvReplies /\ aeArgs' = aeArgs /\ aeReplies' = aeReplies
      /\ commitIndex' = commitIndex /\ applyVars' = applyVars /\ Ballots' = Ballots
      /\ status' = [status EXCEPT ![i] = "Leader"]
      /\ matchIndex' = [matchIndex EXCEPT ![i] = [p \in Servers |-> 0]]
  BY Zenon DEF termVars, logVars, rvVars, aeVars, becomeLeader, Ballots, ElectionInv, NoSnapshots
<1>5. TermsRise /\ NoNewAcks /\ aeReplies \subseteq aeReplies'
  <2>1. TermsRise
    BY <1>1, <1>4 DEF TermsRise
  <2> QED
    BY Zenon, <1>4, <2>1 DEF NoNewAcks
<1>6. Elected(i, t) /\ t # 0 /\ i # Nobody
  <2>1. CurrentTerm[i] >= 1
    BY Zenon DEF History, LeadersRecorded
  <2>2. t # 0
    BY <1>2, <2>1
  <2> QED
    BY Zenon, <1>2, <2>2, ServersAssumption
<1>7. W[t] = Nobody
  <2>1. SUFFICES ASSUME W[t] # Nobody PROVE FALSE
    BY Zenon
  <2>2. /\ Elected(W[t], t)
        /\ t = CurrentTerm[W[t]] => status[W[t]] # "Candidate"
    BY Zenon, <2>1 DEF History, LeadersRecorded
  <2>3. W[t] = i
    BY Zenon, <1>6, <2>2, ElectedOnce
  <2> QED
    BY Zenon, <1>2, <2>2, <2>3
<1>8. PICK T2, W2 : T2 = [T EXCEPT ![t] = L] /\ W2 = [W EXCEPT ![t] = i]
  BY Zenon
<1>9. /\ T2 \in LeaderLogs /\ T2[t] = L /\ \A u \in Nat : u # t => T2[u] = T[u]
      /\ W2 \in Leaderships /\ W2[t] = i /\ \A u \in Nat : u # t => W2[u] = W[u]
  BY Zenon, <1>8 DEF LeaderLogs, Leaderships
<1>10. Extends(T, W, T2, W2)
  BY Zenon, <1>7, <1>9, LeaderLogFacts, AgreeSelf DEF Extends
<1>11. \A p : ~Has(L, p, t)
  BY Zenon, <1>3, <1>7, BackedEntry DEF History, LogsBacked
<1>12. \A u, p \in Nat : Own(u, p, T2, W2) => u # t /\ Own(u, p, T, W)
  BY Zenon, <1>9, <1>11 DEF Own
<1>13. \A u, p \in Nat : Choosable(u, p, T2, W2)' => u # t /\ Choosable(u, p, T, W)
  <2> SUFFICES ASSUME NEW u \in Nat, NEW p \in Nat, Choosable(u, p, T2, W2)'
               PROVE  u # t /\ Choosable(u, p, T, W)
    BY Zenon
  <2>1. u # t /\ Own(u, p, T, W)
    BY Zenon, <1>12 DEF Choosable, Own, Has
  <2>2. \A j \in Servers : Acked(j, u, p, W2)' => Acked(j, u, p, W)
    BY Zenon, <1>4, <1>9, <2>1, AckedSame
  <2> QED
    BY Zenon, <1>1, <1>5, <2>1, <2>2, ChoosableBefore
<1>14. \A j \in Servers, u, p \in Nat : u # t /\ Acked(j, u, p, W2)' => Acked(j, u, p, W)
  BY Zenon, <1>4, <1>9, AckedSame
<1>15. LogsBacked(T2, W2)'
  <2>1. Backed(L, T2, W2) /\ NotAfter(L, t)
    BY Zenon, <1>2, <1>3, <1>9, <1>10, BackedExtended DEF History, LogsBacked
  <2>2. \A u \in Nat : Backed(T2[u], T2, W2) /\ NotAfter(T2[u], u)
    BY Zenon, <1>9, <1>10, <2>1, BackedExtended DEF History, LogsBacked
  <2>3. \A k \in Servers : Backed(Log[k], T2, W2) /\ NotAfter(Log[k], CurrentTerm[k])
    BY Zenon, <1>9, <1>10, BackedExtended DEF History, LogsBacked
  <2> QED
    BY Zenon, <1>4, <2>2, <2>3 DEF LogsBacked

<1>16. LeadersRecorded(T2, W2)'
  <2>1. LeadersRecorded(T, W)
    BY Zenon DEF History
  <2>2. W2[0] = Nobody
    BY Zenon, <1>6, <1>9, <2>1 DEF LeadersRecorded
  <2>3. ASSUME NEW u \in Nat, W2[u] # Nobody
        PROVE  /\ Elected(W2[u], u) /\ u <= CurrentTerm[W2[u]]
               /\ u = CurrentTerm[W2[u]] => status'[W2[u]] # "Candidate"
    <3>1. CASE u = t
      <4>1. u <= CurrentTerm[i]
        BY <1>2, <3>1
      <4> QED
        BY Zenon, <1>1, <1>4, <1>6, <1>9, <3>1, <4>1
    <3>2. CASE u # t
      <4>1. W2[u] = W[u] /\ W[u] \in Servers
        BY Zenon, <1>9, <2>3, <3>2 DEF Leaderships
      <4>2. status'[W[u]] = "Candidate" => status[W[u]] = "Candidate"
        BY Zenon, <1>1, <1>4, <4>1
      <4> QED
        BY Zenon, <2>1, <2>3, <4>1, <4>2 DEF LeadersRecorded
    <3> QED
      BY Zenon, <3>1, <3>2
  <2>4. ASSUME NEW k \in Servers
        PROVE  /\ status'[k] # "Follower" => CurrentTerm[k] >= 1
               /\ status'[k] = "Leader" => W2[CurrentTerm[k]] = k /\ T2[CurrentTerm[k]] = Log[k]
    <3>1. CASE k = i
      BY Zenon, <1>2, <1>3, <1>9, <2>1, <3>1 DEF LeadersRecorded
    <3>2. CASE k # i
      <4>1. status'[k] = status[k]
        BY Zenon, <1>1, <1>4, <3>2
      <4>2. status[k] = "Leader" => CurrentTerm[k] # t
        BY Zenon, <1>7, <2>1, ServersAssumption DEF LeadersRecorded
      <4> QED
        BY Zenon, <1>1, <1>9, <2>1, <4>1, <4>2 DEF LeadersRecorded
    <3> QED
      BY Zenon, <3>1, <3>2
  <2>5. \A c, u : Elected(c, u) => Elected(c, u)'
    BY Zenon, <1>4, ElectedKept
  <2> QED
    BY Zenon, <1>4, <2>2, <2>3, <2>4, <2>5 DEF LeadersRecorded
<1>17. CallsCarryLogs(T2, W2)' /\ RepliesAnswer(T2, W2)'
  BY Zenon, <1>1, <1>4, <1>5, <1>9, <1>10, CallsExtended, RepliesExtended DEF History
<1>18. CandidatesAsk'
  <2>1. \A k \in Servers : status'[k] = "Candidate" => status[k] = "Candidate"
    BY Zenon, <1>1, <1>4
  <2> QED
    BY Zenon, <1>4, <2>1, RequestFacts DEF CandidatesAsk, History
<1>19. LeadersHaveIt(T2, W2)'
  <2>1. ASSUME NEW a \in Nat, NEW u \in Nat, NEW p \in Nat, a < u, W2[u] # Nobody,
               Choosable(a, p, T, W)
        PROVE  Has(T2[u], p, a)
    <3>1. CASE u = t
      BY Zenon, <1>2, <1>3, <1>6, <1>9, <2>1, <3>1, WinnerHasIt
    <3>2. CASE u # t
      BY Zenon, <1>9, <2>1, <3>2 DEF LeadersHaveIt, History
    <3> QED
      BY Zenon, <3>1, <3>2
  <2> QED
    BY Zenon, <1>13, <2>1 DEF LeadersHaveIt
<1>20. PeersKeepIt(T2, W2)'
  BY Zenon, <1>4, <1>13, <1>14 DEF PeersKeepIt, History
<1>21. VotersSeeIt(T2, W2)'
  BY Zenon, <1>4, <1>13, <1>14, VoteFacts DEF VotersSeeIt, History
<1>22. CommitsSettled(T2, W2)'
  <2>1. ASSUME NEW k \in Servers, commitIndex[k] # 0
        PROVE  Agree(Log'[k], Log[k], commitIndex[k] + 1)
    <3>1. Settled(Log[k], commitIndex[k], CurrentTerm[k], T, W)
      BY Zenon DEF History, CommitsSettled
    <3>2. Log[k] \in Seq(Entries) /\ Log'[k] = Log[k]
      BY Zenon, <1>1, <1>4
    <3>3. commitIndex[k] + 1 <= Len(Log[k]) /\ commitIndex[k] + 1 \in Int
      BY <2>1, <3>1 DEF Settled, Agree
    <3> QED
      BY Zenon, <3>2, <3>3, AgreeSelf
  <2> QED
    BY Zenon, <1>1, <1>4, <1>5, <1>9, <1>10, <2>1, CommitsExtended DEF History
<1>23. MatchesAcked(W2)'
  <2> SUFFICES ASSUME NEW k \in Servers, status'[k] = "Leader", NEW p \in Peers(k)
               PROVE  \/ matchIndex'[k][p] = 0
                      \/ Acked(p, CurrentTerm[k], matchIndex[k][p] + 1, W2)'
    BY Zenon DEF MatchesAcked, Peers
  <2>1. p \in Servers
    BY Zenon DEF Peers
  <2>2. CASE k = i
    BY Zenon, <1>1, <1>4, <2>1, <2>2
  <2>3. CASE k # i
    <3>1. status[k] = "Leader" /\ matchIndex'[k] = matchIndex[k]
      BY Zenon, <1>1, <1>4, <2>3
    <3>2. matchIndex[k][p] = 0 \/ Acked(p, CurrentTerm[k], matchIndex[k][p] + 1, W)
      BY Zenon, <3>1 DEF MatchesAcked, History
    <3>3. PICK u \in Nat, q \in {matchIndex[k][p] + 1} :
             u = CurrentTerm[k] /\ q = matchIndex[k][p] + 1
      BY Zenon, <1>1
    <3>4. u = CurrentTerm'[k] /\ q = matchIndex'[k][p] + 1
      BY Zenon, <1>4, <3>1, <3>3
    <3>5. W[u] # Nobody => W2[u] = W[u]
      BY Zenon, <1>10 DEF Extends
    <3>6. Acked(p, u, q, W) => Acked(p, u, q, W2)'
      BY Zenon, <1>5, <1>9, <2>1, <3>5, AckedStays
    <3> QED
      BY Zenon, <3>1, <3>2, <3>3, <3>4, <3>6
  <2> QED
    BY Zenon, <2>2, <2>3
<1>24. AppliedDecided(T2, W2)'
  BY Zenon, <1>1, <1>4, <1>5, <1>9, <1>10, AppliedExtended DEF History
<1> QED
  BY Zenon, <1>9, <1>15, <1>16, <1>17, <1>18, <1>19, <1>20, <1>21, <1>22, <1>23, <1>24 DEF History

\* handleRequestVoteReply.
LEMMA HandleRequestVoteReplySafe ==
    ASSUME SetFacts,
           NEW T \in LeaderLogs, NEW W \in Leaderships, History(T, W), ElectionInv, ElectionInv',
           TermsRise, NEW r \in rvReplies, handleRequestVoteReply(r.To, r)
    PROVE  \E T2 \in LeaderLogs, W2 \in Leaderships : History(T2, W2)'
<1> DEFINE i == r.To
<1>1. /\ i \in Servers /\ TypeOK /\ TypeOK' /\ r.ReplyTerm \in Nat
      /\ status \in [Servers -> {"Leader", "Candidate", "Follower"}]
  BY Zenon, VoteFacts DEF ElectionInv, TypeOK, RoleType
<1>2. /\ UNCHANGED <<commitIndex, applyVars, rvVars, aeVars>> /\ status[i] = "Candidate"
  BY Zenon DEF handleRequestVoteReply
<1>3. CASE stepDown(i, r.ReplyTerm) /\ UNCHANGED leaderVars
  <2>1. History(T, W)'
    BY Zenon, <1>1, <1>2, <1>3, StepDownSafe
  <2> QED
    BY Zenon, <2>1
<1>4. CASE UNCHANGED <<termVars, logVars>> /\ UNCHANGED <<status, leaderVars>>
  <2>1. /\ CurrentTerm' = CurrentTerm /\ Log' = Log /\ snapshot' = snapshot /\ status' = status
        /\ matchIndex' = matchIndex /\ commitIndex' = commitIndex /\ applyVars' = applyVars
        /\ rvVars' = rvVars /\ aeArgs' = aeArgs /\ aeReplies' = aeReplies
    BY Zenon, <1>2, <1>4 DEF termVars, logVars, leaderVars, aeVars
  <2>2. RolesKept /\ NoNewAcks
    BY Zenon, <2>1 DEF RolesKept, NoNewAcks
  <2>3. History(T, W)'
    BY Zenon, <1>1, <2>1, <2>2, QuietStep
  <2> QED
    BY Zenon, <2>3
<1>5. CASE UNCHANGED <<termVars, logVars>> /\ becomeLeader(i)
  <2>1. status'[i] = "Leader" /\ Ballots' = Ballots /\ CurrentTerm' = CurrentTerm
    BY Zenon, <1>1, <1>2, <1>5 DEF becomeLeader, Ballots, rvVars, termVars
  <2>2. /\ IsMajority(votes'[i]) /\ votes'[i] \in SUBSET Servers
        /\ \A v \in votes'[i] : Ballot(v, i, CurrentTerm'[i]) \in Ballots'
    <3>1. votes'[i] \in SUBSET Servers
      BY Zenon, <1>1 DEF TypeOK, RoleType
    <3>2. VotesCounted'
      BY Zenon DEF ElectionInv
    <3> QED
      BY Zenon, <1>1, <2>1, <3>1, <3>2 DEF VotesCounted, Ballot, IsMajority
  <2>3. Elected(i, CurrentTerm[i])
    BY Zenon, <2>1, <2>2 DEF Elected
  <2> QED
    BY Zenon, <1>1, <1>2, <1>5, <2>3, BecomeLeaderSafe
<1> QED
  BY Zenon, <1>3, <1>4, <1>5 DEF handleRequestVoteReply

\* Start: the leader's log, and with it the history, grows by an entry that
\* nobody else can have acknowledged.
LEMMA StartSafe ==
    ASSUME SetFacts,
           NEW T \in LeaderLogs, NEW W \in Leaderships, History(T, W), ElectionInv, TypeOK',
           TermsRise, NEW i \in Servers, NEW command \in Commands, Start(i, command)
    PROVE  \E T2 \in LeaderLogs, W2 \in Leaderships : History(T2, W2)'
<1>1. /\ TypeOK /\ Log \in [Servers -> Seq(Entries) \ {<<>>}]
      /\ CurrentTerm \in [Servers -> Nat]
  BY Zenon DEF ElectionInv, TypeOK, TermType, LogType
<1>2. PICK t \in Nat, L \in Seq(Entries) : t = CurrentTerm[i] /\ L = Log[i]
  BY Zenon, <1>1
<1>3. PICK e, N : e = [Term |-> t, Command |-> command] /\ N = Append(L, e)
  BY Zenon
<1>4. e.Term = t /\ e \in Entries
  <2>1. t \in Int /\ command \in Commands \cup {NoCommand}
    BY <1>2
  <2> QED
    BY Zenon, <1>3, <2>1 DEF Entries
<1>5. PICK n \in Nat : n = Len(L) + 1
  BY <1>2
<1>6. /\ n >= 2 /\ Len(L) = n - 1 /\ Len(N) = n /\ N \in Seq(Entries) \ {<<>>} /\ N[n] = e
      /\ \A q \in 1 .. n - 1 : N[q] = L[q]
  <2>1. Len(L) >= 1 /\ Len(L) \in Nat
    BY Zenon, <1>1, <1>2, LogFacts
  <2>2. /\ N \in Seq(Entries) /\ Len(N) = Len(L) + 1 /\ N[Len(L) + 1] = e
        /\ \A q \in 1 .. Len(L) : N[q] = L[q]
    <3>1. /\ Append(L, e) \in Seq(Entries) /\ Len(Append(L, e)) = Len(L) + 1
          /\ Append(L, e)[Len(L) + 1] = e
          /\ \A q \in 1 .. Len(L) : Append(L, e)[q] = L[q]
      BY <1>4
    <3> QED
      BY Zenon, <1>3, <3>1
  <2>3. n >= 2 /\ Len(L) = n - 1
    BY <1>5, <2>1
  <2>4. N # <<>>
    BY <1>5, <2>1, <2>2
  <2> QED
    BY Zenon, <1>5, <2>2, <2>3, <2>4
<1>7. /\ CurrentTerm' = CurrentTerm /\ Log' = [Log EXCEPT ![i] = N] /\ snapshot' = snapshot
      /\ rvArgs' = rvArgs /\ rvReplies' = rvReplies /\ aeArgs' = aeArgs /\ aeReplies' = aeReplies
      /\ commitIndex' = commitIndex /\ applyVars' = applyVars /\ Ballots' = Ballots
      /\ status' = status /\ matchIndex' = matchIndex /\ status[i] = "Leader"
  BY Zenon, <1>1, <1>2, <1>3 DEF termVars, leaderVars, rvVars, aeVars, Start, Ballots
<1>8. Log'[i] = N /\ \A k \in Servers : k # i => Log'[k] = Log[k]
  BY Zenon, <1>1, <1>7
<1>9. NoNewAcks /\ aeReplies \subseteq aeReplies'
  BY Zenon, <1>7 DEF NoNewAcks
<1>10. W[t] = i /\ T[t] = L /\ i # Nobody
  BY Zenon, <1>2, <1>7, ServersAssumption DEF History, LeadersRecorded
<1>11. PICK T2 : T2 = [T EXCEPT ![t] = N]
  BY Zenon
<1>12. T2 \in LeaderLogs /\ T2[t] = N /\ \A u \in Nat : u # t => T2[u] = T[u]
  BY Zenon, <1>6, <1>11 DEF LeaderLogs
<1>13. Agree(L, N, n - 1) /\ Agree(N, L, n - 1) /\ Agree(N, N, n)
  <2>1. Agree(L, N, n - 1)
    BY <1>5, <1>6 DEF Agree
  <2>2. Agree(N, N, n)
    BY Zenon, <1>6, AgreeSelf
  <2> QED
    BY Zenon, <2>1, <2>2, AgreeSym
<1>14. Extends(T, W, T2, W)
  <2>1. \A u \in Nat : Agree(T[u], T2[u], Len(T[u]))
    BY Zenon, <1>6, <1>10, <1>12, <1>13, LeaderLogFacts, AgreeSelf
  <2> QED
    BY Zenon, <2>1 DEF Extends

<1>15. ASSUME NEW a \in Nat, NEW p \in Nat, Choosable(a, p, T2, W)'
       PROVE  Choosable(a, p, T, W) \/ (a = t /\ p = n)
  <2>1. Own(a, p, T2, W)
    BY Zenon, <1>15 DEF Choosable, Own, Has
  <2>2. Own(a, p, T, W) \/ (a = t /\ p = n)
    <3>1. CASE a # t
      BY Zenon, <1>12, <2>1, <3>1 DEF Own
    <3>2. CASE a = t /\ p # n
      <4>1. Has(N, p, t)
        BY Zenon, <1>12, <2>1, <3>2 DEF Own
      <4>2. p <= n - 1 /\ p \in Int /\ n - 1 \in Int
        BY <1>6, <3>2, <4>1 DEF Has
      <4>3. Has(L, p, t)
        BY Zenon, <1>6, <1>13, <4>1, <4>2, AgreeHas
      <4> QED
        BY Zenon, <1>10, <2>1, <3>2, <4>3 DEF Own
    <3> QED
      BY Zenon, <3>1, <3>2
  <2>3. \A j \in Servers : Acked(j, a, p, W)' => Acked(j, a, p, W)
    BY Zenon, <1>9, AckedBefore
  <2> QED
    BY Zenon, <1>1, <1>15, <2>2, <2>3, ChoosableBefore
<1>16. ASSUME NEW j, Acked(j, t, n, W)' PROVE j = i
  <2>1. Acked(j, t, n, W)
    BY Zenon, <1>9, <1>16, AckedBefore
  <2>2. ASSUME NEW r \in aeReplies, r.Success, r.Term = t, n <= r.Last + 1 PROVE FALSE
    <3>1. r.Last + 1 <= Len(T[r.Term])
      BY Zenon, <2>2 DEF History, RepliesAnswer
    <3>2. r.Last \in Int
      BY Zenon, <1>1, AppendEntriesRepliesFacts
    <3> QED
      BY <1>6, <1>10, <2>2, <3>1, <3>2
  <2> QED
    BY Zenon, <1>10, <2>1, <2>2 DEF Acked
<1>17. \A u \in Nat, p \in Nat : \A a : Has(T[u], p, a) => Has(T2[u], p, a)
  <2>1. ASSUME NEW p \in Nat, NEW a, Has(L, p, a) PROVE Has(N, p, a)
    <3>1. p <= n - 1 /\ p \in Int /\ n - 1 \in Int
      BY <1>6, <2>1 DEF Has
    <3> QED
      BY Zenon, <1>6, <1>13, <2>1, <3>1, AgreeHas
  <2> QED
    BY Zenon, <1>10, <1>12, <2>1
<1>18. \A k \in Servers, p \in Nat : \A a : Has(Log[k], p, a) => Has(Log'[k], p, a)
  BY Zenon, <1>2, <1>8, <1>10, <1>12, <1>17
<1>19. LogsBacked(T2, W)'
  <2>1. Backed(L, T2, W) /\ NotAfter(L, t)
    BY Zenon, <1>2, <1>12, <1>14, BackedExtended DEF History, LogsBacked
  <2>2. Backed(N, T2, W)
    <3>1. N[1] = Dummy(0)
      <4>1. 1 \in 1 .. n - 1
        BY <1>6
      <4> QED
        BY Zenon, <1>6, <2>1, <4>1 DEF Backed
    <3>2. ASSUME NEW p \in 2 .. Len(N)
          PROVE  N[p].Term \in Nat /\ W[N[p].Term] # Nobody /\ Agree(N, T2[N[p].Term], p)
      <4>1. CASE p = n
        BY Zenon, <1>4, <1>6, <1>10, <1>12, <1>13, <4>1
      <4>2. CASE p # n
        <5>1. p \in 1 .. n - 1 /\ p \in 2 .. Len(L) /\ p \in Int /\ n - 1 \in Int /\ p <= n - 1
          BY <1>6, <4>2
        <5>2. N[p] = L[p] /\ Agree(N, L, p)
          BY Zenon, <1>6, <1>13, <5>1, AgreeLess
        <5>3. L[p].Term \in Nat /\ W[L[p].Term] # Nobody /\ Agree(L, T2[L[p].Term], p)
          BY Zenon, <2>1, <5>1 DEF Backed
        <5> QED
          BY Zenon, <5>2, <5>3, AgreeSame
      <4> QED
        BY Zenon, <4>1, <4>2
    <3> QED
      BY Zenon, <3>1, <3>2 DEF Backed
  <2>3. NotAfter(N, t)
    <3> SUFFICES ASSUME NEW p \in 2 .. Len(N) PROVE N[p].Term <= t
      BY Zenon DEF NotAfter
    <3>1. CASE p = n
      BY <1>4, <1>6, <3>1
    <3>2. CASE p # n
      <4>1. p \in 1 .. n - 1 /\ p \in 2 .. Len(L)
        BY <1>6, <3>2
      <4> QED
        BY Zenon, <1>6, <2>1, <4>1 DEF NotAfter
    <3> QED
      BY Zenon, <3>1, <3>2
  <2>4. \A u \in Nat : Backed(T2[u], T2, W) /\ NotAfter(T2[u], u)
    BY Zenon, <1>12, <1>14, <2>2, <2>3, BackedExtended DEF History, LogsBacked
  <2>5. ASSUME NEW k \in Servers
        PROVE  (Backed(Log[k], T2, W) /\ NotAfter(Log[k], CurrentTerm[k]))'
    <3>1. CASE k = i
      BY Zenon, <1>2, <1>7, <1>8, <2>2, <2>3, <3>1
    <3>2. CASE k # i
      <4>1. Backed(Log[k], T2, W) /\ NotAfter(Log[k], CurrentTerm[k])
        BY Zenon, <1>12, <1>14, BackedExtended DEF History, LogsBacked
      <4> QED
        BY Zenon, <1>7, <1>8, <3>2, <4>1
    <3> QED
      BY Zenon, <3>1, <3>2
  <2> QED
    BY Zenon, <2>4, <2>5 DEF LogsBacked
<1>20. LeadersRecorded(T2, W)'
  <2>1. LeadersRecorded(T, W)
    BY Zenon DEF History
  <2>2. ASSUME NEW k \in Servers, status[k] = "Leader" PROVE T2[CurrentTerm[k]] = Log'[k]
    <3>1. CASE k = i
      BY Zenon, <1>2, <1>8, <1>12, <3>1
    <3>2. CASE k # i
      <4>1. CurrentTerm[k] # t /\ T[CurrentTerm[k]] = Log[k]
        BY Zenon, <1>10, <2>1, <2>2, <3>2 DEF LeadersRecorded
      <4> QED
        BY Zenon, <1>1, <1>8, <1>12, <3>2, <4>1
    <3> QED
      BY Zenon, <3>1, <3>2
  <2>3. \A c, u : Elected(c, u) => Elected(c, u)'
    BY Zenon, <1>7, ElectedKept
  <2> QED
    BY Zenon, <1>7, <2>1, <2>2, <2>3 DEF LeadersRecorded
<1>21. CallsCarryLogs(T2, W)' /\ RepliesAnswer(T2, W)'
  BY Zenon, <1>1, <1>7, <1>9, <1>12, <1>14, CallsExtended, RepliesExtended DEF History
<1>22. CandidatesAsk'
  <2>1. \A k \in Servers : status'[k] = "Candidate" => status[k] = "Candidate" /\ Log'[k] = Log[k]
    BY Zenon, <1>7, <1>8
  <2> QED
    BY Zenon, <1>7, <2>1, RequestFacts DEF CandidatesAsk, History

<1>23. LeadersHaveIt(T2, W)'
  <2> SUFFICES ASSUME NEW a \in Nat, NEW u \in Nat, NEW p \in Nat, a < u, W[u] # Nobody,
                      Choosable(a, p, T2, W)'
               PROVE  Has(T2[u], p, a)
    BY Zenon DEF LeadersHaveIt
  <2>1. CASE Choosable(a, p, T, W)
    BY Zenon, <1>17, <2>1 DEF LeadersHaveIt, History
  <2>2. CASE a = t /\ p = n
    <3>1. PICK V \in SUBSET Servers : IsMajority(V) /\ \A v \in V : Ballot(v, W[u], u) \in Ballots
      BY Zenon DEF History, LeadersRecorded, Elected
    <3>2. PICK Q \in SUBSET Servers :
            IsMajority(Q) /\ \A j \in Q : Acked(j, a, p, W)' \/ CurrentTerm'[j] <= a
      BY Zenon DEF Choosable, IsMajority
    <3>3. PICK v : v \in V /\ v \in Q
      BY Zenon, <3>1, <3>2 DEF SetFacts
    <3>4. u <= CurrentTerm[v] /\ CurrentTerm[v] \in Nat
      <4>1. Ballot(v, W[u], u) \in Ballots /\ v \in Servers
        BY Zenon, <3>1, <3>3
      <4> QED
        BY Zenon, <1>1, <4>1 DEF ElectionInv, VotesKept, Ballot
    <3>5. ~(CurrentTerm'[v] <= a)
      BY <1>7, <3>4
    <3>6. v = i
      BY Zenon, <1>16, <2>2, <3>2, <3>3, <3>5
    <3> QED
      BY <1>2, <2>2, <3>4, <3>6
  <2> QED
    BY Zenon, <1>15, <2>1, <2>2
<1>24. PeersKeepIt(T2, W)'
  <2> SUFFICES ASSUME NEW j \in Servers, NEW a \in Nat, NEW p \in Nat, Acked(j, a, p, W)',
                      Choosable(a, p, T2, W)'
               PROVE  Has(Log'[j], p, a)
    BY Zenon DEF PeersKeepIt, Has
  <2>1. CASE Choosable(a, p, T, W)
    BY Zenon, <1>9, <1>18, <2>1, AckedBefore DEF PeersKeepIt, History
  <2>2. CASE a = t /\ p = n
    <3>1. j = i
      BY Zenon, <1>16, <2>2
    <3>2. n \in 2 .. Len(N)
      BY <1>6
    <3> QED
      BY Zenon, <1>4, <1>6, <1>8, <2>2, <3>1, <3>2 DEF Has
  <2> QED
    BY Zenon, <1>15, <2>1, <2>2
<1>25. VotersSeeIt(T2, W)'
  <2> SUFFICES ASSUME NEW r \in rvReplies, NEW m \in rvArgs, NEW a \in Nat, NEW p \in Nat,
                      r.VoteGranted, m.From = r.To, m.Term = r.Term, a < r.Term,
                      Acked(r.From, a, p, W)', Choosable(a, p, T2, W)'
               PROVE  AtLeast(m, a, p)
    BY Zenon, <1>7 DEF VotersSeeIt
  <2>1. CASE Choosable(a, p, T, W)
    BY Zenon, <1>9, <2>1, AckedBefore DEF VotersSeeIt, History
  <2>2. CASE a = t /\ p = n
    <3>1. r.From = i
      BY Zenon, <1>16, <2>2
    <3>2. r.Term \in Nat /\ r.Term <= t
      BY Zenon, <1>2, <3>1, VoteFacts
    <3> QED
      BY <2>2, <3>2
  <2> QED
    BY Zenon, <1>15, <2>1, <2>2
<1>26. CommitsSettled(T2, W)'
  <2>1. ASSUME NEW k \in Servers, commitIndex[k] # 0
        PROVE  Agree(Log'[k], Log[k], commitIndex[k] + 1)
    <3>1. Settled(Log[k], commitIndex[k], CurrentTerm[k], T, W)
      BY Zenon DEF History, CommitsSettled
    <3>2. Log[k] \in Seq(Entries) /\ Len(Log[k]) \in Nat
      BY Zenon, <1>1, LogFacts
    <3>3. commitIndex[k] + 1 <= Len(Log[k]) /\ commitIndex[k] + 1 \in Int
      BY <2>1, <3>1 DEF Settled, Agree
    <3>4. CASE k = i
      <4>1. commitIndex[k] + 1 <= n - 1 /\ n - 1 \in Int
        BY <1>2, <1>6, <3>3, <3>4
      <4>2. PICK q \in Int : q = commitIndex[k] + 1
        BY Zenon, <3>3
      <4>3. Agree(N, L, q)
        BY Zenon, <1>6, <1>13, <4>1, <4>2, AgreeLess
      <4> QED
        BY Zenon, <1>2, <1>8, <3>4, <4>2, <4>3
    <3>5. CASE k # i
      BY Zenon, <1>8, <3>2, <3>3, <3>5, AgreeSelf
    <3> QED
      BY Zenon, <3>4, <3>5
  <2> QED
    BY Zenon, <1>1, <1>7, <1>9, <1>12, <1>14, <2>1, CommitsExtended DEF History
<1>27. MatchesAcked(W)'
  BY Zenon, <1>7, <1>9, MatchesFrame DEF History
<1>28. AppliedDecided(T2, W)'
  BY Zenon, <1>1, <1>7, <1>9, <1>12, <1>14, AppliedExtended DEF History
<1> QED
  BY Zenon, <1>12, <1>19, <1>20, <1>21, <1>22, <1>23, <1>24, <1>25, <1>26, <1>27, <1>28 DEF History

\* What a heartbeat worker sends is a stretch of the leader's log.
LEMMA CarriesLog ==
    ASSUME NEW L \in Seq(Entries), NEW next \in Int, next >= 1, next <= Len(L),
           NEW commit \in Int, commit + 1 <= Len(L), NEW m,
           m.PrevLogIndex = next - 1, m.PrevLogTerm = getPrevLogTerm(L, 0, NoTerm, next - 1),
           m.Entries = SubSeq(L, next + 1, Len(L)), m.LeaderCommit = commit
    PROVE  Carries(m, L)
<1>1. PICK n \in Nat : n = Len(L)
  BY Zenon, SequenceFacts
<1>2. PICK E : E = SubSeq(L, next + 1, n)
  BY Zenon
<1>3. Len(E) = n - next /\ \A k \in 1 .. Len(E) : E[k] = L[next + k]
  BY <1>1, <1>2
<1>4. m.Entries = E /\ n - next \in Nat
  BY <1>1, <1>2
<1>5. (next - 1) + (n - next) + 1 <= n /\ commit <= (next - 1) + (n - next)
  BY <1>1
<1>6. ASSUME NEW k PROVE next - 1 + 1 + k = next + k
  BY <1>1
<1>7. getPrevLogTerm(L, 0, NoTerm, next - 1)
        = IF next - 1 = 0 THEN NoTerm ELSE L[next - 1 + 1].Term
  BY <1>1 DEF getPrevLogTerm, termAt, termAtPhysical, toPhysicalIndex
<1>8. \A k \in 1 .. Len(E) : E[k] = L[next - 1 + 1 + k]
  BY <1>3, <1>4
<1> QED
  BY Zenon, <1>1, <1>3, <1>4, <1>5, <1>7, <1>8 DEF Carries

\* heartbeatWorker.
LEMMA HeartbeatWorkerSafe ==
    ASSUME NEW T \in LeaderLogs, NEW W \in Leaderships, History(T, W), ElectionInv, TypeOK',
           TermsRise, NEW i \in Servers, NEW p \in Peers(i), heartbeatWorker(i, p)
    PROVE  History(T, W)'
<1>1. /\ TypeOK /\ Log \in [Servers -> Seq(Entries) \ {<<>>}]
      /\ CurrentTerm \in [Servers -> Nat] /\ commitIndex \in [Servers -> Int]
      /\ nextIndex \in [Servers -> [Servers -> Int]] /\ p \in Servers /\ p # i
  BY Zenon DEF ElectionInv, TypeOK, TermType, LogType, RoleType, LeaderType, Peers
<1>2. PICK t \in Nat, L \in Seq(Entries), next \in Int, commit \in Int :
        t = CurrentTerm[i] /\ L = Log[i] /\ next = nextIndex[i][p] /\ commit = commitIndex[i]
  BY Zenon, <1>1
<1>3. /\ CurrentTerm' = CurrentTerm /\ Log' = Log /\ snapshot' = snapshot
      /\ rvVars' = rvVars /\ aeReplies' = aeReplies
      /\ commitIndex' = commitIndex /\ applyVars' = applyVars
      /\ status' = status /\ matchIndex' = matchIndex /\ status[i] = "Leader"
  BY Zenon DEF heartbeatWorker, termVars, logVars, leaderVars
<1>4. NoNewAcks /\ RolesKept /\ Extends(T, W, T, W) /\ aeReplies \subseteq aeReplies'
  BY Zenon, <1>3, ExtendsSelf DEF NoNewAcks, RolesKept
<1>5. W[t] = i /\ T[t] = L
  BY Zenon, <1>2, <1>3 DEF History, LeadersRecorded
<1>6. lastIncludedIndex[i] = 0 /\ lastIncludedTerm[i] = NoTerm /\ next >= 1
  BY Zenon, <1>1, <1>2 DEF ElectionInv, NoSnapshots
<1>7. toPhysicalIndex(0, next) = next
  BY DEF toPhysicalIndex
<1>8. next \in 0 .. Len(L)
  BY Zenon, <1>2, <1>6, <1>7 DEF heartbeatWorker
<1>9. PICK m : /\ m = [Term |-> t, From |-> i, To |-> p, PrevLogIndex |-> next - 1,
                       PrevLogTerm |-> getPrevLogTerm(L, 0, NoTerm, next - 1),
                       Entries |-> SubSeq(L, next + 1, Len(L)), LeaderCommit |-> commit]
               /\ aeArgs' = aeArgs \cup {m}
  BY Zenon, <1>2, <1>6, <1>7 DEF heartbeatWorker
<1>10. /\ m.Term = t /\ m.From = i /\ m.To = p
       /\ m.PrevLogIndex = next - 1 /\ m.PrevLogTerm = getPrevLogTerm(L, 0, NoTerm, next - 1)
       /\ m.Entries = SubSeq(L, next + 1, Len(L)) /\ m.LeaderCommit = commit
  BY Zenon, <1>9
<1>11. Settled(L, commit, t, T, W)
  BY Zenon, <1>2 DEF History, CommitsSettled
<1>12. Len(L) \in Nat /\ Len(L) >= 1
  BY Zenon, <1>1, <1>2, LogFacts
<1>13. commit + 1 <= Len(L)
  BY <1>11, <1>12 DEF Settled, Agree
<1>14. next <= Len(L)
  BY <1>8, <1>12
<1>15. Carries(m, L)
  BY Zenon, <1>6, <1>10, <1>13, <1>14, CarriesLog
<1>16. /\ LogsBacked(T, W)' /\ LeadersRecorded(T, W)'
       /\ RepliesAnswer(T, W)' /\ CandidatesAsk'
       /\ LeadersHaveIt(T, W)' /\ PeersKeepIt(T, W)' /\ VotersSeeIt(T, W)'
  BY Zenon, <1>3, <1>4, QuietHistory
<1>17. CallsCarryLogs(T, W)'
  <2>1. \A a \in aeArgs : W[a.Term] = a.From /\ a.To # a.From /\ Carries(a, T[a.Term])
    BY Zenon DEF History, CallsCarryLogs
  <2>2. W[m.Term] = m.From /\ m.To # m.From /\ Carries(m, T[m.Term])
    BY Zenon, <1>1, <1>5, <1>10, <1>15
  <2> QED
    BY Zenon, <1>9, <2>1, <2>2 DEF CallsCarryLogs
<1>18. CommitsSettled(T, W)'
  <2>1. \A M, k, u : Settled(M, k, u, T, W) => Settled(M, k, u, T, W)'
    <3>1. \A u, q \in Nat : Chosen(u, q, T, W) => Chosen(u, q, T, W)'
      BY Zenon, <1>4, ChosenStays
    <3> QED
      BY Zenon, <3>1 DEF Settled
  <2>2. Settled(T[m.Term], m.LeaderCommit, m.Term, T, W)
    BY Zenon, <1>5, <1>10, <1>11
  <2>3. /\ \A k \in Servers : Settled(Log[k], commitIndex[k], CurrentTerm[k], T, W)
        /\ \A a \in aeArgs : Settled(T[a.Term], a.LeaderCommit, a.Term, T, W)
    BY Zenon DEF History, CommitsSettled
  <2>4. ASSUME NEW k \in Servers
        PROVE  Settled(Log[k], commitIndex[k], CurrentTerm[k], T, W)'
    BY Zenon, <1>3, <2>1, <2>3
  <2> QED
    BY Zenon, <1>9, <2>1, <2>2, <2>3, <2>4 DEF CommitsSettled
<1>19. MatchesAcked(W)'
  BY Zenon, <1>3, <1>4, MatchesFrame DEF History
<1>20. AppliedDecided(T, W)'
  BY Zenon, <1>1, <1>3, <1>4, AppliedExtended DEF History
<1> QED
  BY Zenon, <1>16, <1>17, <1>18, <1>19, <1>20 DEF History

\* N, made of log L, agrees with log M up to position n and wherever L did.
Merged(L, M, N, n) ==
    /\ Agree(N, M, n)
    /\ N = L \/ Agree(N, M, Len(N))
    /\ \A q \in Nat : Agree(L, M, q) => Agree(N, M, q)

\* What AppendEntries makes of a log that matches: it agrees with the log of
\* the call's leader as far as the call reaches and wherever it did before.
LEMMA AppendMatch ==
    ASSUME SetFacts,
           NEW T \in LeaderLogs, NEW W \in Leaderships, History(T, W), ElectionInv,
           NEW m \in aeArgs, NEW L, NEW M, L = Log[m.To], M = T[m.Term],
           matchPrevLog(L, 0, NoTerm, m.PrevLogIndex, m.PrevLogTerm),
           NEW N, N = AppendNew(L, 0, m.PrevLogIndex, m.Entries)
    PROVE  Merged(L, M, N, m.PrevLogIndex + Len(m.Entries) + 1)
<1>1. TypeOK /\ AppendEntriesType
  BY Zenon DEF ElectionInv, TypeOK
<1>2. /\ m.Term \in Nat /\ m.To \in Servers /\ m.PrevLogIndex \in Int /\ m.PrevLogTerm \in Int
      /\ m.Entries \in Seq(Entries) /\ Len(m.Entries) \in Nat
  BY Zenon, <1>1, CallFacts
<1>3. m.PrevLogIndex >= 0
  BY Zenon DEF ElectionInv, NoSnapshots
<1>4. PICK prev \in Nat, e \in Seq(Entries), x \in Int :
         prev = m.PrevLogIndex /\ e = m.Entries /\ x = m.PrevLogTerm
  <2>1. m.PrevLogIndex \in Nat
    BY <1>2, <1>3
  <2> QED
    BY Zenon, <1>2, <2>1
<1>5. /\ L \in Seq(Entries) \ {<<>>} /\ Len(L) \in Nat /\ Len(L) >= 1
      /\ M \in Seq(Entries) /\ Len(M) \in Nat /\ Len(M) >= 1
  BY Zenon, <1>1, <1>2, LogFacts, LeaderLogFacts
<1>6. Backed(L, T, W) /\ Backed(M, T, W)
  BY Zenon, <1>2 DEF History, LogsBacked
<1>7. /\ prev + Len(e) + 1 <= Len(M) /\ \A k \in 1 .. Len(e) : e[k] = M[prev + 1 + k]
      /\ x = IF prev = 0 THEN NoTerm ELSE M[prev + 1].Term
  BY Zenon, <1>4 DEF History, CallsCarryLogs, Carries
<1>8. /\ prev <= Len(L) - 1
      /\ prev # 0 => L[prev + 1].Term = x
  <2>1. matchPrevLog(L, 0, NoTerm, prev, x)
    BY Zenon, <1>4
  <2> QED
    BY <1>5, <2>1 DEF matchPrevLog, lastLogIndex, termAt, termAtPhysical, toPhysicalIndex
<1>9. Agree(L, M, prev + 1)
  <2>1. CASE prev = 0
    <3>1. L[1] = M[1]
      BY Zenon, <1>6 DEF Backed
    <3> QED
      BY <1>5, <2>1, <3>1 DEF Agree
  <2>2. CASE prev # 0
    <3>1. prev + 1 \in 2 .. Len(L) /\ prev + 1 \in 2 .. Len(M)
      <4>1. Len(e) \in Nat
        BY Zenon, <1>4, SequenceFacts
      <4> QED
        BY <1>5, <1>7, <1>8, <2>2, <4>1
    <3>2. Has(L, prev + 1, x) /\ Has(M, prev + 1, x)
      BY Zenon, <1>7, <1>8, <2>2, <3>1 DEF Has
    <3> QED
      BY Zenon, <1>6, <3>2, BackedMatch
  <2> QED
    BY Zenon, <2>1, <2>2
<1>10. ASSUME NEW q \in 2 .. Len(L), q <= Len(M), L[q].Term = M[q].Term
       PROVE  Agree(L, M, q)
  <2>1. q \in 2 .. Len(M)
    BY <1>5, <1>10
  <2>2. Has(L, q, L[q].Term) /\ Has(M, q, L[q].Term)
    BY Zenon, <1>10, <2>1 DEF Has
  <2> QED
    BY Zenon, <1>6, <2>2, BackedMatch
<1>11. /\ Agree(N, M, prev + Len(e) + 1)
       /\ N = L \/ Agree(N, M, Len(N))
       /\ \A q \in Nat : Agree(L, M, q) => Agree(N, M, q)
  <2>1. N = AppendNew(L, 0, prev, e)
    BY Zenon, <1>4
  <2> QED
    BY Zenon, <1>5, <1>7, <1>9, <1>10, <2>1, AppendNewFacts
<1> QED
  BY Zenon, <1>4, <1>11 DEF Merged

\* What may be chosen is in the log of every later leader, so AppendEntries
\* keeps it.
LEMMA KeptByAppend ==
    ASSUME NEW T \in LeaderLogs, NEW W \in Leaderships, History(T, W), ElectionInv,
           NEW t \in Nat, W[t] # Nobody, NEW L \in Seq(Entries), NEW N \in Seq(Entries),
           Backed(L, T, W), NotAfter(L, t),
           \A q \in Nat : Agree(L, T[t], q) => Agree(N, T[t], q),
           NEW a \in Nat, NEW p \in Nat, Choosable(a, p, T, W), Has(L, p, a)
    PROVE  Has(N, p, a)
<1>1. a <= t
  BY Zenon DEF NotAfter, Has
<1>2. Has(T[t], p, a)
  <2>1. CASE a = t
    BY Zenon, <2>1 DEF Choosable, Own
  <2>2. CASE a # t
    <3>1. a < t
      BY <1>1, <2>2
    <3> QED
      BY Zenon, <3>1 DEF History, LeadersHaveIt
  <2> QED
    BY Zenon, <2>1, <2>2
<1>3. Backed(T[t], T, W) /\ T[t] \in Seq(Entries)
  BY Zenon, LeaderLogFacts DEF History, LogsBacked
<1>4. Agree(N, T[t], p)
  BY Zenon, <1>2, <1>3, BackedMatch
<1>5. Agree(T[t], N, p) /\ p \in Int /\ p <= p
  <2>1. p \in Int /\ p <= p
    OBVIOUS
  <2> QED
    BY Zenon, <1>4, <2>1, AgreeSym
<1> QED
  BY Zenon, <1>2, <1>3, <1>5, AgreeHas

\* What is settled is in the log of every later leader, so AppendEntries
\* keeps it.
LEMMA SettledKept ==
    ASSUME NEW T \in LeaderLogs, NEW W \in Leaderships, History(T, W), ElectionInv,
           NEW t \in Nat, W[t] # Nobody, NEW L \in Seq(Entries), NEW k, NEW v \in Nat, v <= t,
           k # 0, Settled(L, k, v, T, W)
    PROVE  k \in Nat /\ k + 1 \in Nat /\ Agree(L, T[t], k + 1)
<1>1. k \in Nat /\ k + 1 \in Nat
  <2>1. k \in Nat
    BY Zenon DEF Settled
  <2> QED
    BY <2>1
<1>2. PICK u \in Nat, p \in Nat :
        u <= v /\ k < p /\ Chosen(u, p, T, W) /\ Agree(L, T[u], k + 1)
  BY Zenon DEF Settled
<1>3. CASE u = t
  BY Zenon, <1>1, <1>2, <1>3
<1>4. CASE u # t
  <2>1. u < t /\ k + 1 <= p /\ p \in Int /\ k + 1 \in Int
    BY <1>1, <1>2, <1>4
  <2>2. Choosable(u, p, T, W)
    BY Zenon, <1>2 DEF Chosen, Choosable
  <2>3. Has(T[t], p, u)
    BY Zenon, <2>1, <2>2 DEF History, LeadersHaveIt
  <2>4. Agree(T[t], T[u], p)
    BY Zenon, <2>3, BackedEntry DEF History, LogsBacked
  <2>5. Agree(T[t], T[u], k + 1)
    BY Zenon, <2>1, <2>4, AgreeLess, LeaderLogFacts
  <2>6. Agree(T[u], T[t], k + 1)
    BY Zenon, <2>5, AgreeSym
  <2> QED
    BY Zenon, <1>1, <1>2, <2>6, AgreeSame
<1> QED
  BY Zenon, <1>3, <1>4

\* AppendEntries of a current or newer term.
LEMMA AppendEntriesSafe ==
    ASSUME SetFacts,
           NEW T \in LeaderLogs, NEW W \in Leaderships, History(T, W), ElectionInv, TypeOK',
           TermsRise, NEW m \in aeArgs, AppendEntries(m.To, m)
    PROVE  History(T, W)'
<1> DEFINE j == m.To
<1>1. /\ TypeOK /\ AppendEntriesType /\ Extends(T, W, T, W)
      /\ Log \in [Servers -> Seq(Entries) \ {<<>>}] /\ Log' \in [Servers -> Seq(Entries) \ {<<>>}]
      /\ CurrentTerm \in [Servers -> Nat] /\ commitIndex \in [Servers -> Int]
      /\ status \in [Servers -> {"Leader", "Candidate", "Follower"}]
  BY Zenon, ExtendsSelf DEF ElectionInv, TypeOK, TermType, LogType, RoleType
<1>2. /\ m.Term \in Nat /\ m.To \in Servers /\ m.From \in Servers /\ m.PrevLogIndex \in Int
      /\ m.LeaderCommit \in Int /\ m.Entries \in Seq(Entries) /\ Len(m.Entries) \in Nat
  BY Zenon, <1>1, CallFacts
<1>3. PICK t \in Nat, n \in Int : t = m.Term /\ n = m.PrevLogIndex + Len(m.Entries) + 1
  <2>1. m.PrevLogIndex + Len(m.Entries) + 1 \in Int
    BY <1>2
  <2> QED
    BY Zenon, <1>2, <2>1
<1>4. /\ W[t] = m.From /\ m.From # j /\ W[t] # Nobody /\ n <= Len(T[t])
      /\ m.LeaderCommit <= m.PrevLogIndex + Len(m.Entries)
  BY Zenon, <1>2, <1>3, ServersAssumption DEF History, CallsCarryLogs, Carries
<1>5. PICK match : match = matchPrevLog(Log[j], lastIncludedIndex[j], lastIncludedTerm[j],
                                        m.PrevLogIndex, m.PrevLogTerm)
  BY Zenon
<1>6. PICK reply : /\ aeReplies' = aeReplies \cup {reply}
                   /\ reply.Term = t /\ reply.From = j /\ reply.To = m.From
                   /\ reply.Last = m.PrevLogIndex + Len(m.Entries) /\ reply.Success = match
  <2>1. PICK c : aeReplies' = aeReplies \cup {AppendEntriesReply(j, m, m.Term, match, c)}
    BY Zenon, <1>5 DEF AppendEntries
  <2>2. PICK reply : reply = AppendEntriesReply(j, m, m.Term, match, c)
    BY Zenon
  <2>3. /\ reply.Term = t /\ reply.From = j /\ reply.To = m.From
        /\ reply.Last = m.PrevLogIndex + Len(m.Entries) /\ reply.Success = match
    BY Zenon, <1>3, <2>2 DEF AppendEntriesReply
  <2> QED
    BY Zenon, <2>1, <2>2, <2>3
<1>7. /\ CurrentTerm' = [CurrentTerm EXCEPT ![j] = t]
      /\ status' = [status EXCEPT ![j] = "Follower"] /\ t >= CurrentTerm[j]
  <2>1. m.Term >= CurrentTerm[j] /\ status' = [status EXCEPT ![j] = "Follower"]
    BY Zenon DEF AppendEntries, BecomeFollower
  <2>2. CASE m.Term > CurrentTerm[j]
    BY Zenon, <1>3, <2>1, <2>2 DEF AppendEntries, BecomeFollower
  <2>3. CASE ~(m.Term > CurrentTerm[j])
    <3>1. CurrentTerm' = CurrentTerm
      BY Zenon, <2>3 DEF AppendEntries, termVars
    <3>2. m.Term = CurrentTerm[j]
      BY <1>1, <1>2, <2>1, <2>3
    <3> QED
      BY Zenon, <1>1, <1>3, <2>1, <3>1, <3>2
  <2> QED
    BY Zenon, <2>2, <2>3
<1>8. /\ snapshot' = snapshot /\ rvVars' = rvVars /\ aeArgs' = aeArgs /\ Ballots' = Ballots
      /\ applyVars' = applyVars /\ matchIndex' = matchIndex /\ aeReplies \subseteq aeReplies'
  BY Zenon, <1>6 DEF AppendEntries, leaderVars, Ballots, rvVars
<1>9. /\ CurrentTerm'[j] = t /\ status'[j] = "Follower"
      /\ \A k \in Servers : k # j => CurrentTerm'[k] = CurrentTerm[k] /\ status'[k] = status[k]
  BY Zenon, <1>1, <1>2, <1>7
<1>10. CASE ~match
  <2>1. Log' = Log /\ commitIndex' = commitIndex
    BY Zenon, <1>5, <1>10 DEF AppendEntries
  <2>2. NoNewAcks
    BY Zenon, <1>6, <1>10 DEF NoNewAcks
  <2>3. RolesKept
    BY Zenon, <1>7, <1>9, <2>1 DEF RolesKept
  <2> QED
    BY Zenon, <1>8, <2>1, <2>2, <2>3, QuietStep

<1>11. CASE match
  <2>1. PICK L \in Seq(Entries) \ {<<>>}, M \in Seq(Entries), N \in Seq(Entries) \ {<<>>} :
          L = Log[j] /\ M = T[t] /\ N = Log'[j]
    BY Zenon, <1>1, <1>2, LeaderLogFacts
  <2>2. lastIncludedIndex[j] = 0 /\ lastIncludedTerm[j] = NoTerm
    BY Zenon, <1>2 DEF ElectionInv, NoSnapshots
  <2>3. /\ Log' = [Log EXCEPT ![j] = AppendNew(Log[j], 0, m.PrevLogIndex, m.Entries)]
        /\ commitIndex' = [commitIndex EXCEPT ![j] =
              FollowerCommitIndex(j, m.LeaderCommit, m.PrevLogIndex + Len(m.Entries))]
    BY Zenon, <1>2, <1>5, <1>11, <2>2 DEF AppendEntries
  <2>4. N = AppendNew(L, 0, m.PrevLogIndex, m.Entries) /\ \A k \in Servers : k # j => Log'[k] = Log[k]
    BY Zenon, <1>1, <1>2, <2>1, <2>3
  <2>5. /\ Agree(N, M, n)
        /\ N = L \/ Agree(N, M, Len(N))
        /\ \A q \in Nat : Agree(L, M, q) => Agree(N, M, q)
    <3>1. matchPrevLog(L, 0, NoTerm, m.PrevLogIndex, m.PrevLogTerm)
      BY Zenon, <1>5, <1>11, <2>1, <2>2
    <3>2. M = T[m.Term]
      BY Zenon, <1>3, <2>1
    <3>4. L = Log[m.To]
      BY Zenon, <2>1
    <3>5. N = AppendNew(L, 0, m.PrevLogIndex, m.Entries)
      BY Zenon, <2>4
    <3>3. Merged(L, M, N, m.PrevLogIndex + Len(m.Entries) + 1)
      BY Zenon, <3>1, <3>2, <3>4, <3>5, AppendMatch
    <3> QED
      BY Zenon, <1>3, <3>3 DEF Merged
  <2>6. Backed(L, T, W) /\ Backed(M, T, W) /\ NotAfter(L, t) /\ NotAfter(M, t)
    <3>1. CurrentTerm[j] \in Nat /\ CurrentTerm[j] <= t
      BY <1>1, <1>2, <1>7
    <3>2. Backed(L, T, W) /\ Backed(M, T, W) /\ NotAfter(L, CurrentTerm[j]) /\ NotAfter(M, t)
      BY Zenon, <1>2, <2>1 DEF History, LogsBacked
    <3> QED
      BY Zenon, <3>1, <3>2, NotAfterMore
  <2>7. Backed(N, T, W) /\ NotAfter(N, t)
    BY Zenon, <2>5, <2>6, PrefixBacked
  <2>8. RolesKept
    BY Zenon, <1>7, <1>9, <2>4 DEF RolesKept
  <2>9. ASSUME NEW y, NEW b, NEW q, Acked(y, b, q, W)'
        PROVE  Acked(y, b, q, W) \/ (y = j /\ b = t /\ q <= n)
    <3>1. reply.Last + 1 = n
      BY Zenon, <1>3, <1>6
    <3> QED
      BY Zenon, <1>6, <2>9, <3>1 DEF Acked
  <2>10. ASSUME NEW a \in Nat, NEW p \in Nat, Choosable(a, p, T, W)'
         PROVE  Choosable(a, p, T, W)
    <3>1. Own(a, p, T, W)
      BY Zenon, <2>10 DEF Choosable, Own, Has
    <3>2. CurrentTerm[j] <= t
      BY <1>1, <1>2, <1>7
    <3>3. \A k \in Servers : Acked(k, a, p, W)' => Acked(k, a, p, W) \/ CurrentTerm[k] <= a
      BY Zenon, <2>9, <3>2
    <3> QED
      BY Zenon, <1>1, <2>10, <3>1, <3>3, ChoosableBefore
  <2>11. LogsBacked(T, W)'
    <3>1. \A u \in Nat : Backed(T[u], T, W) /\ NotAfter(T[u], u)
      BY Zenon DEF History, LogsBacked
    <3>2. ASSUME NEW k \in Servers
          PROVE  (Backed(Log[k], T, W) /\ NotAfter(Log[k], CurrentTerm[k]))'
      <4>1. CASE k = j
        BY Zenon, <1>9, <2>1, <2>7, <4>1
      <4>2. CASE k # j
        <5>1. Backed(Log[k], T, W) /\ NotAfter(Log[k], CurrentTerm[k])
          BY Zenon DEF History, LogsBacked
        <5> QED
          BY Zenon, <1>9, <2>4, <4>2, <5>1
      <4> QED
        BY Zenon, <4>1, <4>2
    <3> QED
      BY Zenon, <3>1, <3>2 DEF LogsBacked
  <2>12. LeadersRecorded(T, W)' /\ CandidatesAsk' /\ CallsCarryLogs(T, W)'
    BY Zenon, <1>1, <1>8, <2>8, LeadersFrame, CandidatesFrame, CallsExtended DEF History
  <2>13. RepliesAnswer(T, W)'
    <3>1. ASSUME NEW r \in aeReplies, r.Success
          PROVE  /\ W[r.Term] = r.To /\ r.From # r.To /\ r.Term <= CurrentTerm'[r.From]
                 /\ r.Last + 1 <= Len(T[r.Term])
      <4>1. /\ W[r.Term] = r.To /\ r.From # r.To /\ r.Term <= CurrentTerm[r.From]
            /\ r.Last + 1 <= Len(T[r.Term])
        BY Zenon, <3>1 DEF History, RepliesAnswer
      <4>2. r.Term \in Nat /\ r.From \in Servers
        BY Zenon, <1>1, AppendEntriesRepliesFacts
      <4>3. CurrentTerm[r.From] \in Nat /\ CurrentTerm'[r.From] \in Nat
        BY Zenon, <1>1, <4>2, TermFacts, TermFactsNext
      <4>4. CurrentTerm'[r.From] >= CurrentTerm[r.From]
        BY Zenon, <4>2 DEF TermsRise
      <4>5. r.Term <= CurrentTerm'[r.From]
        BY <4>1, <4>2, <4>3, <4>4
      <4> QED
        BY Zenon, <4>1, <4>5
    <3>2. /\ W[reply.Term] = reply.To /\ reply.From # reply.To
          /\ reply.Term <= CurrentTerm'[reply.From] /\ reply.Last + 1 <= Len(T[reply.Term])
      <4>1. t <= t
        OBVIOUS
      <4> QED
        BY Zenon, <1>3, <1>4, <1>6, <1>9, <4>1
    <3> QED
      BY Zenon, <1>6, <3>1, <3>2 DEF RepliesAnswer
  <2>14. LeadersHaveIt(T, W)'
    BY Zenon, <2>10 DEF LeadersHaveIt, History

  <2>15. PeersKeepIt(T, W)'
    <3> SUFFICES ASSUME NEW k \in Servers, NEW a \in Nat, NEW p \in Nat, Acked(k, a, p, W)',
                        Choosable(a, p, T, W)
                 PROVE  Has(Log'[k], p, a)
      BY Zenon, <2>10 DEF PeersKeepIt, Has
    <3>1. CASE Acked(k, a, p, W)
      <4>1. Has(Log[k], p, a)
        BY Zenon, <3>1 DEF History, PeersKeepIt
      <4>2. CASE k # j
        BY Zenon, <2>4, <4>1, <4>2
      <4>3. CASE k = j
        <5>1. \A q \in Nat : Agree(L, T[t], q) => Agree(N, T[t], q)
          BY Zenon, <2>1, <2>5
        <5>2. Has(N, p, a)
          BY Zenon, <1>4, <2>1, <2>6, <4>1, <4>3, <5>1, KeptByAppend
        <5> QED
          BY Zenon, <2>1, <4>3, <5>2
      <4> QED
        BY Zenon, <4>2, <4>3
    <3>2. CASE k = j /\ a = t /\ p <= n
      <4>1. Has(M, p, a)
        BY Zenon, <2>1, <3>2 DEF Choosable, Own
      <4>2. Agree(M, N, n) /\ p \in Int
        <5>1. p \in Int
          OBVIOUS
        <5> QED
          BY Zenon, <2>5, <5>1, AgreeSym
      <4>3. Has(N, p, a)
        BY Zenon, <1>3, <3>2, <4>1, <4>2, AgreeHas
      <4> QED
        BY Zenon, <2>1, <3>2, <4>3
    <3>3. Acked(k, a, p, W) \/ (k = j /\ a = t /\ p <= n)
      BY Zenon, <2>9
    <3> QED
      BY Zenon, <3>1, <3>2, <3>3
  <2>16. VotersSeeIt(T, W)'
    <3> SUFFICES ASSUME NEW r \in rvReplies, NEW q \in rvArgs, NEW a \in Nat, NEW p \in Nat,
                        r.VoteGranted, q.From = r.To, q.Term = r.Term, a < r.Term,
                        Acked(r.From, a, p, W)', Choosable(a, p, T, W)
                 PROVE  AtLeast(q, a, p)
      BY Zenon, <1>8, <2>10 DEF VotersSeeIt, rvVars
    <3>1. CASE Acked(r.From, a, p, W)
      BY Zenon, <3>1 DEF VotersSeeIt, History
    <3>2. CASE r.From = j /\ a = t
      <4>1. r.Term \in Nat /\ r.Term <= CurrentTerm[j] /\ CurrentTerm[j] \in Nat
        BY Zenon, <1>1, <1>2, <3>2, VoteFacts
      <4> QED
        BY <1>7, <3>2, <4>1
    <3> QED
      BY Zenon, <2>9, <3>1, <3>2
  <2>17. CommitsSettled(T, W)'
    <3>1. ASSUME NEW X, NEW k, NEW u \in Nat, Settled(X, k, u, T, W)
          PROVE  Settled(X, k, u, T, W)'
      <4>1. k # 0 => Agree(X, X, k + 1)
        BY Zenon, <3>1, AgreeSym, AgreeSame DEF Settled
      <4>2. u <= u
        OBVIOUS
      <4> QED
        BY Zenon, <1>1, <1>8, <3>1, <4>1, <4>2, SettledStays
    <3>2. ASSUME NEW a \in aeArgs
          PROVE  Settled(T[a.Term], a.LeaderCommit, a.Term, T, W)'
      <4>1. Settled(T[a.Term], a.LeaderCommit, a.Term, T, W)
        BY Zenon DEF History, CommitsSettled
      <4>2. a.Term \in Nat
        BY Zenon, <1>1, CallFacts
      <4> QED
        BY Zenon, <3>1, <4>1, <4>2
    <3>3. ASSUME NEW k \in Servers, k # j
          PROVE  Settled(Log[k], commitIndex[k], CurrentTerm[k], T, W)'
      <4>1. Settled(Log[k], commitIndex[k], CurrentTerm[k], T, W) /\ CurrentTerm[k] \in Nat
        BY Zenon, <1>1 DEF History, CommitsSettled
      <4>2. commitIndex'[k] = commitIndex[k]
        BY Zenon, <1>1, <2>3, <3>3
      <4>3. PICK u \in Nat : u = CurrentTerm[k]
        BY Zenon, <4>1
      <4>6. PICK X, c : X = Log[k] /\ c = commitIndex[k]
        BY Zenon
      <4>4. X = Log'[k] /\ c = commitIndex'[k] /\ u = CurrentTerm'[k]
        BY Zenon, <1>9, <2>4, <3>3, <4>2, <4>3, <4>6
      <4>5. Settled(X, c, u, T, W)'
        BY Zenon, <3>1, <4>1, <4>3, <4>6
      <4> QED
        BY Zenon, <4>4, <4>5
    <3>4. PICK c \in Int, lc \in Int, v \in Nat :
             c = commitIndex[j] /\ lc = m.LeaderCommit /\ v = CurrentTerm[j]
      BY Zenon, <1>1, <1>2
    <3>5. /\ Settled(L, c, v, T, W) /\ Settled(M, lc, t, T, W)
      BY Zenon, <1>2, <1>3, <2>1, <3>4 DEF History, CommitsSettled
    <3>6. v <= t /\ t <= t
      BY <1>7, <3>4
    <3>7. Settled(N, c, t, T, W)'
      <4>1. c # 0 => Agree(N, L, c + 1)
        <5>1. SUFFICES ASSUME c # 0 PROVE Agree(N, L, c + 1)
          BY Zenon
        <5>2. c + 1 \in Nat /\ Agree(L, M, c + 1)
          BY Zenon, <1>4, <2>1, <3>5, <3>6, <5>1, SettledKept
        <5>3. Agree(N, M, c + 1) /\ Agree(M, L, c + 1)
          BY Zenon, <2>5, <5>2, AgreeSym
        <5> QED
          BY Zenon, <5>3, AgreeSame
      <4> QED
        BY Zenon, <1>1, <1>8, <3>5, <3>6, <4>1, SettledStays
    <3>8. Settled(N, lc, t, T, W)'
      <4>1. lc + 1 <= n /\ lc + 1 \in Int
        <5>1. PICK d \in Int : d = m.PrevLogIndex + Len(m.Entries)
          BY <1>2
        <5>2. lc <= d /\ n = d + 1
          BY Zenon, <1>3, <1>4, <3>4, <5>1
        <5> QED
          BY <5>2
      <4>2. lc # 0 => Agree(N, M, lc + 1)
        BY Zenon, <1>3, <2>5, <4>1, AgreeLess
      <4> QED
        BY Zenon, <1>1, <1>8, <3>5, <3>6, <4>2, SettledStays
    <3>9. commitIndex'[j] = c \/ commitIndex'[j] = lc
      <4>1. commitIndex'[j] = FollowerCommitIndex(j, lc, n - 1)
        <5>1. m.PrevLogIndex + Len(m.Entries) = n - 1
          BY <1>2, <1>3
        <5> QED
          BY Zenon, <1>1, <1>2, <2>3, <3>4, <5>1
      <4>2. lc <= n - 1
        BY <1>2, <1>3, <1>4, <3>4
      <4>3. FollowerCommitIndex(j, lc, n - 1) = c \/ FollowerCommitIndex(j, lc, n - 1) = lc
        BY <3>4, <4>2 DEF FollowerCommitIndex
      <4> QED
        BY Zenon, <4>1, <4>3
    <3>10. Settled(Log[j], commitIndex[j], CurrentTerm[j], T, W)'
      BY Zenon, <1>9, <2>1, <3>7, <3>8, <3>9
    <3>11. \A k \in Servers : Settled(Log[k], commitIndex[k], CurrentTerm[k], T, W)'
      BY Zenon, <3>3, <3>10
    <3> QED
      BY Zenon, <1>8, <3>2, <3>11 DEF CommitsSettled
  <2>18. MatchesAcked(W)'
    BY Zenon, <1>8, <1>9, MatchesFrame DEF History
  <2>19. AppliedDecided(T, W)'
    BY Zenon, <1>1, <1>8, AppliedExtended DEF History
  <2> QED
    BY Zenon, <2>11, <2>12, <2>13, <2>14, <2>15, <2>16, <2>17, <2>18, <2>19 DEF History
<1> QED
  BY Zenon, <1>5, <1>10, <1>11

\* Who acknowledged a position acknowledged every earlier one.
LEMMA AckedLess ==
    ASSUME TypeOK, NEW W, NEW j, NEW t, NEW p \in Int, NEW q \in Int, q <= p, Acked(j, t, p, W)
    PROVE  Acked(j, t, q, W)
<1>1. ASSUME NEW r \in aeReplies, p <= r.Last + 1 PROVE q <= r.Last + 1
  <2>1. r.Last \in Int
    BY Zenon, AppendEntriesRepliesFacts
  <2> QED
    BY <1>1, <2>1
<1> QED
  BY Zenon, <1>1 DEF Acked

\* What updateLeaderCommitIndex commits is chosen.
LEMMA CommittableChosen ==
    ASSUME NEW T \in LeaderLogs, NEW W \in Leaderships, History(T, W), ElectionInv,
           NEW i \in Servers, status[i] = "Leader", NEW match \in [Servers -> Int],
           \A p \in Peers(i) : match[p] = 0 \/ Acked(p, CurrentTerm[i], match[p] + 1, W),
           NEW n \in Committable(i, match)
    PROVE  Settled(Log[i], n, CurrentTerm[i], T, W)
<1>1. TypeOK /\ CurrentTerm[i] \in Nat /\ Log[i] \in Seq(Entries) /\ Len(Log[i]) \in Nat
  BY Zenon, TermFacts, LogFacts DEF ElectionInv
<1>2. PICK t \in Nat, L \in Seq(Entries) : t = CurrentTerm[i] /\ L = Log[i]
  BY Zenon, <1>1
<1>3. W[t] = i /\ T[t] = L /\ i # Nobody
  BY Zenon, <1>2, ServersAssumption DEF History, LeadersRecorded
<1>4. lastIncludedIndex[i] = 0
  BY Zenon DEF ElectionInv, NoSnapshots
<1>5. PICK Q \in SUBSET Servers : Q = {i} \cup {p \in Peers(i) : match[p] >= n}
  <2>1. {i} \cup {p \in Peers(i) : match[p] >= n} \in SUBSET Servers
    BY Zenon DEF Peers
  <2> QED
    BY Zenon, <2>1
<1>6. /\ n \in commitIndex[i] + 1 .. LastIndex(i) /\ termAt(L, 0, n) = t /\ IsMajority(Q)
  BY Zenon, <1>2, <1>4, <1>5 DEF Committable
<1>7. commitIndex[i] \in Int /\ commitIndex[i] >= 0
  <2>1. Settled(L, commitIndex[i], t, T, W)
    BY Zenon, <1>2 DEF History, CommitsSettled
  <2> QED
    BY <2>1 DEF Settled
<1>8. n \in Nat /\ n >= 1 /\ n <= Len(L) - 1 /\ Len(L) \in Nat
  <2>1. LastIndex(i) = Len(L) - 1 + 0
    BY Zenon, <1>2, <1>4 DEF LastIndex, lastLogIndex
  <2>2. Len(L) \in Nat
    BY Zenon, <1>1, <1>2
  <2> QED
    BY <1>6, <1>7, <2>1, <2>2
<1>9. n + 1 \in 2 .. Len(L) /\ n + 1 \in Nat /\ n < n + 1 /\ n + 1 <= Len(L) /\ n + 1 \in Int
  BY <1>8
<1>10. L[n + 1].Term = t
  BY <1>6, <1>8 DEF termAt, termAtPhysical, toPhysicalIndex
<1>11. Own(t, n + 1, T, W)
  BY Zenon, <1>3, <1>9, <1>10 DEF Own, Has
<1>12. ASSUME NEW j \in Q PROVE Acked(j, t, n + 1, W)
  <2>1. CASE j = i
    BY Zenon, <1>3, <2>1 DEF Acked
  <2>2. CASE j \in Peers(i) /\ match[j] >= n
    <3>1. match[j] \in Int
      BY Zenon, <2>2 DEF Peers
    <3>2. match[j] # 0 /\ n + 1 <= match[j] + 1 /\ match[j] + 1 \in Int
      BY <1>8, <2>2, <3>1
    <3>3. Acked(j, t, match[j] + 1, W)
      BY Zenon, <1>2, <2>2, <3>2
    <3> QED
      BY Zenon, <1>1, <1>9, <3>2, <3>3, AckedLess
  <2> QED
    BY Zenon, <1>5, <2>1, <2>2
<1>13. Chosen(t, n + 1, T, W)
  BY Zenon, <1>6, <1>11, <1>12 DEF Chosen
<1>14. Agree(L, T[t], n + 1)
  BY Zenon, <1>3, <1>9, AgreeSelf
<1>15. t <= t
  OBVIOUS
<1>16. Settled(L, n, t, T, W)
  BY Zenon, <1>8, <1>9, <1>13, <1>14, <1>15 DEF Settled
<1> QED
  BY Zenon, <1>2, <1>16

\* updateLeaderCommitIndex leaves commitIndex or picks an index it may commit.
LEMMA LeaderCommitIndexFrom ==
    ASSUME SetFacts,
           TypeOK, NEW i \in Servers, NEW match
    PROVE  \/ LeaderCommitIndex(i, match) = commitIndex[i]
           \/ LeaderCommitIndex(i, match) \in Committable(i, match)
<1>1. commitIndex[i] \in Int /\ LastIndex(i) \in Int
  <2>1. Len(Log[i]) \in Nat /\ lastIncludedIndex[i] \in Nat
    BY Zenon, LogFacts DEF TypeOK, LogType
  <2>2. LastIndex(i) \in Int
    BY <2>1 DEF LastIndex, lastLogIndex
  <2> QED
    BY Zenon, <2>2 DEF TypeOK, RoleType
<1> DEFINE C == Committable(i, match)
<1>2. C \in SUBSET Int /\ \A n \in C : n <= LastIndex(i)
  BY <1>1 DEF Committable
<1> HIDE DEF C
<1>3. C # {} => \E n \in C : \A k \in C : k <= n
  BY Zenon, <1>1, <1>2 DEF SetFacts
<1>4. C # {} => (CHOOSE n \in C : \A k \in C : k <= n) \in C
  BY Zenon, <1>2, <1>3
<1> QED
  BY Zenon, <1>4 DEF LeaderCommitIndex, C

\* handleSendAppendEntries.
LEMMA HandleSendAppendEntriesSafe ==
    ASSUME SetFacts,
           NEW T \in LeaderLogs, NEW W \in Leaderships, History(T, W), ElectionInv, TypeOK',
           TermsRise, NEW r \in aeReplies, handleSendAppendEntries(r.To, r)
    PROVE  History(T, W)'
<1> DEFINE i == r.To
           p == r.From
<1>1. /\ TypeOK /\ Extends(T, W, T, W) /\ i \in Servers /\ p \in Servers /\ r.Last \in Int
      /\ CurrentTerm \in [Servers -> Nat] /\ commitIndex \in [Servers -> Int]
      /\ matchIndex \in [Servers -> [Servers -> Int]]
      /\ matchIndex' \in [Servers -> [Servers -> Int]]
  BY Zenon, ExtendsSelf, AppendEntriesRepliesFacts
     DEF ElectionInv, TypeOK, TermType, RoleType, LeaderType
<1>2. /\ UNCHANGED <<applyVars, rvVars, aeVars>> /\ status[i] = "Leader" /\ CurrentTerm[i] = r.Term
  BY Zenon DEF handleSendAppendEntries
<1>3. CASE stepDown(i, r.ReplyTerm) /\ UNCHANGED <<leaderVars, commitIndex>>
  BY Zenon, <1>1, <1>2, <1>3, StepDownSafe
<1>4. CASE UNCHANGED <<termVars, logVars, status>> /\ UNCHANGED <<matchIndex, commitIndex>>
  <2>1. /\ CurrentTerm' = CurrentTerm /\ Log' = Log /\ snapshot' = snapshot /\ status' = status
        /\ matchIndex' = matchIndex /\ commitIndex' = commitIndex /\ applyVars' = applyVars
        /\ rvVars' = rvVars /\ aeArgs' = aeArgs /\ aeReplies' = aeReplies
    BY Zenon, <1>2, <1>4 DEF termVars, logVars, aeVars
  <2>2. RolesKept /\ NoNewAcks
    BY Zenon, <2>1 DEF RolesKept, NoNewAcks
  <2> QED
    BY Zenon, <1>1, <2>1, <2>2, QuietStep
<1>5. CASE /\ UNCHANGED <<termVars, logVars, status>> /\ r.Success
           /\ updateMatchAndNextIndex(i, p, r.Last)
           /\ commitIndex' = [commitIndex EXCEPT ![i] = LeaderCommitIndex(i, matchIndex'[i])]
  <2>1. /\ CurrentTerm' = CurrentTerm /\ Log' = Log /\ snapshot' = snapshot /\ status' = status
        /\ applyVars' = applyVars
        /\ rvVars' = rvVars /\ aeArgs' = aeArgs /\ aeReplies' = aeReplies
    BY Zenon, <1>2, <1>5 DEF termVars, logVars, aeVars
  <2>2. RolesKept /\ NoNewAcks /\ aeReplies \subseteq aeReplies'
    BY Zenon, <2>1 DEF RolesKept, NoNewAcks
  <2>3. /\ LogsBacked(T, W)' /\ LeadersRecorded(T, W)'
        /\ RepliesAnswer(T, W)' /\ CandidatesAsk'
        /\ LeadersHaveIt(T, W)' /\ PeersKeepIt(T, W)' /\ VotersSeeIt(T, W)'
    BY Zenon, <2>1, <2>2, QuietHistory
  <2>4. CallsCarryLogs(T, W)' /\ AppliedDecided(T, W)'
    BY Zenon, <1>1, <2>1, <2>2, CallsExtended, AppliedExtended DEF History
  <2>5. /\ \A k \in Servers : k # i => matchIndex'[k] = matchIndex[k]
        /\ \A q \in Servers : q # p => matchIndex'[i][q] = matchIndex[i][q]
        /\ matchIndex'[i][p] = matchIndex[i][p] \/ matchIndex'[i][p] = r.Last
    BY <1>1, <1>5 DEF updateMatchAndNextIndex
  <2>6. ASSUME NEW q \in Peers(i)
        PROVE  matchIndex'[i][q] = 0 \/ Acked(q, CurrentTerm[i], matchIndex'[i][q] + 1, W)
    <3>1. matchIndex[i][q] = 0 \/ Acked(q, CurrentTerm[i], matchIndex[i][q] + 1, W)
      BY Zenon, <1>1, <1>2 DEF History, MatchesAcked
    <3>2. CASE matchIndex'[i][q] = matchIndex[i][q]
      BY Zenon, <3>1, <3>2
    <3>3. CASE q = p /\ matchIndex'[i][q] = r.Last
      <4>1. r.Last + 1 <= r.Last + 1
        BY <1>1
      <4>2. Acked(q, CurrentTerm[i], r.Last + 1, W)
        BY Zenon, <1>2, <1>5, <3>3, <4>1 DEF Acked
      <4> QED
        BY Zenon, <3>3, <4>2
    <3> QED
      BY Zenon, <1>1, <2>5, <3>2, <3>3 DEF Peers
  <2>7. \A j, t, q : Acked(j, t, q, W) => Acked(j, t, q, W)'
    BY Zenon, <2>1 DEF Acked
  <2>8. MatchesAcked(W)'
    <3> SUFFICES ASSUME NEW k \in Servers, status[k] = "Leader", NEW q \in Peers(k)
                 PROVE  \/ matchIndex'[k][q] = 0
                        \/ Acked(q, CurrentTerm[k], matchIndex[k][q] + 1, W)'
      BY Zenon, <2>1 DEF MatchesAcked, Peers
    <3>1. matchIndex'[k][q] = 0 \/ Acked(q, CurrentTerm[k], matchIndex'[k][q] + 1, W)
      BY Zenon, <2>5, <2>6 DEF History, MatchesAcked
    <3>2. PICK c, d : c = CurrentTerm[k] /\ d = matchIndex'[k][q] + 1
      BY Zenon
    <3>3. Acked(q, c, d, W) => Acked(q, c, d, W)'
      BY Zenon, <2>7
    <3> QED
      BY Zenon, <2>1, <3>1, <3>2, <3>3
  <2>9. CommitsSettled(T, W)'
    <3>1. \A M, k, u : Settled(M, k, u, T, W) => Settled(M, k, u, T, W)'
      <4>1. \A u, q \in Nat : Chosen(u, q, T, W) => Chosen(u, q, T, W)'
        BY Zenon, <1>1, <2>2, ChosenStays
      <4> QED
        BY Zenon, <4>1 DEF Settled
    <3>2. /\ \A k \in Servers : Settled(Log[k], commitIndex[k], CurrentTerm[k], T, W)
          /\ \A a \in aeArgs : Settled(T[a.Term], a.LeaderCommit, a.Term, T, W)
      BY Zenon DEF History, CommitsSettled
    <3>3. Settled(Log[i], commitIndex'[i], CurrentTerm[i], T, W)
      <4>1. commitIndex'[i] = commitIndex[i] \/ commitIndex'[i] \in Committable(i, matchIndex'[i])
        BY Zenon, <1>1, <1>5, LeaderCommitIndexFrom
      <4>2. PICK match \in [Servers -> Int] : match = matchIndex'[i]
        BY Zenon, <1>1
      <4>3. \A q \in Peers(i) : match[q] = 0 \/ Acked(q, CurrentTerm[i], match[q] + 1, W)
        BY Zenon, <2>6, <4>2
      <4>4. \A n \in Committable(i, match) : Settled(Log[i], n, CurrentTerm[i], T, W)
        BY Zenon, <1>1, <1>2, <4>3, CommittableChosen
      <4> QED
        BY Zenon, <1>1, <3>2, <4>1, <4>2, <4>4
    <3>4. \A k \in Servers : k # i => commitIndex'[k] = commitIndex[k]
      BY Zenon, <1>1, <1>5
    <3>5. ASSUME NEW k \in Servers
          PROVE  Settled(Log[k], commitIndex[k], CurrentTerm[k], T, W)'
      <4>1. PICK L, c, u : L = Log[k] /\ c = commitIndex'[k] /\ u = CurrentTerm[k]
        BY Zenon
      <4>2. Settled(L, c, u, T, W)'
        BY Zenon, <3>1, <3>2, <3>3, <3>4, <4>1
      <4> QED
        BY Zenon, <2>1, <4>1, <4>2
    <3> QED
      BY Zenon, <2>1, <3>1, <3>2, <3>5 DEF CommitsSettled
  <2> QED
    BY Zenon, <2>3, <2>4, <2>8, <2>9 DEF History
<1> QED
  BY Zenon, <1>3, <1>4, <1>5 DEF handleSendAppendEntries

\* Steps that concern one peer's applying only.
LEMMA ApplyFrame ==
    ASSUME NEW T \in LeaderLogs, NEW W \in Leaderships, History(T, W), ElectionInv, TypeOK',
           TermsRise, UNCHANGED <<termVars, logVars, status, commitIndex, leaderVars, rvVars, aeVars>>,
           AppliedDecided(T, W)'
    PROVE  History(T, W)'
<1>1. /\ CurrentTerm' = CurrentTerm /\ Log' = Log /\ snapshot' = snapshot /\ status' = status
      /\ matchIndex' = matchIndex /\ commitIndex' = commitIndex
      /\ rvVars' = rvVars /\ aeArgs' = aeArgs /\ aeReplies' = aeReplies
  BY Zenon DEF termVars, logVars, aeVars, leaderVars
<1>2. RolesKept /\ NoNewAcks /\ aeReplies \subseteq aeReplies'
  BY Zenon, <1>1 DEF RolesKept, NoNewAcks
<1>3. /\ LogsBacked(T, W)' /\ LeadersRecorded(T, W)'
      /\ RepliesAnswer(T, W)' /\ CandidatesAsk'
      /\ LeadersHaveIt(T, W)' /\ PeersKeepIt(T, W)' /\ VotersSeeIt(T, W)'
  BY Zenon, <1>1, <1>2, QuietHistory
<1>4. CallsCarryLogs(T, W)' /\ CommitsSettled(T, W)'
  BY Zenon, <1>1, <1>2, QuietCommits
<1>5. MatchesAcked(W)'
  BY Zenon, <1>1, <1>2, MatchesFrame DEF History
<1> QED
  BY Zenon, <1>3, <1>4, <1>5 DEF History

\* A step that changes what one peer has applied and leaves the messages alone.
LEMMA AppliedFrame ==
    ASSUME NEW T \in LeaderLogs, NEW W \in Leaderships, AppliedDecided(T, W), TypeOK,
           aeReplies' = aeReplies, snapshot' = snapshot, NEW i \in Servers,
           \A k \in Servers \ {i} : /\ applySnapshot'[k] = applySnapshot[k]
                                    /\ lastApplied'[k] = lastApplied[k]
                                    /\ applied'[k] = applied[k] /\ applyCh'[k] = applyCh[k],
           ~applySnapshot'[i], lastApplied'[i] = Len(applied'[i]) + Len(applyCh'[i]),
           \A k \in 1 .. Len(applied'[i]) : Decided(k, applied'[i][k], T, W),
           \A k \in 1 .. Len(applyCh'[i]) :
               /\ applyCh'[i][k].CommandValid
               /\ applyCh'[i][k].Index = Len(applied'[i]) + k
               /\ Decided(Len(applied'[i]) + k, applyCh'[i][k].Command, T, W)
    PROVE  AppliedDecided(T, W)'
<1>1. \A k, command : Decided(k, command, T, W) => Decided(k, command, T, W)'
  <2>1. aeReplies \subseteq aeReplies' /\ Extends(T, W, T, W)
    BY Zenon, ExtendsSelf
  <2>2. \A u, q \in Nat : Chosen(u, q, T, W) => Chosen(u, q, T, W)'
    BY Zenon, <2>1, ChosenStays
  <2> QED
    BY Zenon, <2>2 DEF Decided
<1>2. ASSUME NEW j \in Servers
      PROVE  /\ ~applySnapshot'[j] /\ snapshot'[j] = <<>>
             /\ lastApplied'[j] = Len(applied'[j]) + Len(applyCh'[j])
             /\ \A k \in 1 .. Len(applied'[j]) : Decided(k, applied'[j][k], T, W)
             /\ \A k \in 1 .. Len(applyCh'[j]) :
                  /\ applyCh'[j][k].CommandValid
                  /\ applyCh'[j][k].Index = Len(applied'[j]) + k
                  /\ Decided(Len(applied'[j]) + k, applyCh'[j][k].Command, T, W)
  <2>1. CASE j = i
    BY Zenon, <2>1 DEF AppliedDecided
  <2>2. CASE j # i
    <3>1. PICK a, ch, last, s : a = applied[j] /\ ch = applyCh[j] /\ last = lastApplied[j]
                                /\ s = applySnapshot[j]
      BY Zenon
    <3>2. /\ a = applied'[j] /\ ch = applyCh'[j] /\ last = lastApplied'[j]
          /\ s = applySnapshot'[j]
      BY Zenon, <2>2, <3>1
    <3>3. /\ ~s /\ snapshot'[j] = <<>> /\ last = Len(a) + Len(ch)
          /\ \A k \in 1 .. Len(a) : Decided(k, a[k], T, W)
          /\ \A k \in 1 .. Len(ch) :
               /\ ch[k].CommandValid /\ ch[k].Index = Len(a) + k
               /\ Decided(Len(a) + k, ch[k].Command, T, W)
      BY Zenon, <3>1 DEF AppliedDecided
    <3> QED
      BY Zenon, <3>2, <3>3
  <2> QED
    BY Zenon, <2>1, <2>2
<1>3. ASSUME NEW j \in Servers, NEW k \in 1 .. Len(applied'[j])
      PROVE  Decided(k, applied[j][k], T, W)'
  <2>1. PICK c : c = applied'[j][k]
    BY Zenon
  <2>2. Decided(k, c, T, W)'
    BY Zenon, <1>1, <1>2, <2>1
  <2> QED
    BY Zenon, <2>1, <2>2
<1>4. ASSUME NEW j \in Servers, NEW k \in 1 .. Len(applyCh'[j])
      PROVE  Decided(Len(applied[j]) + k, applyCh[j][k].Command, T, W)'
  <2>1. PICK c, n : c = applyCh'[j][k].Command /\ n = Len(applied'[j]) + k
    BY Zenon
  <2>2. Decided(n, c, T, W)'
    BY Zenon, <1>1, <1>2, <2>1
  <2> QED
    BY Zenon, <2>1, <2>2
<1>5. ASSUME NEW j \in Servers
      PROVE  /\ \A k \in 1 .. Len(applied'[j]) : Decided(k, applied[j][k], T, W)'
             /\ \A k \in 1 .. Len(applyCh'[j]) :
                  /\ applyCh'[j][k].CommandValid
                  /\ applyCh'[j][k].Index = Len(applied'[j]) + k
                  /\ Decided(Len(applied[j]) + k, applyCh[j][k].Command, T, W)'
  BY Zenon, <1>2, <1>3, <1>4
<1>6. ASSUME NEW j \in Servers
      PROVE  /\ ~applySnapshot'[j] /\ snapshot'[j] = <<>>
             /\ lastApplied'[j] = Len(applied'[j]) + Len(applyCh'[j])
  BY Zenon, <1>2
<1> QED
  BY Zenon, <1>5, <1>6 DEF AppliedDecided

\* applyCommitted: what it collects is what is committed.
LEMMA ApplyCommittedSafe ==
    ASSUME NEW T \in LeaderLogs, NEW W \in Leaderships, History(T, W), ElectionInv, TypeOK',
           TermsRise, NEW i \in Servers, applyCommitted(i)
    PROVE  History(T, W)'
<1>1. /\ TypeOK /\ Log[i] \in Seq(Entries) /\ Len(Log[i]) \in Nat /\ Len(Log[i]) >= 1
      /\ applyCh \in [Servers -> Seq(ApplyMsgs)] /\ applied \in [Servers -> States]
      /\ lastApplied \in [Servers -> Int] /\ commitIndex \in [Servers -> Int]
  BY Zenon, LogFacts DEF ElectionInv, TypeOK, ApplyType, RoleType
<1>2. AppliedDecided(T, W) /\ lastIncludedIndex[i] = 0
  BY Zenon DEF History, ElectionInv, NoSnapshots
<1>3. /\ applyCh[i] = <<>> /\ ~applySnapshot[i] /\ Len(applied[i]) \in Nat
      /\ lastApplied[i] = Len(applied[i]) + Len(applyCh[i])
      /\ \A k \in 1 .. Len(applied[i]) : Decided(k, applied[i][k], T, W)
  <2>1. applied[i] \in Seq(Commands \cup {NoCommand})
    BY Zenon, <1>1 DEF States
  <2> QED
    BY Zenon, <1>2, <2>1, SequenceFacts DEF applyCommitted, AppliedDecided
<1>4. PICK low \in Nat, commit \in Int, L \in Seq(Entries) :
         low = Len(applied[i]) /\ commit = commitIndex[i] /\ L = Log[i]
  BY Zenon, <1>1, <1>3
<1>5. lastApplied[i] = low
  <2>1. Len(applyCh[i]) = 0
    BY <1>3
  <2> QED
    BY <1>3, <1>4, <2>1
<1>6. commit > low /\ ~(low < 0)
  BY <1>2, <1>3, <1>4, <1>5 DEF applyCommitted
<1>7. /\ lastApplied' = [lastApplied EXCEPT ![i] = commit] /\ applySnapshot' = applySnapshot
      /\ applyCh' = [applyCh EXCEPT ![i] = EntriesToApply(i)] /\ applied' = applied
      /\ UNCHANGED <<termVars, logVars, status, commitIndex, leaderVars, rvVars, aeVars>>
  BY Zenon, <1>2, <1>3, <1>4, <1>5, <1>6 DEF applyCommitted
<1>8. PICK u \in Nat, p \in Nat :
         commit \in Nat /\ commit < p /\ Chosen(u, p, T, W) /\ Agree(L, T[u], commit + 1)
  <2>1. Settled(L, commit, CurrentTerm[i], T, W)
    BY Zenon, <1>4 DEF History, CommitsSettled
  <2>2. commit # 0
    BY <1>6
  <2> QED
    BY Zenon, <2>1, <2>2 DEF Settled
<1>9. EntriesToApply(i) = [k \in 1 .. commit - low |->
                            [CommandValid |-> TRUE, Index |-> low + k,
                             Command |-> L[low + k + 1].Command, Snapshot |-> <<>>]]
  <2>1. LastIndex(i) = Len(L) - 1 + 0
    BY Zenon, <1>2, <1>4 DEF LastIndex, lastLogIndex
  <2>2. ~(commit > LastIndex(i))
    BY <1>1, <1>4, <1>8, <2>1 DEF Agree
  <2>3. \A k \in 1 .. commit - low : toPhysicalIndex(0, low + k) = low + k
    BY <1>6 DEF toPhysicalIndex
  <2> QED
    BY Zenon, <1>2, <1>4, <1>5, <1>6, <2>2, <2>3 DEF EntriesToApply
<1>10. PICK E : E = EntriesToApply(i)
  BY Zenon
<1>11. Len(E) = commit - low
  BY <1>6, <1>9, <1>10
<1>12. ASSUME NEW k \in 1 .. Len(E)
       PROVE  /\ E[k].CommandValid /\ E[k].Index = low + k /\ Decided(low + k, E[k].Command, T, W)
  <2>1. k \in 1 .. commit - low
    BY Zenon, <1>11
  <2>2. /\ low + k \in Nat /\ low + k < p /\ low + k + 1 \in 1 .. commit + 1
    BY <1>6, <1>8, <2>1
  <2>3. PICK e : e = E[k]
    BY Zenon
  <2>4. e = [CommandValid |-> TRUE, Index |-> low + k,
             Command |-> L[low + k + 1].Command, Snapshot |-> <<>>]
    BY Zenon, <1>9, <1>10, <2>1, <2>3
  <2>5. e.CommandValid /\ e.Index = low + k /\ e.Command = L[low + k + 1].Command
    BY Zenon, <2>4
  <2>6. L[low + k + 1] = T[u][low + k + 1]
    BY Zenon, <1>8, <2>2 DEF Agree
  <2>7. Decided(low + k, e.Command, T, W)
    BY Zenon, <1>8, <2>2, <2>5, <2>6 DEF Decided
  <2> QED
    BY Zenon, <2>3, <2>5, <2>7
<1>13. AppliedDecided(T, W)'
  <2>1. applyCh'[i] = E /\ lastApplied'[i] = commit /\ applied'[i] = applied[i]
    BY Zenon, <1>1, <1>7, <1>10
  <2>2. commit = low + Len(E)
    BY <1>11
  <2>3. aeReplies' = aeReplies /\ snapshot' = snapshot
    BY Zenon, <1>7 DEF aeVars, logVars
  <2>4. \A k \in Servers \ {i} : /\ applySnapshot'[k] = applySnapshot[k]
                                 /\ lastApplied'[k] = lastApplied[k]
                                 /\ applied'[k] = applied[k] /\ applyCh'[k] = applyCh[k]
    BY Zenon, <1>1, <1>7
  <2>5. ~applySnapshot'[i] /\ lastApplied'[i] = Len(applied'[i]) + Len(applyCh'[i])
    BY Zenon, <1>3, <1>4, <1>7, <2>1, <2>2
  <2>6. \A k \in 1 .. Len(applied'[i]) : Decided(k, applied'[i][k], T, W)
    BY Zenon, <1>3, <2>1
  <2>7. \A k \in 1 .. Len(applyCh'[i]) :
               /\ applyCh'[i][k].CommandValid
               /\ applyCh'[i][k].Index = Len(applied'[i]) + k
               /\ Decided(Len(applied'[i]) + k, applyCh'[i][k].Command, T, W)
    BY Zenon, <1>4, <1>12, <2>1
  <2> QED
    BY Zenon, <1>1, <1>2, <2>3, <2>4, <2>5, <2>6, <2>7, AppliedFrame
<1> QED
  BY Zenon, <1>7, <1>13, ApplyFrame

\* applierSnap: the service takes the next command.
LEMMA ApplierSnapSafe ==
    ASSUME NEW T \in LeaderLogs, NEW W \in Leaderships, History(T, W), ElectionInv, TypeOK',
           TermsRise, NEW i \in Servers, applierSnap(i)
    PROVE  History(T, W)'
<1>1. /\ TypeOK /\ applyCh \in [Servers -> Seq(ApplyMsgs)] /\ applied \in [Servers -> States]
  BY Zenon DEF ElectionInv, TypeOK, ApplyType
<1>2. AppliedDecided(T, W)
  BY Zenon DEF History
<1>3. PICK a \in States, ch \in Seq(ApplyMsgs), last \in {lastApplied[i]} :
         a = applied[i] /\ ch = applyCh[i] /\ last = lastApplied[i]
  BY Zenon, <1>1
<1>4. PICK n \in Nat, l \in Nat : n = Len(a) /\ l = Len(ch)
  <2>1. a \in Seq(Commands \cup {NoCommand})
    BY Zenon DEF States
  <2> QED
    BY Zenon, <2>1, SequenceFacts
<1>5. /\ ch # <<>> /\ ~applySnapshot[i] /\ last = n + l
      /\ \A k \in 1 .. n : Decided(k, a[k], T, W)
      /\ \A k \in 1 .. l : /\ ch[k].CommandValid /\ ch[k].Index = n + k
                           /\ Decided(n + k, ch[k].Command, T, W)
  BY Zenon, <1>2, <1>3, <1>4 DEF applierSnap, AppliedDecided
<1>6. PICK tl \in Seq(ApplyMsgs), msg \in {Head(ch)} : tl = Tail(ch) /\ msg = Head(ch)
  <2>1. Tail(ch) \in Seq(ApplyMsgs)
    BY <1>5
  <2> QED
    BY Zenon, <2>1
<1>7. /\ msg = ch[1] /\ Len(tl) = l - 1 /\ \A k \in 1 .. l - 1 : tl[k] = ch[k + 1]
  BY <1>4, <1>5, <1>6
<1>8. l >= 1 /\ 1 \in 1 .. l
  BY <1>4, <1>5
<1>9. msg.CommandValid /\ msg.Index = n + 1 /\ Decided(n + 1, msg.Command, T, W)
  BY Zenon, <1>5, <1>7, <1>8
<1>10. PICK b : b = ApplyCommand(a, n + 1, msg.Command)
  BY Zenon
<1>11. /\ Len(b) = n + 1 /\ b[n + 1] = msg.Command /\ \A k \in 1 .. n : b[k] = a[k]
  BY <1>4, <1>10 DEF ApplyCommand
<1>12. /\ applied' = [applied EXCEPT ![i] = b] /\ applyCh' = [applyCh EXCEPT ![i] = tl]
       /\ lastApplied' = lastApplied /\ applySnapshot' = applySnapshot
       /\ UNCHANGED <<termVars, logVars, status, commitIndex, leaderVars, rvVars, aeVars>>
  BY Zenon, <1>1, <1>3, <1>6, <1>9, <1>10 DEF applierSnap
<1>13. AppliedDecided(T, W)'
  <2>1. applyCh'[i] = tl /\ lastApplied'[i] = last /\ applied'[i] = b
    BY Zenon, <1>1, <1>3, <1>12
  <2>2. last = Len(b) + Len(tl)
    BY <1>5, <1>7, <1>11
  <2>3. aeReplies' = aeReplies /\ snapshot' = snapshot
    BY Zenon, <1>12 DEF aeVars, logVars
  <2>4. \A k \in Servers \ {i} : /\ applySnapshot'[k] = applySnapshot[k]
                                 /\ lastApplied'[k] = lastApplied[k]
                                 /\ applied'[k] = applied[k] /\ applyCh'[k] = applyCh[k]
    BY Zenon, <1>1, <1>12
  <2>5. ~applySnapshot'[i] /\ lastApplied'[i] = Len(applied'[i]) + Len(applyCh'[i])
    BY Zenon, <1>5, <1>12, <2>1, <2>2
  <2>6. ASSUME NEW k \in 1 .. Len(b) PROVE Decided(k, b[k], T, W)
    <3>1. CASE k = n + 1
      BY Zenon, <1>9, <1>11, <3>1
    <3>2. CASE k # n + 1
      <4>1. k \in 1 .. n
        BY <1>11, <3>2
      <4> QED
        BY Zenon, <1>5, <1>11, <4>1
    <3> QED
      BY Zenon, <3>1, <3>2
  <2>7. ASSUME NEW k \in 1 .. Len(tl)
        PROVE  /\ tl[k].CommandValid /\ tl[k].Index = Len(b) + k
               /\ Decided(Len(b) + k, tl[k].Command, T, W)
    <3>1. k \in 1 .. l - 1 /\ k + 1 \in 1 .. l /\ Len(b) + k = n + (k + 1)
      BY <1>7, <1>8, <1>11
    <3> QED
      BY Zenon, <1>5, <1>7, <3>1
  <2>8. \A k \in 1 .. Len(applied'[i]) : Decided(k, applied'[i][k], T, W)
    BY Zenon, <2>1, <2>6
  <2>9. \A k \in 1 .. Len(applyCh'[i]) :
               /\ applyCh'[i][k].CommandValid
               /\ applyCh'[i][k].Index = Len(applied'[i]) + k
               /\ Decided(Len(applied'[i]) + k, applyCh'[i][k].Command, T, W)
    BY Zenon, <2>1, <2>7
  <2> QED
    BY Zenon, <1>1, <1>2, <2>3, <2>4, <2>5, <2>8, <2>9, AppliedFrame
<1> QED
  BY Zenon, <1>12, <1>13, ApplyFrame

\* Restart: a peer comes back with its log and its term, and applies anew.
LEMMA RestartSafe ==
    ASSUME NEW T \in LeaderLogs, NEW W \in Leaderships, History(T, W), ElectionInv, TypeOK',
           TermsRise, NEW i \in Servers, Restart(i), UNCHANGED <<termVars, logVars>>
    PROVE  History(T, W)'
<1>1. /\ TypeOK /\ Durable /\ Extends(T, W, T, W) /\ CurrentTerm \in [Servers -> Nat]
      /\ status \in [Servers -> {"Leader", "Candidate", "Follower"}]
      /\ commitIndex \in [Servers -> Int] /\ matchIndex \in [Servers -> [Servers -> Int]]
      /\ applyCh \in [Servers -> Seq(ApplyMsgs)] /\ applied \in [Servers -> States]
      /\ lastApplied \in [Servers -> Int] /\ applySnapshot \in [Servers -> BOOLEAN]
      /\ snapshot \in [Servers -> States] /\ lastIncludedIndex \in [Servers -> Nat]
  BY Zenon, ExtendsSelf DEF ElectionInv, TypeOK, TermType, RoleType, LeaderType, ApplyType, LogType
<1>2. /\ CurrentTerm' = CurrentTerm /\ Log' = Log /\ snapshot' = snapshot
      /\ lastIncludedIndex' = lastIncludedIndex
  BY Zenon DEF termVars, logVars
<1>3. /\ rvVars' = rvVars /\ aeArgs' = aeArgs /\ aeReplies' = aeReplies
      /\ status' = [status EXCEPT ![i] = "Follower"]
  BY Zenon DEF Restart, aeVars
<1>4. persister[i].lastIncludedIndex = 0 /\ persister[i].snapshot = <<>>
  <2>1. lastIncludedIndex'[i] = persister[i].lastIncludedIndex /\ snapshot'[i] = persister[i].snapshot
    BY Zenon, <1>1 DEF Restart
  <2>2. lastIncludedIndex[i] = 0 /\ snapshot[i] = <<>>
    BY Zenon DEF ElectionInv, NoSnapshots, History, AppliedDecided
  <2> QED
    BY Zenon, <1>2, <2>1, <2>2
<1>5. /\ commitIndex' = [commitIndex EXCEPT ![i] = 0]
      /\ lastApplied' = [lastApplied EXCEPT ![i] = 0]
      /\ applySnapshot' = [applySnapshot EXCEPT ![i] = FALSE]
      /\ applyCh' = [applyCh EXCEPT ![i] = <<>>] /\ applied' = [applied EXCEPT ![i] = <<>>]
      /\ matchIndex' = [matchIndex EXCEPT ![i] = [p \in Servers |-> 0]]
  BY Zenon, <1>4 DEF Restart
<1>6. NoNewAcks /\ aeReplies \subseteq aeReplies'
  BY Zenon, <1>3 DEF NoNewAcks
<1>7. RolesKept
  <2>1. \A k \in Servers : status'[k] = IF k = i THEN "Follower" ELSE status[k]
    BY Zenon, <1>1, <1>3
  <2>2. \A k \in Servers : CurrentTerm'[k] >= CurrentTerm[k]
    BY Zenon DEF TermsRise
  <2> QED
    BY Zenon, <1>2, <2>1, <2>2 DEF RolesKept
<1>8. /\ LogsBacked(T, W)' /\ LeadersRecorded(T, W)'
      /\ RepliesAnswer(T, W)' /\ CandidatesAsk'
      /\ LeadersHaveIt(T, W)' /\ PeersKeepIt(T, W)' /\ VotersSeeIt(T, W)'
  BY Zenon, <1>2, <1>3, <1>6, <1>7, QuietHistory
<1>9. CallsCarryLogs(T, W)'
  BY Zenon, <1>1, <1>3, CallsExtended DEF History
<1>10. CommitsSettled(T, W)'
  <2>1. \A M, k, u : Settled(M, k, u, T, W) => Settled(M, k, u, T, W)'
    <3>1. \A u, q \in Nat : Chosen(u, q, T, W) => Chosen(u, q, T, W)'
      BY Zenon, <1>1, <1>6, ChosenStays
    <3> QED
      BY Zenon, <3>1 DEF Settled
  <2>2. /\ \A k \in Servers : Settled(Log[k], commitIndex[k], CurrentTerm[k], T, W)
        /\ \A a \in aeArgs : Settled(T[a.Term], a.LeaderCommit, a.Term, T, W)
    BY Zenon DEF History, CommitsSettled
  <2>3. ASSUME NEW k \in Servers
        PROVE  Settled(Log[k], commitIndex[k], CurrentTerm[k], T, W)'
    <3>1. CASE k = i
      BY Zenon, <1>1, <1>5, <3>1 DEF Settled
    <3>2. CASE k # i
      <4>1. PICK L, c, u : L = Log[k] /\ c = commitIndex[k] /\ u = CurrentTerm[k]
        BY Zenon
      <4>2. c = commitIndex'[k]
        BY Zenon, <1>1, <1>5, <3>2, <4>1
      <4>3. Settled(L, c, u, T, W)'
        BY Zenon, <2>1, <2>2, <4>1
      <4> QED
        BY Zenon, <1>2, <4>1, <4>2, <4>3
    <3> QED
      BY Zenon, <3>1, <3>2
  <2> QED
    BY Zenon, <1>3, <2>1, <2>2, <2>3 DEF CommitsSettled
<1>11. MatchesAcked(W)'
  <2>1. \A k \in Servers :
           status'[k] = "Leader" => status[k] = "Leader" /\ matchIndex'[k] = matchIndex[k]
    BY Zenon, <1>1, <1>3, <1>5
  <2> QED
    BY Zenon, <1>2, <1>6, <2>1, MatchesFrame DEF History
<1>12. AppliedDecided(T, W)'
  <2>1. /\ applyCh'[i] = <<>> /\ lastApplied'[i] = 0 /\ applied'[i] = <<>> /\ ~applySnapshot'[i]
    BY Zenon, <1>1, <1>5
  <2>2. lastApplied'[i] = Len(applied'[i]) + Len(applyCh'[i])
    BY <2>1
  <2>3. \A k \in Servers \ {i} : /\ applySnapshot'[k] = applySnapshot[k]
                                 /\ lastApplied'[k] = lastApplied[k]
                                 /\ applied'[k] = applied[k] /\ applyCh'[k] = applyCh[k]
    BY Zenon, <1>1, <1>5
  <2>4. \A k \in 1 .. Len(applied'[i]) : FALSE
    BY <2>1
  <2>5. \A k \in 1 .. Len(applyCh'[i]) : FALSE
    BY <2>1
  <2>6. AppliedDecided(T, W)
    BY Zenon DEF History
  <2> QED
    BY Zenon, <1>1, <1>2, <1>3, <2>1, <2>2, <2>3, <2>4, <2>5, <2>6, AppliedFrame
<1> QED
  BY Zenon, <1>8, <1>9, <1>10, <1>11, <1>12 DEF History

\* In the initial state no term has had a leader.
LEMMA InitSafetyInv == ASSUME Init, ElectionInv PROVE SafetyInv
<1>2. PICK D : D = <<Dummy(0)>>
  BY Zenon
<1>3. Len(D) = 1 /\ D[1] = Dummy(0) /\ D \in Seq(Entries) \ {<<>>}
  <2>1. Dummy(0) \in Entries
    BY DEF Dummy, Entries
  <2> QED
    BY <1>2, <2>1
<1>4. PICK T, W : T = [t \in Nat |-> D] /\ W = [t \in Nat |-> Nobody]
  BY Zenon
<1>5. /\ T \in LeaderLogs /\ W \in Leaderships
      /\ \A t \in Nat : T[t] = D /\ W[t] = Nobody
  BY Zenon, <1>3, <1>4 DEF LeaderLogs, Leaderships
<1>6. \A t : Backed(D, T, W) /\ NotAfter(D, t)
  <2>1. \A p \in 2 .. Len(D) : FALSE
    BY <1>3
  <2> QED
    BY Zenon, <1>3, <2>1 DEF Backed, NotAfter
<1>7. LogsBacked(T, W)
  BY Zenon, <1>2, <1>5, <1>6 DEF LogsBacked, Init
<1>8. LeadersRecorded(T, W) /\ MatchesAcked(W)
  <2>1. \A i \in Servers : status[i] = "Follower"
    BY Zenon DEF Init
  <2>2. 0 \in Nat
    OBVIOUS
  <2> QED
    BY Zenon, <1>5, <2>1, <2>2 DEF LeadersRecorded, MatchesAcked
<1>9. CallsCarryLogs(T, W) /\ RepliesAnswer(T, W) /\ CandidatesAsk
  BY Zenon DEF CallsCarryLogs, RepliesAnswer, CandidatesAsk, Init
<1>10. \A t, p \in Nat : ~Choosable(t, p, T, W)
  BY Zenon, <1>5 DEF Choosable, Own
<1>11. LeadersHaveIt(T, W) /\ PeersKeepIt(T, W) /\ VotersSeeIt(T, W)
  BY Zenon, <1>10 DEF LeadersHaveIt, PeersKeepIt, VotersSeeIt
<1>12. CommitsSettled(T, W)
  BY Zenon DEF CommitsSettled, Settled, Init
<1>13. AppliedDecided(T, W)
  <2>1. \A i \in Servers : /\ ~applySnapshot[i] /\ snapshot[i] = <<>> /\ lastApplied[i] = 0
                           /\ applied[i] = <<>> /\ applyCh[i] = <<>>
    BY Zenon DEF Init
  <2>2. Len(<<>>) = 0 /\ 0 = 0 + 0 /\ \A k \in 1 .. 0 : FALSE
    OBVIOUS
  <2> QED
    BY Zenon, <2>1, <2>2 DEF AppliedDecided
<1> QED
  BY Zenon, <1>5, <1>7, <1>8, <1>9, <1>11, <1>12, <1>13 DEF SafetyInv, History

-----------------------------------------------------------------------------
(***************************************************************************)
(* What the invariant says of the logs, the commits and the services.      *)
(***************************************************************************)

\* An index of the log and its entry, when nothing has been compacted.
LEMMA IndexFacts ==
    ASSUME ElectionInv, NEW i \in Servers
    PROVE  /\ Indices(i) = 1 .. Len(Log[i]) - 1 /\ LastIndex(i) = Len(Log[i]) - 1
           /\ \A k \in Indices(i) :
                /\ k \in Int /\ 1 <= k /\ k + 1 \in 2 .. Len(Log[i])
                /\ EntryAt(i, k) = Log[i][k + 1]
<1>1. lastIncludedIndex[i] = 0
  BY Zenon DEF ElectionInv, NoSnapshots
<1>2. Log[i] \in Seq(Entries) /\ Len(Log[i]) \in Nat
  BY Zenon, LogFacts DEF ElectionInv
<1>3. PICK n \in Nat : n = Len(Log[i])
  BY Zenon, <1>2
<1>4. LastIndex(i) = n - 1
  BY <1>1, <1>3 DEF LastIndex, lastLogIndex
<1>5. Indices(i) = 1 .. n - 1
  BY <1>1, <1>4 DEF Indices
<1>6. ASSUME NEW k \in 1 .. n - 1
      PROVE  k \in Int /\ 1 <= k /\ k + 1 \in 2 .. n /\ toPhysicalIndex(0, k) = k
  BY DEF toPhysicalIndex
<1>7. \A k \in 1 .. n - 1 : EntryAt(i, k) = Log[i][k + 1]
  BY Zenon, <1>1, <1>6 DEF EntryAt
<1> QED
  BY Zenon, <1>3, <1>4, <1>5, <1>6, <1>7

\* An entry comes with all that its leader had in front of it.
LEMMA SafetyInvLogMatching == SafetyInv => LogMatching
<1> SUFFICES ASSUME SafetyInv, NEW i \in Servers, NEW j \in Servers,
                    NEW k \in Indices(i), k \in Indices(j),
                    EntryAt(i, k).Term = EntryAt(j, k).Term,
                    NEW l \in Indices(i), l \in Indices(j), l <= k
             PROVE  EntryAt(i, l) = EntryAt(j, l)
  BY Zenon DEF LogMatching
<1>1. ElectionInv
  BY Zenon DEF SafetyInv
<1>2. PICK T \in LeaderLogs, W \in Leaderships : History(T, W)
  BY Zenon DEF SafetyInv
<1>3. /\ k + 1 \in 2 .. Len(Log[i]) /\ k + 1 \in 2 .. Len(Log[j])
      /\ EntryAt(i, k) = Log[i][k + 1] /\ EntryAt(j, k) = Log[j][k + 1]
      /\ EntryAt(i, l) = Log[i][l + 1] /\ EntryAt(j, l) = Log[j][l + 1]
      /\ k \in Int /\ l \in Int /\ 1 <= l
  BY Zenon, <1>1, IndexFacts
<1>4. PICK t : t = Log[i][k + 1].Term
  BY Zenon
<1>5. Has(Log[i], k + 1, t) /\ Has(Log[j], k + 1, t)
  BY Zenon, <1>3, <1>4 DEF Has
<1>6. Agree(Log[i], Log[j], k + 1)
  BY Zenon, <1>2, <1>5, BackedMatch DEF History, LogsBacked
<1>7. l + 1 \in 1 .. k + 1
  BY <1>3
<1> QED
  BY Zenon, <1>3, <1>6, <1>7 DEF Agree

\* What is committed was chosen, so later leaders have it.
LEMMA SafetyInvLeaderCompleteness == SafetyInv => LeaderCompleteness
<1> SUFFICES ASSUME SafetyInv, NEW i \in Servers, NEW j \in Servers,
                    status[i] = "Leader", CurrentTerm[j] <= CurrentTerm[i]
             PROVE  /\ commitIndex[j] <= LastIndex(i)
                    /\ \A k \in Indices(i) \cap Indices(j) :
                           k <= commitIndex[j] => EntryAt(i, k) = EntryAt(j, k)
  BY Zenon DEF LeaderCompleteness
<1>1. ElectionInv /\ TypeOK
  BY Zenon DEF SafetyInv, ElectionInv
<1>2. PICK T \in LeaderLogs, W \in Leaderships : History(T, W)
  BY Zenon DEF SafetyInv
<1>3. PICK t \in Nat, v \in Nat, L \in Seq(Entries), M \in Seq(Entries) :
        t = CurrentTerm[i] /\ v = CurrentTerm[j] /\ L = Log[j] /\ M = Log[i]
  BY Zenon, <1>1, TermFacts, LogFacts
<1>4. W[t] = i /\ T[t] = M /\ W[t] # Nobody
  BY Zenon, <1>2, <1>3, ServersAssumption DEF History, LeadersRecorded
<1>5. PICK c \in Int : c = commitIndex[j]
  BY Zenon, <1>1 DEF TypeOK, RoleType
<1>6. Settled(L, c, v, T, W)
  BY Zenon, <1>2, <1>3, <1>5 DEF History, CommitsSettled
<1>7. LastIndex(i) = Len(M) - 1 /\ Len(M) \in Nat /\ Len(M) >= 1
  BY Zenon, <1>1, <1>3, IndexFacts, LogFacts
<1>8. CASE c = 0
  <2>1. c <= LastIndex(i)
    BY <1>7, <1>8
  <2>2. \A k \in Indices(i) : k \in Int /\ 1 <= k
    BY Zenon, <1>1, IndexFacts
  <2>3. \A k \in Indices(i) : ~(k <= c)
    BY <1>8, <2>2
  <2> QED
    BY Zenon, <1>5, <2>1, <2>3
<1>9. CASE c # 0
  <2>1. c \in Nat /\ Agree(L, M, c + 1)
    BY Zenon, <1>1, <1>2, <1>3, <1>4, <1>6, <1>9, SettledKept
  <2>2. c <= LastIndex(i)
    BY <1>7, <2>1 DEF Agree
  <2>3. ASSUME NEW k \in Indices(i), k \in Indices(j), k <= c
        PROVE  EntryAt(i, k) = EntryAt(j, k)
    <3>1. /\ EntryAt(i, k) = M[k + 1] /\ EntryAt(j, k) = L[k + 1] /\ k \in Int /\ 1 <= k
      BY Zenon, <1>1, <1>3, <2>3, IndexFacts
    <3>2. k + 1 \in 1 .. c + 1
      BY <2>3, <3>1
    <3> QED
      BY Zenon, <2>1, <3>1, <3>2 DEF Agree
  <2> QED
    BY Zenon, <1>5, <2>2, <2>3
<1> QED
  BY Zenon, <1>8, <1>9

\* Chosen entries have the same entries in front of them.
LEMMA ChosenAgree ==
    ASSUME NEW T \in LeaderLogs, NEW W \in Leaderships, History(T, W),
           NEW u \in Nat, NEW p \in Nat, NEW v \in Nat, NEW q \in Nat, NEW k \in Nat,
           Chosen(u, p, T, W), Chosen(v, q, T, W), k < p, k < q
    PROVE  T[u][k + 1] = T[v][k + 1]
<1>1. ASSUME NEW a \in Nat, NEW b \in Nat, NEW r \in Nat, a < b, k < r,
             Chosen(a, r, T, W), W[b] # Nobody
      PROVE  T[a][k + 1] = T[b][k + 1]
  <2>1. Choosable(a, r, T, W)
    BY Zenon, <1>1 DEF Chosen, Choosable
  <2>2. Has(T[b], r, a)
    BY Zenon, <1>1, <2>1 DEF History, LeadersHaveIt
  <2>3. Agree(T[b], T[a], r)
    BY Zenon, <2>2, BackedEntry DEF History, LogsBacked
  <2>4. k + 1 \in 1 .. r
    BY <1>1
  <2> QED
    BY Zenon, <2>3, <2>4 DEF Agree
<1>2. W[u] # Nobody /\ W[v] # Nobody
  BY Zenon DEF Chosen, Own
<1>3. u < v \/ v < u \/ u = v
  OBVIOUS
<1> QED
  BY Zenon, <1>1, <1>2, <1>3

\* What is applied at an index was decided there, and only once.
LEMMA SafetyInvStateMachineSafety == SafetyInv => StateMachineSafety
<1> SUFFICES ASSUME SafetyInv, NEW i \in Servers, NEW j \in Servers,
                    NEW k \in DOMAIN applied[i], k \in DOMAIN applied[j]
             PROVE  applied[i][k] = applied[j][k]
  BY Zenon DEF StateMachineSafety
<1>1. PICK T \in LeaderLogs, W \in Leaderships : History(T, W)
  BY Zenon DEF SafetyInv
<1>2. \A h \in Servers : applied[h] \in Seq(Commands \cup {NoCommand})
  BY Zenon DEF SafetyInv, ElectionInv, TypeOK, ApplyType, States
<1>3. k \in 1 .. Len(applied[i]) /\ k \in 1 .. Len(applied[j]) /\ Len(applied[i]) \in Nat
  BY Zenon, <1>2, SequenceFacts
<1>4. k \in Nat
  BY <1>3
<1>5. Decided(k, applied[i][k], T, W) /\ Decided(k, applied[j][k], T, W)
  BY Zenon, <1>1, <1>3 DEF History, AppliedDecided
<1>6. PICK u \in Nat, p \in Nat :
         k < p /\ Chosen(u, p, T, W) /\ T[u][k + 1].Command = applied[i][k]
  BY Zenon, <1>5 DEF Decided
<1>7. PICK v \in Nat, q \in Nat :
         k < q /\ Chosen(v, q, T, W) /\ T[v][k + 1].Command = applied[j][k]
  BY Zenon, <1>5 DEF Decided
<1>8. T[u][k + 1] = T[v][k + 1]
  <2>1. k < p /\ k < q /\ Chosen(u, p, T, W) /\ Chosen(v, q, T, W)
    BY Zenon, <1>6, <1>7
  <2> QED
    BY <1>1, <1>4, <2>1, ChosenAgree
<1> QED
  BY Zenon, <1>6, <1>7, <1>8

\* The messages in applyCh are numbered from the last applied one.
LEMMA SafetyInvApplyInOrder == SafetyInv => ApplyInOrder
<1> SUFFICES ASSUME SafetyInv, NEW i \in Servers, applyCh[i] # <<>>
             PROVE  Head(applyCh[i]).Index = Len(applied[i]) + 1
  BY Zenon DEF ApplyInOrder
<1>1. PICK T \in LeaderLogs, W \in Leaderships : History(T, W)
  BY Zenon DEF SafetyInv
<1>2. applyCh[i] \in Seq(ApplyMsgs)
  BY Zenon DEF SafetyInv, ElectionInv, TypeOK, ApplyType
<1>3. Head(applyCh[i]) = applyCh[i][1] /\ Len(applyCh[i]) \in Nat /\ Len(applyCh[i]) >= 1
  BY <1>2
<1>4. 1 \in 1 .. Len(applyCh[i])
  BY <1>3
<1> QED
  BY Zenon, <1>1, <1>3, <1>4 DEF History, AppliedDecided

\* What a step does to what peer i knows to be committed: the entries stay in
\* its log, and its commit index goes back only if it restarts.
KeepsCommitted(i) ==
    /\ Agree(Log'[i], Log[i], commitIndex[i] + 1)
    /\ commitIndex'[i] >= commitIndex[i] \/ Restart(i)

\* The committed entries are in the log.
LEMMA CommittedInLog ==
    ASSUME NEW T \in LeaderLogs, NEW W \in Leaderships, History(T, W), ElectionInv,
           NEW i \in Servers
    PROVE  /\ commitIndex[i] \in Nat /\ commitIndex[i] + 1 \in Nat
           /\ Agree(Log[i], Log[i], commitIndex[i] + 1)
<1>1. TypeOK
  BY Zenon DEF ElectionInv
<1>2. Settled(Log[i], commitIndex[i], CurrentTerm[i], T, W)
  BY Zenon DEF History, CommitsSettled
<1>3. CASE commitIndex[i] = 0
  <2>1. 0 \in Nat /\ 0 + 1 \in Nat /\ 0 + 1 <= Len(Log[i])
    <3>1. Len(Log[i]) \in Nat /\ Len(Log[i]) >= 1
      BY Zenon, <1>1, LogFacts
    <3> QED
      BY <3>1
  <2> QED
    BY Zenon, <1>3, <2>1 DEF Agree
<1>4. CASE commitIndex[i] # 0
  <2>1. PICK u \in Nat : commitIndex[i] \in Nat /\ Agree(Log[i], T[u], commitIndex[i] + 1)
    BY Zenon, <1>2, <1>4 DEF Settled
  <2>2. commitIndex[i] + 1 \in Nat
    BY <2>1
  <2> QED
    BY Zenon, <2>1, <2>2, AgreeSym, AgreeSame
<1> QED
  BY Zenon, <1>3, <1>4

\* A step that leaves a peer's log and commit index alone.
LEMMA KeptUnchanged ==
    ASSUME NEW T \in LeaderLogs, NEW W \in Leaderships, History(T, W), ElectionInv,
           NEW i \in Servers, Log'[i] = Log[i], commitIndex'[i] = commitIndex[i]
    PROVE  KeepsCommitted(i)
<1>1. PICK c \in Nat : c = commitIndex[i]
  BY Zenon, CommittedInLog
<1>2. c >= c
  OBVIOUS
<1> QED
  BY Zenon, <1>1, <1>2, CommittedInLog DEF KeepsCommitted

\* Start only appends.
LEMMA StartKeeps ==
    ASSUME NEW T \in LeaderLogs, NEW W \in Leaderships, History(T, W), ElectionInv,
           NEW i \in Servers, NEW command, Start(i, command), NEW k \in Servers
    PROVE  KeepsCommitted(k)
<1>1. Log \in [Servers -> Seq(Entries) \ {<<>>}] /\ commitIndex' = commitIndex
  BY Zenon DEF ElectionInv, TypeOK, LogType, Start
<1>2. PICK L \in Seq(Entries), e \in {[Term |-> CurrentTerm[i], Command |-> command]} :
         L = Log[i] /\ Log' = [Log EXCEPT ![i] = Append(L, e)]
  BY Zenon, <1>1 DEF Start
<1>3. CASE k # i
  BY Zenon, <1>1, <1>2, <1>3, KeptUnchanged
<1>4. CASE k = i
  <2>1. PICK c \in Nat : c = commitIndex[i]
    BY Zenon, CommittedInLog
  <2>2. Agree(L, L, c + 1)
    BY Zenon, <1>2, <2>1, CommittedInLog
  <2>3. Agree(Append(L, e), L, c + 1)
    <3>1. c + 1 <= Len(L) /\ Len(L) \in Nat
      BY Zenon, <2>2, SequenceFacts DEF Agree
    <3>2. Len(Append(L, e)) = Len(L) + 1
      OBVIOUS
    <3>3. \A q \in 1 .. c + 1 : Append(L, e)[q] = L[q]
      BY <3>1
    <3>4. c + 1 <= Len(Append(L, e))
      BY <3>1, <3>2
    <3> QED
      BY Zenon, <3>1, <3>3, <3>4 DEF Agree
  <2>4. Log'[i] = Append(L, e) /\ commitIndex'[i] = c
    BY Zenon, <1>1, <1>2, <2>1
  <2>5. c >= c
    OBVIOUS
  <2> QED
    BY Zenon, <1>2, <1>4, <2>1, <2>3, <2>4, <2>5 DEF KeepsCommitted
<1> QED
  BY Zenon, <1>3, <1>4

\* AppendEntries truncates the log only where it differs from the leader's,
\* which has all that is committed.
LEMMA AppendEntriesKeeps ==
    ASSUME SetFacts,
           NEW T \in LeaderLogs, NEW W \in Leaderships, History(T, W), ElectionInv,
           NEW m \in aeArgs, AppendEntries(m.To, m), NEW k \in Servers
    PROVE  KeepsCommitted(k)
<1> DEFINE j == m.To
<1>1. /\ TypeOK /\ AppendEntriesType /\ Log \in [Servers -> Seq(Entries) \ {<<>>}]
      /\ CurrentTerm \in [Servers -> Nat] /\ commitIndex \in [Servers -> Int]
  BY Zenon DEF ElectionInv, TypeOK, TermType, LogType, RoleType
<1>2. /\ m.Term \in Nat /\ m.To \in Servers /\ m.From \in Servers /\ m.PrevLogIndex \in Int
      /\ m.LeaderCommit \in Int /\ Len(m.Entries) \in Nat
  BY Zenon, <1>1, CallFacts
<1>3. lastIncludedIndex[j] = 0 /\ lastIncludedTerm[j] = NoTerm
  BY Zenon, <1>2 DEF ElectionInv, NoSnapshots
<1>4. CASE ~matchPrevLog(Log[j], 0, NoTerm, m.PrevLogIndex, m.PrevLogTerm)
  <2>1. Log' = Log /\ commitIndex' = commitIndex
    BY Zenon, <1>3, <1>4 DEF AppendEntries
  <2> QED
    BY Zenon, <2>1, KeptUnchanged
<1>5. CASE matchPrevLog(Log[j], 0, NoTerm, m.PrevLogIndex, m.PrevLogTerm)
  <2>1. /\ Log' = [Log EXCEPT ![j] = AppendNew(Log[j], 0, m.PrevLogIndex, m.Entries)]
        /\ commitIndex' = [commitIndex EXCEPT ![j] =
              FollowerCommitIndex(j, m.LeaderCommit, m.PrevLogIndex + Len(m.Entries))]
    BY Zenon, <1>2, <1>3, <1>5 DEF AppendEntries
  <2>2. CASE k # j
    BY Zenon, <1>1, <2>1, <2>2, KeptUnchanged
  <2>3. CASE k = j
    <3>1. PICK t \in Nat, v \in Nat, c \in Nat, lc \in Int, d \in Int :
             /\ t = m.Term /\ v = CurrentTerm[j] /\ c = commitIndex[j] /\ lc = m.LeaderCommit
             /\ d = m.PrevLogIndex + Len(m.Entries)
      <4>1. m.PrevLogIndex + Len(m.Entries) \in Int
        BY <1>2
      <4> QED
        BY Zenon, <1>1, <1>2, <4>1, CommittedInLog
    <3>2. PICK L \in Seq(Entries), N \in {AppendNew(Log[j], 0, m.PrevLogIndex, m.Entries)} :
             L = Log[j] /\ N = AppendNew(L, 0, m.PrevLogIndex, m.Entries)
      BY Zenon, <1>1, <1>2
    <3>3. v <= t /\ W[t] # Nobody /\ lc <= d
      <4>1. t >= v
        BY Zenon, <3>1 DEF AppendEntries
      <4>2. v <= t
        BY <4>1
      <4> QED
        BY Zenon, <1>2, <3>1, <4>2, ServersAssumption DEF History, CallsCarryLogs, Carries
    <3>4. Agree(N, L, c + 1)
      <4>1. PICK M, n : M = T[m.Term] /\ n = m.PrevLogIndex + Len(m.Entries) + 1
        BY Zenon
      <4>2. Merged(L, M, N, m.PrevLogIndex + Len(m.Entries) + 1)
        <5>1. L = Log[m.To] /\ matchPrevLog(L, 0, NoTerm, m.PrevLogIndex, m.PrevLogTerm)
          BY Zenon, <1>5, <3>2
        <5> QED
          BY Zenon, <3>2, <4>1, <5>1, AppendMatch
      <4>3. /\ Agree(N, M, n)
            /\ \A q \in Nat : Agree(L, M, q) => Agree(N, M, q)
        BY Zenon, <4>1, <4>2 DEF Merged
      <4>4. CASE c # 0
        <5>1. Settled(L, c, v, T, W)
          BY Zenon, <1>2, <3>1, <3>2 DEF History, CommitsSettled
        <5>2. c + 1 \in Nat /\ Agree(L, T[t], c + 1)
          BY Zenon, <3>3, <4>4, <5>1, SettledKept
        <5>3. Agree(L, M, c + 1) /\ Agree(N, M, c + 1)
          BY Zenon, <3>1, <4>1, <4>3, <5>2
        <5> QED
          BY Zenon, <5>3, AgreeSym, AgreeSame
      <4>5. CASE c = 0
        <5>1. L[1] = Dummy(0) /\ M[1] = Dummy(0) /\ Len(L) >= 1 /\ Len(M) >= 1
          BY Zenon, <1>1, <1>2, <3>2, <4>1, LogFacts, LeaderLogFacts
             DEF History, LogsBacked, Backed
        <5>2. 1 \in Nat /\ c + 1 = 1 /\ \A q \in 1 .. 1 : q = 1
          BY <4>5
        <5>3. Agree(L, M, 1)
          BY Zenon, <5>1, <5>2 DEF Agree
        <5>4. Agree(N, M, 1) /\ Agree(M, L, 1)
          BY Zenon, <4>3, <5>2, <5>3, AgreeSym
        <5>5. Agree(N, L, 1)
          BY Zenon, <5>4, AgreeSame
        <5> QED
          BY Zenon, <5>2, <5>5
      <4> QED
        BY Zenon, <4>4, <4>5
    <3>5. Log'[j] = N /\ commitIndex'[j] = FollowerCommitIndex(j, lc, d)
      BY Zenon, <1>1, <1>2, <2>1, <3>1, <3>2
    <3>6. FollowerCommitIndex(j, lc, d) >= c
      BY <3>1, <3>3 DEF FollowerCommitIndex
    <3> QED
      BY Zenon, <2>3, <3>1, <3>2, <3>4, <3>5, <3>6 DEF KeepsCommitted
  <2> QED
    BY Zenon, <2>2, <2>3
<1> QED
  BY Zenon, <1>4, <1>5

\* updateLeaderCommitIndex only moves forward.
LEMMA HandleSendAppendEntriesKeeps ==
    ASSUME SetFacts,
           NEW T \in LeaderLogs, NEW W \in Leaderships, History(T, W), ElectionInv,
           NEW r \in aeReplies, handleSendAppendEntries(r.To, r), NEW k \in Servers
    PROVE  KeepsCommitted(k)
<1> DEFINE i == r.To
<1>1. TypeOK /\ i \in Servers /\ commitIndex \in [Servers -> Int]
  BY Zenon, AppendEntriesRepliesFacts DEF ElectionInv, TypeOK, RoleType
<1>2. Log' = Log
  BY Zenon DEF handleSendAppendEntries, stepDown, logVars
<1>3. \/ commitIndex' = commitIndex
      \/ commitIndex' = [commitIndex EXCEPT ![i] = LeaderCommitIndex(i, matchIndex'[i])]
  BY Zenon DEF handleSendAppendEntries
<1>4. CASE commitIndex'[k] = commitIndex[k]
  BY Zenon, <1>2, <1>4, KeptUnchanged
<1>5. CASE commitIndex'[k] # commitIndex[k]
  <2>1. k = i /\ commitIndex'[i] = LeaderCommitIndex(i, matchIndex'[i])
    BY Zenon, <1>1, <1>3, <1>5
  <2>2. commitIndex'[i] \in Committable(i, matchIndex'[i])
    BY Zenon, <1>1, <1>5, <2>1, LeaderCommitIndexFrom
  <2>3. PICK c \in Nat, n \in {commitIndex'[i]} : c = commitIndex[i] /\ n = commitIndex'[i]
    BY Zenon, <1>1, CommittedInLog
  <2>4. n \in c + 1 .. LastIndex(i)
    BY Zenon, <2>2, <2>3 DEF Committable
  <2>5. LastIndex(i) \in Int
    <3>1. Len(Log[i]) \in Nat /\ lastIncludedIndex[i] \in Nat
      BY Zenon, <1>1, LogFacts DEF TypeOK, LogType
    <3> QED
      BY <3>1 DEF LastIndex, lastLogIndex
  <2>6. n >= c
    BY <2>4, <2>5
  <2>7. Agree(Log[i], Log[i], c + 1)
    BY Zenon, <1>1, <2>3, CommittedInLog
  <2> QED
    BY Zenon, <1>2, <2>1, <2>3, <2>6, <2>7 DEF KeepsCommitted
<1> QED
  BY Zenon, <1>4, <1>5

=============================================================================
