----------------------------- MODULE RaftProofs -----------------------------
(***************************************************************************)
(* Proofs about Raft, RaftElection and the log operators of RaftLog, for   *)
(* every set of peers: what the operators return for every log, every step *)
(* preserves the types, what a peer must remember is on its disk, terms    *)
(* grow, a peer votes once in a term, and a term has at most one leader.   *)
(***************************************************************************)
EXTENDS RaftElection, WellFoundedInduction, FiniteSetTheorems, TLAPS

-----------------------------------------------------------------------------
(***************************************************************************)
(* Sequences.                                                              *)
(***************************************************************************)

\* The length and the elements of a sequence.
LEMMA SeqFacts ==
    ASSUME NEW S, NEW q \in Seq(S)
    PROVE  /\ Len(q) \in Nat /\ DOMAIN q = 1 .. Len(q) /\ q \in [1 .. Len(q) -> S]
           /\ \A k \in 1 .. Len(q) : q[k] \in S
           /\ q # <<>> <=> Len(q) >= 1
  OBVIOUS

\* A function on 1 .. n is a sequence.
LEMMA FcnIsSeq ==
    ASSUME NEW S, NEW n \in Nat, NEW f \in [1 .. n -> S]
    PROVE  f \in Seq(S) /\ Len(f) = n
  OBVIOUS

\* A segment of a sequence.
LEMMA SegmentFacts ==
    ASSUME NEW S, NEW q \in Seq(S), NEW m \in Nat \ {0}, NEW n \in Int, n <= Len(q)
    PROVE  /\ SubSeq(q, m, n) \in Seq(S)
           /\ Len(SubSeq(q, m, n)) = IF m <= n THEN n - m + 1 ELSE 0
           /\ \A k \in 1 .. n - m + 1 : SubSeq(q, m, n)[k] = q[m + k - 1]
  OBVIOUS

\* Two sequences one after the other.
LEMMA ConcatFacts ==
    ASSUME NEW S, NEW q \in Seq(S), NEW r \in Seq(S)
    PROVE  /\ q \o r \in Seq(S) /\ Len(q \o r) = Len(q) + Len(r)
           /\ \A k \in 1 .. Len(q) : (q \o r)[k] = q[k]
           /\ \A k \in 1 .. Len(r) : (q \o r)[Len(q) + k] = r[k]
           /\ q # <<>> => q \o r # <<>>
  OBVIOUS

\* A sequence with one more element.
LEMMA AppendFacts ==
    ASSUME NEW S, NEW q \in Seq(S), NEW e \in S
    PROVE  /\ Append(q, e) \in Seq(S) /\ Append(q, e) # <<>> /\ Len(Append(q, e)) = Len(q) + 1
           /\ \A k \in 1 .. Len(q) : Append(q, e)[k] = q[k]
           /\ Append(q, e)[Len(q) + 1] = e
  OBVIOUS

\* A sequence without its first element.
LEMMA HeadTailFacts ==
    ASSUME NEW S, NEW q \in Seq(S), q # <<>>
    PROVE  /\ Head(q) \in S /\ Head(q) = q[1] /\ Tail(q) \in Seq(S)
           /\ Len(Tail(q)) = Len(q) - 1
           /\ \A k \in 1 .. Len(q) - 1 : Tail(q)[k] = q[k + 1]
  OBVIOUS

-----------------------------------------------------------------------------
(***************************************************************************)
(* Sets of integers.                                                       *)
(***************************************************************************)

\* A set of integers that is bounded below has a least element: the scans of
\* raft.go that walk to the first index with some property find one.
LEMMA LeastExists ==
    ASSUME NEW S \in SUBSET Int, NEW b \in Int, \A n \in S : b <= n, S # {}
    PROVE  \E m \in S : \A n \in S : m <= n
<1> DEFINE T == {n \in Nat : b + n \in S}
<1>1. T \subseteq Nat /\ T # {}
  <2>1. PICK n \in S : TRUE
    BY Zenon
  <2>2. n - b \in T
    BY <2>1
  <2> QED
    BY Zenon, <2>2
<1>2. \E x \in T : \A y \in T : ~(<<y, x>> \in OpToRel(<, Nat))
  BY Zenon, <1>1, NatLessThanWellFounded, WFMin
<1>3. PICK x \in T : \A y \in T : ~(<<y, x>> \in OpToRel(<, Nat))
  BY Zenon, <1>2
<1>4. \A y \in T : x <= y
  <2>1. SUFFICES ASSUME NEW y \in T, y < x PROVE FALSE
    OBVIOUS
  <2>2. <<y, x>> \in OpToRel(<, Nat)
    <3>1. <<y, x>> \in Nat \X Nat /\ <<y, x>>[1] < <<y, x>>[2]
      BY Zenon, <2>1
    <3> QED
      BY <3>1, Zenon DEF OpToRel
  <2> QED
    BY Zenon, <1>3, <2>2
<1>5. b + x \in S /\ \A n \in S : b + x <= n
  <2>1. ASSUME NEW n \in S PROVE b + x <= n
    <3>1. n - b \in T
      OBVIOUS
    <3> QED
      BY <1>4, <3>1
  <2> QED
    BY Zenon, <2>1
<1> QED
  BY Zenon, <1>5

\* A set of integers that is bounded above has a greatest element.
LEMMA GreatestExists ==
    ASSUME NEW S \in SUBSET Int, NEW b \in Int, \A n \in S : n <= b, S # {}
    PROVE  \E m \in S : \A n \in S : n <= m
<1> DEFINE T == {n \in Int : -n \in S}
<1>1. T \in SUBSET Int /\ \A n \in T : -b <= n
  OBVIOUS
<1>2. T # {}
  <2>1. PICK n \in S : TRUE
    BY Zenon
  <2>2. -n \in T
    BY <2>1
  <2> QED
    BY Zenon, <2>2
<1>3. PICK m \in T : \A n \in T : m <= n
  <2>1. -b \in Int
    OBVIOUS
  <2> HIDE DEF T
  <2> QED
    BY Zenon, <1>1, <1>2, <2>1, LeastExists
<1>4. -m \in S /\ \A n \in S : n <= -m
  <2>1. ASSUME NEW n \in S PROVE n <= -m
    <3>1. -n \in T
      OBVIOUS
    <3> QED
      BY <1>3, <3>1
  <2> QED
    BY Zenon, <2>1
<1> QED
  BY Zenon, <1>4
-----------------------------------------------------------------------------
(***************************************************************************)
(* The types of what the operators return.  E is the set of log entries.   *)
(***************************************************************************)

\* termAt is an integer for any index, in the log or not.
LEMMA TermAtType ==
    ASSUME NEW E, \A e \in E : e.Term \in Int, NEW log \in Seq(E), NEW p \in Int
    PROVE  termAtPhysical(log, p) \in Int
<1>1. CASE p < 0 \/ p >= Len(log)
  BY <1>1 DEF termAtPhysical, NoTerm
<1>2. CASE ~(p < 0 \/ p >= Len(log))
  <2>1. p + 1 \in 1 .. Len(log)
    BY <1>2, SeqFacts
  <2>2. log[p + 1] \in E
    BY Zenon, <2>1, SeqFacts
  <2> QED
    BY Zenon, <1>2, <2>2 DEF termAtPhysical
<1> QED
  BY Zenon, <1>1, <1>2

\* The last index and term of a log, and a leader's PrevLogTerm, are integers.
LEMMA LastLogType ==
    ASSUME NEW E, \A e \in E : e.Term \in Int, NEW log \in Seq(E),
           NEW lii \in Int, NEW lit \in Int, NEW prev \in Int
    PROVE  /\ lastLogIndex(log, lii) \in Int
           /\ lastLogIndexTerm(log, lit) \in Int
           /\ termAt(log, lii, prev) \in Int
           /\ getPrevLogTerm(log, lii, lit, prev) \in Int
<1>1. Len(log) \in Nat
  BY Zenon, SeqFacts
<1>2. Len(log) > 1 => log[Len(log)].Term \in Int
  BY <1>1, SeqFacts
<1>3. prev - lii \in Int
  OBVIOUS
<1>4. termAt(log, lii, prev) \in Int
  BY Zenon, <1>3, TermAtType DEF termAt, toPhysicalIndex
<1> QED
  BY <1>1, <1>2, <1>4 DEF lastLogIndex, lastLogIndexTerm, getPrevLogTerm

\* The scan for the start of a run of equal terms ends at an index of the
\* log, or right after prev when prev is not past the snapshot.
LEMMA FirstIndexOfRunType ==
    ASSUME NEW log, NEW lii \in Int, NEW prev \in Int
    PROVE  /\ FirstIndexOfRun(log, lii, prev) \in Int
           /\ prev > lii => FirstIndexOfRun(log, lii, prev) \in lii + 1 .. prev
<1> DEFINE inRun(k) == \A l \in k .. prev :
                           termAt(log, lii, l) = termAt(log, lii, prev)
           S == {k \in lii + 1 .. prev : inRun(k)}
<1>1. CASE prev <= lii
  BY <1>1 DEF FirstIndexOfRun
<1>2. CASE prev > lii
  <2>1. prev \in S
    BY <1>2
  <2>2. S \in SUBSET Int /\ lii + 1 \in Int /\ \A n \in S : lii + 1 <= n
    OBVIOUS
  <2>3. PICK m \in S : \A n \in S : m <= n
    <3> HIDE DEF S
    <3> QED
      BY Zenon, <2>1, <2>2, LeastExists
  <2>4. m > lii + 1 => ~inRun(m - 1)
    <3>1. SUFFICES ASSUME m > lii + 1, inRun(m - 1) PROVE FALSE
      BY Zenon
    <3>2. m - 1 \in S
      BY <3>1
    <3> QED
      BY <2>3, <3>2
  <2>5. \E k \in lii + 1 .. prev : inRun(k) /\ (k > lii + 1 => ~inRun(k - 1))
    BY Zenon, <2>3, <2>4
  <2>6. (CHOOSE k \in lii + 1 .. prev : inRun(k) /\ (k > lii + 1 => ~inRun(k - 1)))
          \in lii + 1 .. prev
    <3> HIDE DEF inRun
    <3> QED
      BY Zenon, <2>5
  <2> QED
    BY <1>2, <2>6 DEF FirstIndexOfRun
<1> QED
  BY <1>1, <1>2

\* A rejected AppendEntries is answered with integers.
LEMMA ConflictType ==
    ASSUME NEW E, \A e \in E : e.Term \in Int, NEW log \in Seq(E),
           NEW lii \in Int, NEW lit \in Int, NEW prev \in Int
    PROVE  Conflict(log, lii, lit, prev) \in [XTerm : Int, XIndex : Int, XLen : Int]
<1>1. lastLogIndex(log, lii) \in Int /\ termAt(log, lii, prev) \in Int
  BY Zenon, LastLogType
<1>2. FirstIndexOfRun(log, lii, prev) \in Int
  BY Zenon, FirstIndexOfRunType
<1> QED
  BY <1>1, <1>2 DEF Conflict

\* AppendEntries leaves a log of entries that still has its dummy.
LEMMA AppendNewType ==
    ASSUME NEW E, NEW log \in Seq(E) \ {<<>>}, NEW entries \in Seq(E),
           NEW lii \in Int, NEW prev \in Int
    PROVE  AppendNew(log, lii, prev, entries) \in Seq(E) \ {<<>>}
<1> DEFINE MW(k) == MustWrite(log, lii, prev, entries, k)
           S == {k \in 1 .. Len(entries) : MW(k)}
           first == CHOOSE k \in 1 .. Len(entries) :
                      MW(k) /\ \A l \in 1 .. k - 1 : ~MW(l)
           p == toPhysicalIndex(lii, prev + first)
           n == IF p < Len(log) THEN p ELSE Len(log)
<1>1. Len(log) \in Nat /\ Len(log) >= 1 /\ Len(entries) \in Nat
  BY Zenon, SeqFacts
<1>2. CASE S = {}
  BY Zenon, <1>2 DEF AppendNew
<1>3. CASE S # {}
  <2>1. S \in SUBSET Int /\ 1 \in Int /\ \A k \in S : 1 <= k
    BY <1>1
  <2>2. PICK m \in S : \A k \in S : m <= k
    <3> HIDE DEF S
    <3> QED
      BY Zenon, <1>3, <2>1, LeastExists
  <2>3. m \in 1 .. Len(entries) /\ MW(m) /\ \A l \in 1 .. m - 1 : ~MW(l)
    <3>1. ASSUME NEW l \in 1 .. m - 1, MW(l) PROVE FALSE
      <4>1. l \in S
        BY <1>1, <3>1
      <4> QED
        BY <2>2, <4>1
    <3> QED
      BY Zenon, <3>1
  <2>4. first \in 1 .. Len(entries) /\ MW(first)
    <3> HIDE DEF MW
    <3> QED
      BY Zenon, <2>3
  <2> HIDE DEF first
  <2>5. p \in Int /\ p >= 1
    BY <2>4 DEF MustWrite, toPhysicalIndex
  <2>6. n \in 1 .. Len(log)
    BY <1>1, <2>5
  <2> HIDE DEF n
  <2>7. SubSeq(log, 1, n) \in Seq(E) /\ Len(SubSeq(log, 1, n)) = n
    <3>1. \A k \in 1 .. n : log[k] \in E
      BY <1>1, <2>6, SeqFacts
    <3> QED
      BY <2>6, <3>1, SegmentFacts
  <2>8. SubSeq(entries, first, Len(entries)) \in Seq(E)
    <3>1. \A k \in first .. Len(entries) : entries[k] \in E
      BY <1>1, <2>4, SeqFacts
    <3> QED
      BY <1>1, <2>4, <3>1, SegmentFacts
  <2>9. AppendNew(log, lii, prev, entries)
          = SubSeq(log, 1, n) \o SubSeq(entries, first, Len(entries))
    BY Zenon, <1>3 DEF AppendNew, n, first
  <2>10. SubSeq(log, 1, n) \o SubSeq(entries, first, Len(entries)) \in Seq(E)
    BY Zenon, <2>7, <2>8, ConcatFacts
  <2>11. SubSeq(log, 1, n) # <<>>
    BY <2>6, <2>7, SeqFacts
  <2> QED
    BY Zenon, <2>7, <2>8, <2>9, <2>10, <2>11, ConcatFacts
<1> QED
  BY Zenon, <1>2, <1>3

\* The leader's next guess for a peer's nextIndex is an integer.
LEMMA BacktrackType ==
    ASSUME NEW log, Len(log) \in Nat, NEW lii \in Int, NEW lit,
           NEW x \in [XTerm : Int, XIndex : Int, XLen : Int]
    PROVE  Backtrack(log, lii, lit, x) \in Int
<1> DEFINE hits == {p \in 1 .. Len(log) - 1 : termAtPhysical(log, p) = x.XTerm}
<1>1. hits \in SUBSET Int /\ \A p \in hits : p <= Len(log) - 1
  OBVIOUS
<1>2. hits # {} => (CHOOSE p \in hits : \A q \in hits : q <= p) \in Int
  <2> HIDE DEF hits
  <2>1. Len(log) - 1 \in Int
    OBVIOUS
  <2>2. hits # {} => \E p \in hits : \A q \in hits : q <= p
    BY Zenon, <1>1, <2>1, GreatestExists
  <2> QED
    BY Zenon, <1>1, <2>2
<1>3. findLastIndexOfTerm(log, lii, lit, x.XTerm) \in Int
  <2> DEFINE last == CHOOSE p \in hits : \A q \in hits : q <= p
  <2>1. findLastIndexOfTerm(log, lii, lit, x.XTerm)
          = IF hits # {} THEN lii + last ELSE IF x.XTerm = lit THEN lii ELSE -1
    BY Zenon DEF findLastIndexOfTerm
  <2>2. hits # {} => last \in Int
    BY Zenon, <1>2
  <2> HIDE DEF hits, last
  <2> QED
    BY <2>1, <2>2
<1> QED
  BY <1>3 DEF Backtrack

\* Snapshot and InstallSnapshot leave a log of entries with a dummy.
LEMMA CompactType ==
    ASSUME NEW E, \A e \in E : e.Term \in Int, NEW log \in Seq(E) \ {<<>>},
           NEW lii \in Int, NEW lit \in Int, NEW index \in Int,
           NEW term, Dummy(0) \in E, Dummy(term) \in E, lii < index
    PROVE  /\ CompactLog(log, lii, index) \in Seq(E) \ {<<>>}
           /\ CompactTerm(log, lii, lit, index) \in Int
           /\ InstalledLog(log, lii, index, term) \in Seq(E) \ {<<>>}
<1> DEFINE p == toPhysicalIndex(lii, index)
           tail == SubSeq(log, p + 2, Len(log))
<1>1. p \in Int /\ p > 0 /\ Len(log) \in Nat
  BY SeqFacts DEF toPhysicalIndex
<1> HIDE DEF p
<1>2. tail \in Seq(E)
  <2>1. \A k \in p + 2 .. Len(log) : log[k] \in E
    BY <1>1, SeqFacts
  <2> QED
    BY <1>1, <2>1, SegmentFacts
<1>3. ASSUME NEW e \in E PROVE <<e>> \o tail \in Seq(E) \ {<<>>} /\ <<e>> \in Seq(E) \ {<<>>}
  <2>1. <<e>> \in Seq(E) /\ <<e>> # <<>>
    OBVIOUS
  <2> QED
    BY Zenon, <1>2, <2>1, ConcatFacts
<1>4. CompactTerm(log, lii, lit, index) \in Int
  <2>1. termAtPhysical(log, p) \in Int
    BY Zenon, <1>1, TermAtType
  <2>2. termAtPhysical(log, Len(log) - 1) \in Int
    BY <1>1, TermAtType
  <2> QED
    BY Zenon, <2>1, <2>2 DEF CompactTerm, p
<1> QED
  BY Zenon, <1>3, <1>4 DEF CompactLog, InstalledLog, p


-----------------------------------------------------------------------------
(***************************************************************************)
(* Backtracking between logs that were never compacted (lii = 0).          *)
(***************************************************************************)

\* What a follower reports of a conflict: the length of its log, or that the
\* leader's PrevLogIndex is 0, or an index past 0.
LEMMA ConflictUncompacted ==
    ASSUME NEW E, NEW log \in Seq(E) \ {<<>>}, NEW prev \in Int, prev >= 0
    PROVE  LET c == Conflict(log, 0, NoTerm, prev)
           IN  /\ c.XLen >= 0
               /\ c.XLen = 0 => c.XTerm = NoTerm \/ c.XIndex >= 1
<1>1. Len(log) \in Nat /\ Len(log) >= 1
  BY Zenon, SeqFacts
<1>2. lastLogIndex(log, 0) = Len(log) - 1
  BY <1>1 DEF lastLogIndex
<1>3. prev > 0 => FirstIndexOfRun(log, 0, prev) \in 0 + 1 .. prev
  BY FirstIndexOfRunType
<1> QED
  BY <1>1, <1>2, <1>3 DEF Conflict

\* From such a report the leader's next guess is an index it may send from.
LEMMA BacktrackUncompacted ==
    ASSUME NEW log, Len(log) \in Nat, NEW x \in [XTerm : Int, XIndex : Int, XLen : Int],
           x.XLen >= 0, x.XLen = 0 => x.XTerm = NoTerm \/ x.XIndex >= 1
    PROVE  Backtrack(log, 0, NoTerm, x) >= 1
<1> DEFINE hits == {p \in 1 .. Len(log) - 1 : termAtPhysical(log, p) = x.XTerm}
           last == CHOOSE p \in hits : \A q \in hits : q <= p
<1>1. hits \in SUBSET Int /\ \A p \in hits : p >= 1 /\ p <= Len(log) - 1
  OBVIOUS
<1>2. hits # {} => last \in Int /\ last >= 1
  <2> HIDE DEF hits
  <2>1. Len(log) - 1 \in Int
    OBVIOUS
  <2>2. hits # {} => \E p \in hits : \A q \in hits : q <= p
    BY Zenon, <1>1, <2>1, GreatestExists
  <2> QED
    BY Zenon, <1>1, <2>2
<1>3. findLastIndexOfTerm(log, 0, NoTerm, x.XTerm)
        = IF hits # {} THEN 0 + last ELSE IF x.XTerm = NoTerm THEN 0 ELSE -1
  BY Zenon DEF findLastIndexOfTerm
<1> HIDE DEF last, hits
<1> QED
  BY <1>2, <1>3 DEF Backtrack

-----------------------------------------------------------------------------
(***************************************************************************)
(* The steps that elect a leader and replicate its log keep the types.     *)
(***************************************************************************)

\* What the provers need to know of an entry: its term is an integer, and
\* the dummy of any term is an entry.
LEMMA EntryFacts ==
    /\ \A e \in Entries : e.Term \in Int /\ e.Command \in Commands \cup {NoCommand}
    /\ \A t \in Int : Dummy(t) \in Entries
    /\ \A t \in Int, c \in Commands : [Term |-> t, Command |-> c] \in Entries
BY Zenon DEF Entries, Dummy

\* The initial state has the right types.
LEMMA InitTypeOK == Init => TypeOK
<1> SUFFICES ASSUME Init PROVE TypeOK
  BY Zenon
<1>1. <<Dummy(0)>> \in Seq(Entries) \ {<<>>}
  <2>1. Dummy(0) \in Entries
    BY EntryFacts
  <2> QED
    BY <2>1
<1>2. <<>> \in States /\ <<>> \in Seq(ApplyMsgs)
  BY DEF States
<1>3. NoTerm \in Int
  BY DEF NoTerm
<1>4. TermType /\ LogType
  BY Zenon, <1>1, <1>2, <1>3 DEF Init, TermType, LogType
<1>5. persister \in [Servers -> SavedStates]
  BY Zenon, <1>4 DEF Init, RaftState, SavedStates, TermType, LogType
<1>6. RoleType /\ LeaderType /\ ApplyType
  BY <1>2 DEF Init, RoleType, LeaderType, ApplyType
<1> QED
  BY Zenon, <1>4, <1>5, <1>6
  DEF Init, TypeOK, RequestVoteType, AppendEntriesType, InstallSnapshotType

\* A group of variables that a step leaves alone keeps its type.
LEMMA UnchangedType ==
    ASSUME TypeOK
    PROVE  /\ UNCHANGED termVars => TermType'
           /\ UNCHANGED logVars => LogType'
           /\ UNCHANGED <<status, votes, commitIndex, isReplicating>> => RoleType'
           /\ UNCHANGED leaderVars => LeaderType'
           /\ UNCHANGED applyVars => ApplyType'
           /\ UNCHANGED rvVars => RequestVoteType'
           /\ UNCHANGED aeVars => AppendEntriesType'
           /\ UNCHANGED isVars => InstallSnapshotType'
BY Zenon DEF TypeOK, TermType, LogType, RoleType, LeaderType, ApplyType, RequestVoteType,
       AppendEntriesType, InstallSnapshotType, termVars, logVars, leaderVars, applyVars,
       rvVars, aeVars, isVars

\* persist() writes a record of the right type.
LEMMA PersistType ==
    ASSUME NEW i \in Servers, persister \in [Servers -> SavedStates],
           TermType', LogType', persist(i)
    PROVE  persister' \in [Servers -> SavedStates]
<1>1. RaftState(i)' \in SavedStates
  BY Zenon DEF RaftState, SavedStates, TermType, LogType
<1> QED
  BY Zenon, <1>1 DEF persist

\* The last index and term of a peer's log are integers.
LEMMA LastType ==
    ASSUME LogType, NEW i \in Servers
    PROVE  LastIndex(i) \in Int /\ LastTerm(i) \in Int
<1>1. Log[i] \in Seq(Entries) /\ lastIncludedIndex[i] \in Int /\ lastIncludedTerm[i] \in Int
  BY DEF LogType
<1>2. 0 \in Int
  OBVIOUS
<1> QED
  BY Zenon, <1>1, <1>2, EntryFacts, LastLogType DEF LastIndex, LastTerm

\* startElection() keeps the types.
LEMMA StartElectionType ==
    ASSUME TypeOK, NEW i \in Servers, startElection(i) PROVE TypeOK'
<1>1. TermType'
  BY DEF TypeOK, TermType, startElection
<1>2. LogType' /\ LeaderType' /\ ApplyType' /\ AppendEntriesType' /\ InstallSnapshotType'
  BY Zenon, UnchangedType DEF startElection
<1>3. persister' \in [Servers -> SavedStates]
  BY Zenon, <1>1, <1>2, PersistType DEF TypeOK, startElection
<1>4. RoleType'
  BY Zenon DEF TypeOK, RoleType, startElection
<1>5. RequestVoteType'
  <2>1. LastIndex(i) \in Int /\ LastTerm(i) \in Int
    BY Zenon, LastType DEF TypeOK
  <2>2. CurrentTerm[i] + 1 \in Nat
    BY DEF TypeOK, TermType
  <2> QED
    BY <2>1, <2>2
    DEF TypeOK, RequestVoteType, RequestVoteArgs, startElection, Peers, rvVars
<1> QED
  BY Zenon, <1>1, <1>2, <1>3, <1>4, <1>5 DEF TypeOK
\* stepDown() keeps the types of what it changes.
LEMMA StepDownType ==
    ASSUME TypeOK, NEW i \in Servers, NEW term \in Nat, stepDown(i, term),
           UNCHANGED <<votes, commitIndex>>
    PROVE  TermType' /\ LogType' /\ persister' \in [Servers -> SavedStates] /\ RoleType'
<1>1. TermType'
  BY Zenon DEF TypeOK, TermType, stepDown, BecomeFollower
<1>2. LogType'
  BY Zenon, UnchangedType DEF stepDown
<1>3. persister' \in [Servers -> SavedStates]
  BY Zenon, <1>1, <1>2, PersistType DEF TypeOK, stepDown
<1>4. RoleType'
  BY Zenon DEF TypeOK, RoleType, stepDown, BecomeFollower
<1> QED
  BY Zenon, <1>1, <1>2, <1>3, <1>4

\* The RequestVote handler keeps the types.
LEMMA RequestVoteKeepsType ==
    ASSUME TypeOK, NEW m \in rvArgs, RequestVote(m.To, m) PROVE TypeOK'
<1> DEFINE j == m.To
<1>1. m \in RequestVoteArgs
  BY Zenon DEF TypeOK, RequestVoteType
<1>2. m.Term \in Nat /\ m.From \in Servers /\ j \in Servers
  BY Zenon, <1>1 DEF RequestVoteArgs
<1>3. VoteInTerm(j, m) \in Servers \cup {Nobody}
  BY Zenon, <1>2 DEF VoteInTerm, TypeOK, TermType
<1>4. TermType'
  BY Zenon, <1>2, <1>3 DEF TypeOK, TermType, RequestVote
<1>5. LogType' /\ LeaderType' /\ ApplyType' /\ AppendEntriesType' /\ InstallSnapshotType'
  BY Zenon, UnchangedType DEF RequestVote
<1>6. persister' \in [Servers -> SavedStates]
  BY Zenon, <1>2, <1>4, <1>5, PersistType DEF TypeOK, RequestVote
<1>7. RoleType'
  <2>1. status' \in {status, [status EXCEPT ![j] = "Follower"]}
    BY Zenon DEF RequestVote
  <2>2. isReplicating' \in
          {isReplicating, [isReplicating EXCEPT ![j] = [p \in Servers |-> FALSE]]}
    BY Zenon DEF RequestVote
  <2>3. UNCHANGED <<votes, commitIndex>>
    BY Zenon DEF RequestVote
  <2>4. [p \in Servers |-> FALSE] \in [Servers -> BOOLEAN]
    BY Zenon
  <2>5. isReplicating' \in [Servers -> [Servers -> BOOLEAN]]
    BY <1>2, <2>2, <2>4, Zenon DEF TypeOK, RoleType
  <2>6. status' \in [Servers -> {"Leader", "Candidate", "Follower"}]
    BY Zenon, <1>2, <2>1 DEF TypeOK, RoleType
  <2> QED
    BY Zenon, <2>3, <2>5, <2>6 DEF TypeOK, RoleType
<1>8. RequestVoteType'
  <2>1. CurrentTerm'[j] \in Nat
    BY Zenon, <1>2, <1>4 DEF TermType
  <2>2. GrantsVote(j, m) \in BOOLEAN
    BY Zenon DEF GrantsVote
  <2> QED
    BY <1>2, <2>1, <2>2
    DEF TypeOK, RequestVoteType, RequestVoteReplies, RequestVote
<1> QED
  BY Zenon, <1>4, <1>5, <1>6, <1>7, <1>8 DEF TypeOK

\* handleRequestVoteReply(), with becomeLeader(), keeps the types.
LEMMA RequestVoteReplyKeepsType ==
    ASSUME TypeOK, NEW r \in rvReplies, handleRequestVoteReply(r.To, r) PROVE TypeOK'
<1> DEFINE i == r.To
<1>1. r.ReplyTerm \in Nat /\ r.From \in Servers /\ i \in Servers
  BY Zenon DEF TypeOK, RequestVoteType, RequestVoteReplies
<1>2. ApplyType' /\ RequestVoteType' /\ AppendEntriesType' /\ InstallSnapshotType'
  BY Zenon, UnchangedType DEF handleRequestVoteReply
<1>3. CASE r.ReplyTerm > CurrentTerm[i]
  <2>1. stepDown(i, r.ReplyTerm) /\ UNCHANGED <<votes, commitIndex, leaderVars>>
    <3>1. CurrentTerm[i] \in Nat
      BY Zenon, <1>1 DEF TypeOK, TermType
    <3> QED
      BY <1>1, <1>3, <3>1 DEF handleRequestVoteReply
  <2>2. LeaderType'
    BY Zenon, <2>1, UnchangedType
  <2> QED
    BY Zenon, <1>1, <1>2, <2>1, <2>2, StepDownType DEF TypeOK
<1>4. CASE ~(r.ReplyTerm > CurrentTerm[i])
  <2>1. UNCHANGED <<termVars, logVars, persister, isReplicating, commitIndex>>
    BY Zenon, <1>4 DEF handleRequestVoteReply
  <2>2. TermType' /\ LogType' /\ persister' \in [Servers -> SavedStates]
    BY Zenon, <2>1, UnchangedType DEF TypeOK
  <2>3. /\ votes' = [votes EXCEPT ![i] = @ \cup {r.From}]
        /\ becomeLeader(i) \/ UNCHANGED <<status, leaderVars>>
    BY Zenon, <1>4 DEF handleRequestVoteReply
  <2>4. RoleType'
    <3>1. status' \in {status, [status EXCEPT ![i] = "Leader"]}
      BY Zenon, <2>3 DEF becomeLeader
    <3> QED
      BY <1>1, <2>1, <2>3, <3>1 DEF TypeOK, RoleType
  <2>5. LeaderType'
    <3>1. CASE UNCHANGED leaderVars
      BY Zenon, <3>1, UnchangedType
    <3>2. CASE becomeLeader(i)
      <4>1. Log[i] \in Seq(Entries) /\ lastIncludedIndex[i] \in Int
        BY <1>1 DEF TypeOK, LogType
      <4>2. Len(Log[i]) \in Int
        BY <4>1, SeqFacts
      <4>3. /\ [p \in Servers |-> lastIncludedIndex[i] + Len(Log[i])] \in [Servers -> Int]
            /\ [p \in Servers |-> lastIncludedIndex[i]] \in [Servers -> Int]
        BY <4>1, <4>2
      <4> QED
        BY <1>1, <3>2, <4>3, Zenon DEF TypeOK, LeaderType, becomeLeader
    <3> QED
      BY Zenon, <2>3, <3>1, <3>2
  <2> QED
    BY Zenon, <1>2, <2>2, <2>4, <2>5 DEF TypeOK
<1> QED
  BY Zenon, <1>3, <1>4

\* Start() keeps the types.
LEMMA StartKeepsType ==
    ASSUME TypeOK, NEW i \in Servers, NEW command \in Commands, Start(i, command)
    PROVE  TypeOK'
<1>1. /\ TermType' /\ LeaderType' /\ ApplyType' /\ RoleType'
      /\ RequestVoteType' /\ AppendEntriesType' /\ InstallSnapshotType'
  BY Zenon, UnchangedType DEF Start
<1>2. LogType'
  <2>1. [Term |-> CurrentTerm[i], Command |-> command] \in Entries
    BY EntryFacts DEF TypeOK, TermType
  <2>2. Append(Log[i], [Term |-> CurrentTerm[i], Command |-> command]) \in Seq(Entries) \ {<<>>}
    <3>1. Log[i] \in Seq(Entries)
      BY Zenon DEF TypeOK, LogType
    <3> QED
      BY <2>1, <3>1, AppendFacts
  <2> QED
    BY Zenon, <2>2 DEF TypeOK, LogType, Start
<1>3. persister' \in [Servers -> SavedStates]
  BY Zenon, <1>1, <1>2, PersistType DEF TypeOK, Start
<1> QED
  BY Zenon, <1>1, <1>2, <1>3 DEF TypeOK

\* heartbeatWorker() sends AppendEntries arguments of the right type.
LEMMA HeartbeatWorkerType ==
    ASSUME TypeOK, NEW i \in Servers, NEW p \in Peers(i), heartbeatWorker(i, p)
    PROVE  TypeOK'
<1>1. /\ TermType' /\ LogType' /\ persister' \in [Servers -> SavedStates]
      /\ RoleType' /\ LeaderType' /\ ApplyType'
      /\ RequestVoteType' /\ InstallSnapshotType'
  BY Zenon, UnchangedType DEF heartbeatWorker, TypeOK
<1> DEFINE next == nextIndex[i][p]
           physicalNext == toPhysicalIndex(lastIncludedIndex[i], next)
           prevTerm == getPrevLogTerm(Log[i], lastIncludedIndex[i], lastIncludedTerm[i], next - 1)
           tail == SubSeq(Log[i], physicalNext + 1, Len(Log[i]))
<1>2. p \in Servers /\ CurrentTerm[i] \in Nat /\ next \in Int /\ commitIndex[i] \in Int
  BY Zenon DEF TypeOK, TermType, LeaderType, RoleType, Peers
<1>3. Log[i] \in Seq(Entries) /\ lastIncludedIndex[i] \in Int /\ lastIncludedTerm[i] \in Int
  BY DEF TypeOK, LogType
<1>4. prevTerm \in Int
  <2>1. next - 1 \in Int
    BY <1>2
  <2> QED
    BY Zenon, <1>3, <2>1, EntryFacts, LastLogType
<1>5. tail \in Seq(Entries)
  <2>1. physicalNext \in 0 .. Len(Log[i])
    BY Zenon DEF heartbeatWorker
  <2>2. Len(Log[i]) \in Nat
    BY Zenon, <1>3, SeqFacts
  <2>3. \A k \in physicalNext + 1 .. Len(Log[i]) : Log[i][k] \in Entries
    BY <1>3, <2>1, <2>2, SeqFacts
  <2> HIDE DEF physicalNext
  <2> QED
    BY <2>1, <2>2, <2>3, SegmentFacts
<1>6. AppendEntriesType'
  <2> DEFINE args == [Term |-> CurrentTerm[i], From |-> i, To |-> p,
                      PrevLogIndex |-> next - 1, PrevLogTerm |-> prevTerm,
                      Entries |-> tail, LeaderCommit |-> commitIndex[i]]
  <2>1. aeArgs' = aeArgs \cup {args} /\ aeReplies' = aeReplies
    BY Zenon DEF heartbeatWorker
  <2> HIDE DEF prevTerm, tail
  <2>2. args \in AppendEntriesArgs
    BY <1>2, <1>4, <1>5 DEF AppendEntriesArgs
  <2> QED
    BY Zenon, <2>1, <2>2 DEF TypeOK, AppendEntriesType
<1> QED
  BY Zenon, <1>1, <1>6 DEF TypeOK

\* What is known of the fields of AppendEntries arguments.
LEMMA AppendEntriesArgsFacts ==
    ASSUME AppendEntriesType, NEW m \in aeArgs
    PROVE  /\ m.Term \in Nat /\ m.From \in Servers /\ m.To \in Servers
           /\ m.PrevLogIndex \in Int /\ m.PrevLogTerm \in Int
           /\ m.Entries \in Seq(Entries) /\ m.LeaderCommit \in Int
           /\ Len(m.Entries) \in Nat
<1>1. m \in AppendEntriesArgs
  BY Zenon DEF AppendEntriesType
<1>2. m.Entries \in Seq(Entries)
  BY Zenon, <1>1 DEF AppendEntriesArgs
<1>3. Len(m.Entries) \in Nat
  BY Zenon, <1>2, SeqFacts
<1> QED
  BY Zenon, <1>1, <1>2, <1>3 DEF AppendEntriesArgs

\* A reply to AppendEntries has the right type.
LEMMA AppendEntriesReplyType ==
    ASSUME AppendEntriesType, NEW m \in aeArgs, NEW term \in Nat, NEW success \in BOOLEAN,
           NEW conflict \in [XTerm : Int, XIndex : Int, XLen : Int]
    PROVE  AppendEntriesReply(m.To, m, term, success, conflict) \in AppendEntriesReplies
<1>1. /\ m.Term \in Nat /\ m.From \in Servers /\ m.To \in Servers
      /\ m.PrevLogIndex + Len(m.Entries) \in Int
  BY AppendEntriesArgsFacts
<1> QED
  BY Zenon, <1>1 DEF AppendEntriesReply, AppendEntriesReplies

\* The AppendEntries handler keeps the types when it rejects an old term.
LEMMA RejectAppendEntriesType ==
    ASSUME TypeOK, NEW m \in aeArgs, RejectAppendEntries(m.To, m) PROVE TypeOK'
<1>1. /\ TermType' /\ LogType' /\ persister' \in [Servers -> SavedStates]
      /\ RoleType' /\ LeaderType' /\ ApplyType'
      /\ RequestVoteType' /\ InstallSnapshotType'
  BY Zenon, UnchangedType DEF RejectAppendEntries, TypeOK
<1>2. AppendEntriesReply(m.To, m, CurrentTerm[m.To], FALSE, NoConflict) \in AppendEntriesReplies
  <2>1. CurrentTerm[m.To] \in Nat
    BY Zenon, AppendEntriesArgsFacts DEF TypeOK, TermType
  <2>2. NoConflict \in [XTerm : Int, XIndex : Int, XLen : Int]
    BY DEF NoConflict
  <2> QED
    BY Zenon, <2>1, <2>2, AppendEntriesReplyType DEF TypeOK
<1>3. AppendEntriesType'
  BY Zenon, <1>2 DEF TypeOK, AppendEntriesType, RejectAppendEntries
<1> QED
  BY Zenon, <1>1, <1>3 DEF TypeOK

\* The AppendEntries handler keeps the types: the log it writes still has
\* its dummy.
LEMMA AppendEntriesKeepsType ==
    ASSUME TypeOK, NEW m \in aeArgs, AppendEntries(m.To, m) PROVE TypeOK'
<1> DEFINE j == m.To
           match == matchPrevLog(Log[j], lastIncludedIndex[j], lastIncludedTerm[j],
                                 m.PrevLogIndex, m.PrevLogTerm)
<1>1. /\ m.Term \in Nat /\ m.From \in Servers /\ j \in Servers
      /\ m.PrevLogIndex \in Int /\ m.Entries \in Seq(Entries) /\ m.LeaderCommit \in Int
      /\ Len(m.Entries) \in Nat
  BY Zenon, AppendEntriesArgsFacts DEF TypeOK
<1>2. /\ Log[j] \in Seq(Entries) \ {<<>>} /\ lastIncludedIndex[j] \in Int
      /\ lastIncludedTerm[j] \in Int
  BY SMTT(30), <1>1 DEF TypeOK, LogType
<1>3. LeaderType' /\ ApplyType' /\ RequestVoteType' /\ InstallSnapshotType'
  BY SMTT(30), UnchangedType DEF AppendEntries
<1>4. \/ BecomeFollower(j, m.Term)
      \/ status' = [status EXCEPT ![j] = "Follower"] /\ UNCHANGED <<termVars, isReplicating>>
  BY Zenon DEF AppendEntries
<1>5. TermType'
  BY Zenon, <1>1, <1>4, UnchangedType DEF BecomeFollower, TypeOK, TermType, termVars
<1>6. LogType'
  <2>1. AppendNew(Log[j], lastIncludedIndex[j], m.PrevLogIndex, m.Entries)
          \in Seq(Entries) \ {<<>>}
    BY Zenon, <1>1, <1>2, AppendNewType
  <2>2. \/ Log' = Log
        \/ Log' = [Log EXCEPT ![j] =
                     AppendNew(@, lastIncludedIndex[j], m.PrevLogIndex, m.Entries)]
    BY Zenon DEF AppendEntries
  <2>3. UNCHANGED <<lastIncludedIndex, lastIncludedTerm, snapshot>>
    BY Zenon DEF AppendEntries
  <2> QED
    BY Zenon, <1>1, <2>1, <2>2, <2>3 DEF TypeOK, LogType
<1>7. persister' \in [Servers -> SavedStates]
  BY Zenon, <1>1, <1>5, <1>6, PersistType DEF TypeOK, AppendEntries
<1>8. RoleType'
  <2>1. FollowerCommitIndex(j, m.LeaderCommit, m.PrevLogIndex + Len(m.Entries)) \in Int
    BY SMTT(30), <1>1 DEF FollowerCommitIndex, TypeOK, RoleType
  <2>2. \/ commitIndex' = commitIndex
        \/ commitIndex' = [commitIndex EXCEPT ![j] =
             FollowerCommitIndex(j, m.LeaderCommit, m.PrevLogIndex + Len(m.Entries))]
    BY Zenon DEF AppendEntries
  <2>3. commitIndex' \in [Servers -> Int]
    BY ZenonT(40), <1>1, <2>1, <2>2 DEF TypeOK, RoleType
  <2>4. status' = [status EXCEPT ![j] = "Follower"] /\ votes' = votes
    BY Zenon, <1>4 DEF BecomeFollower, AppendEntries
  <2>5. [p \in Servers |-> FALSE] \in [Servers -> BOOLEAN]
    BY Zenon
  <2>6. isReplicating' \in [Servers -> [Servers -> BOOLEAN]]
    BY <1>1, <1>4, <2>5, Zenon DEF BecomeFollower, TypeOK, RoleType
  <2> QED
    BY Zenon, <1>1, <2>3, <2>4, <2>6 DEF TypeOK, RoleType
<1>9. AppendEntriesType'
  <2>1. /\ NoConflict \in [XTerm : Int, XIndex : Int, XLen : Int]
        /\ Conflict(Log[j], lastIncludedIndex[j], lastIncludedTerm[j], m.PrevLogIndex)
             \in [XTerm : Int, XIndex : Int, XLen : Int]
    <3>1. NoConflict \in [XTerm : Int, XIndex : Int, XLen : Int]
      BY DEF NoConflict
    <3>2. Conflict(Log[j], lastIncludedIndex[j], lastIncludedTerm[j], m.PrevLogIndex)
            \in [XTerm : Int, XIndex : Int, XLen : Int]
      BY SMTT(30), <1>1, <1>2, EntryFacts, ConflictType
    <3> QED
      BY ZenonT(40), <3>1, <3>2
  <2>2. match \in BOOLEAN
    BY Zenon DEF matchPrevLog
  <2>3. PICK c \in [XTerm : Int, XIndex : Int, XLen : Int] :
          aeReplies' = aeReplies \cup {AppendEntriesReply(j, m, m.Term, match, c)}
    BY Zenon, <2>1 DEF AppendEntries
  <2>4. AppendEntriesReply(j, m, m.Term, match, c) \in AppendEntriesReplies
    <3> HIDE DEF match
    <3> QED
      BY ZenonT(40), <1>1, <2>2, AppendEntriesReplyType DEF TypeOK
  <2>5. aeArgs' = aeArgs
    BY Zenon DEF AppendEntries
  <2> QED
    BY Zenon, <2>3, <2>4, <2>5 DEF TypeOK, AppendEntriesType
<1> QED
  BY Zenon, <1>3, <1>5, <1>6, <1>7, <1>8, <1>9 DEF TypeOK

\* updateLeaderCommitIndex() picks an index.
LEMMA LeaderCommitIndexType ==
    ASSUME TypeOK, NEW i \in Servers, NEW match
    PROVE  LeaderCommitIndex(i, match) \in Int
<1>1. commitIndex[i] \in Int /\ LastIndex(i) \in Int
  BY Zenon, LastType DEF TypeOK, RoleType
<1> DEFINE C == Committable(i, match)
<1>2. C \in SUBSET Int /\ \A n \in C : n <= LastIndex(i)
  BY <1>1 DEF Committable
<1> HIDE DEF C
<1>3. C # {} => \E n \in C : \A k \in C : k <= n
  BY Zenon, <1>1, <1>2, GreatestExists
<1>4. C # {} => (CHOOSE n \in C : \A k \in C : k <= n) \in Int
  BY Zenon, <1>2, <1>3
<1> QED
  BY Zenon, <1>1, <1>4 DEF LeaderCommitIndex, C

\* updateMatchAndNextIndex() keeps the types.
LEMMA UpdateMatchType ==
    ASSUME LeaderType, NEW i \in Servers, NEW p \in Servers, NEW n \in Int,
           updateMatchAndNextIndex(i, p, n)
    PROVE  LeaderType'
<1>1. matchIndex' \in [Servers -> [Servers -> Int]]
  BY Zenon DEF LeaderType, updateMatchAndNextIndex
<1>2. matchIndex'[i][p] + 1 \in Int
  BY <1>1
<1>3. nextIndex' \in [Servers -> [Servers -> Int]]
  BY Zenon, <1>2 DEF LeaderType, updateMatchAndNextIndex
<1> QED
  BY Zenon, <1>1, <1>3 DEF LeaderType

\* handleSendAppendEntries() keeps the types.
LEMMA AppendEntriesReplyKeepsType ==
    ASSUME TypeOK, NEW r \in aeReplies, handleSendAppendEntries(r.To, r) PROVE TypeOK'
<1> DEFINE i == r.To
<1>1. /\ r.ReplyTerm \in Nat /\ r.From \in Servers /\ i \in Servers /\ r.Last \in Int
      /\ r.Conflict \in [XTerm : Int, XIndex : Int, XLen : Int]
  BY Zenon DEF TypeOK, AppendEntriesType, AppendEntriesReplies
<1>2. ApplyType' /\ RequestVoteType' /\ AppendEntriesType' /\ InstallSnapshotType'
  BY Zenon, UnchangedType DEF handleSendAppendEntries
<1>3. CASE r.ReplyTerm > CurrentTerm[i]
  <2>1. stepDown(i, r.ReplyTerm) /\ UNCHANGED <<votes, commitIndex, leaderVars>>
    <3>1. CurrentTerm[i] \in Nat
      BY Zenon, <1>1 DEF TypeOK, TermType
    <3> QED
      BY <1>1, <1>3, <3>1 DEF handleSendAppendEntries
  <2>2. LeaderType'
    BY Zenon, <2>1, UnchangedType
  <2> QED
    BY Zenon, <1>1, <1>2, <2>1, <2>2, StepDownType DEF TypeOK
<1>4. CASE ~(r.ReplyTerm > CurrentTerm[i])
  <2>1. UNCHANGED <<termVars, logVars, persister, status, votes, isReplicating>>
    BY Zenon, <1>4 DEF handleSendAppendEntries
  <2>2. TermType' /\ LogType' /\ persister' \in [Servers -> SavedStates]
    BY Zenon, <2>1, UnchangedType DEF TypeOK
  <2>3. CASE r.Success
    <3>1. /\ updateMatchAndNextIndex(i, r.From, r.Last)
          /\ commitIndex' = [commitIndex EXCEPT ![i] = LeaderCommitIndex(i, matchIndex'[i])]
      BY Zenon, <1>4, <2>3 DEF handleSendAppendEntries
    <3>2. LeaderType'
      BY Zenon, <1>1, <3>1, UpdateMatchType DEF TypeOK
    <3>3. LeaderCommitIndex(i, matchIndex'[i]) \in Int
      BY Zenon, <1>1, LeaderCommitIndexType
    <3>4. RoleType'
      BY Zenon, <1>1, <2>1, <3>1, <3>3 DEF TypeOK, RoleType
    <3> QED
      BY Zenon, <1>2, <2>2, <3>2, <3>4 DEF TypeOK
  <2>4. CASE ~r.Success
    <3> DEFINE back == Backtrack(Log[i], lastIncludedIndex[i], lastIncludedTerm[i], r.Conflict)
    <3>1. /\ nextIndex' = [nextIndex EXCEPT ![i][r.From] = back]
          /\ UNCHANGED <<matchIndex, commitIndex>>
      BY Zenon, <1>4, <2>4 DEF handleSendAppendEntries
    <3>2. back \in Int
      <4>1. Log[i] \in Seq(Entries) /\ lastIncludedIndex[i] \in Int
        BY <1>1 DEF TypeOK, LogType
      <4>2. Len(Log[i]) \in Nat
        BY Zenon, <4>1, SeqFacts
      <4> QED
        BY Zenon, <1>1, <4>1, <4>2, BacktrackType
    <3> HIDE DEF back
    <3>3. LeaderType'
      BY Zenon, <1>1, <3>1, <3>2 DEF TypeOK, LeaderType
    <3>4. RoleType'
      BY Zenon, <2>1, <3>1, UnchangedType
    <3> QED
      BY Zenon, <1>2, <2>2, <3>3, <3>4 DEF TypeOK
  <2> QED
    BY Zenon, <2>3, <2>4
<1> QED
  BY Zenon, <1>3, <1>4

-----------------------------------------------------------------------------
(***************************************************************************)
(* Compaction, applying, restarts, and the theorem for all steps.          *)
(***************************************************************************)

\* Snapshot() keeps the types.
LEMMA SnapshotKeepsType ==
    ASSUME TypeOK, NEW i \in Servers, Snapshot(i) PROVE TypeOK'
<1> DEFINE index == Len(applied[i])
<1>1. /\ TermType' /\ LeaderType' /\ ApplyType' /\ RoleType'
      /\ RequestVoteType' /\ AppendEntriesType' /\ InstallSnapshotType'
  BY Zenon, UnchangedType DEF Snapshot
<1>2. applied[i] \in States /\ index \in Nat
  <2>1. applied[i] \in States
    BY Zenon DEF TypeOK, ApplyType
  <2> QED
    BY Zenon, <2>1, SeqFacts DEF States
<1>3. /\ Log[i] \in Seq(Entries) \ {<<>>} /\ lastIncludedIndex[i] \in Int
      /\ lastIncludedTerm[i] \in Int /\ lastIncludedIndex[i] < index
  BY <1>2 DEF TypeOK, LogType, Snapshot
<1>4. /\ CompactLog(Log[i], lastIncludedIndex[i], index) \in Seq(Entries) \ {<<>>}
      /\ CompactTerm(Log[i], lastIncludedIndex[i], lastIncludedTerm[i], index) \in Int
  <2>1. Dummy(0) \in Entries /\ 0 \in Int /\ index \in Int
    BY <1>2, EntryFacts
  <2> HIDE DEF index
  <2> QED
    BY Zenon, <1>3, <2>1, EntryFacts, CompactType
<1>5. LogType'
  BY Zenon, <1>2, <1>4 DEF TypeOK, LogType, Snapshot
<1>6. persister' \in [Servers -> SavedStates]
  BY Zenon, <1>1, <1>5, PersistType DEF TypeOK, Snapshot
<1> QED
  BY Zenon, <1>1, <1>5, <1>6 DEF TypeOK

\* heartbeatWorker() and handleInstallSnapshot() send InstallSnapshot
\* arguments of the right type.
LEMMA SendInstallSnapshotType ==
    ASSUME TypeOK, NEW i \in Servers, NEW p \in Peers(i), handleInstallSnapshot(i, p)
    PROVE  TypeOK'
<1>1. /\ TermType' /\ LogType' /\ persister' \in [Servers -> SavedStates]
      /\ LeaderType' /\ ApplyType' /\ RequestVoteType' /\ AppendEntriesType'
  BY Zenon, UnchangedType DEF handleInstallSnapshot, TypeOK
<1>2. RoleType'
  BY Zenon DEF TypeOK, RoleType, handleInstallSnapshot, Peers
<1>3. InstallSnapshotType'
  BY DEF TypeOK, InstallSnapshotType, InstallSnapshotArgs, TermType, LogType,
         handleInstallSnapshot, Peers
<1> QED
  BY Zenon, <1>1, <1>2, <1>3 DEF TypeOK

\* The end of a heartbeatWorker keeps the types.
LEMMA WorkerExitType ==
    ASSUME TypeOK, NEW i \in Servers, NEW p \in Peers(i), workerExit(i, p)
    PROVE  TypeOK'
<1>1. /\ TermType' /\ LogType' /\ persister' \in [Servers -> SavedStates]
      /\ LeaderType' /\ ApplyType'
      /\ RequestVoteType' /\ AppendEntriesType' /\ InstallSnapshotType'
  BY Zenon, UnchangedType DEF workerExit, TypeOK
<1>2. RoleType'
  BY Zenon DEF TypeOK, RoleType, workerExit, Peers
<1> QED
  BY Zenon, <1>1, <1>2 DEF TypeOK

\* The InstallSnapshot handler keeps the types.
LEMMA InstallSnapshotKeepsType ==
    ASSUME TypeOK, NEW m \in isArgs, InstallSnapshot(m.To, m) PROVE TypeOK'
<1> DEFINE j == m.To
<1>1. /\ m.Term \in Nat /\ m.From \in Servers /\ j \in Servers
      /\ m.LastIncludedIndex \in Nat /\ m.LastIncludedTerm \in Int /\ m.Data \in States
  BY Zenon DEF TypeOK, InstallSnapshotType, InstallSnapshotArgs
<1>2. LeaderType' /\ RequestVoteType' /\ AppendEntriesType'
  BY Zenon, UnchangedType DEF InstallSnapshot
<1>3. TermType'
  BY Zenon, <1>1 DEF TypeOK, TermType, InstallSnapshot, termVars
<1>4. InstallSnapshotType'
  <2>1. InstallSnapshotReply(j, m) \in InstallSnapshotReplies
    BY Zenon, <1>1 DEF InstallSnapshotReply, InstallSnapshotReplies, TypeOK, TermType
  <2> QED
    BY Zenon, <2>1 DEF TypeOK, InstallSnapshotType, InstallSnapshot
<1>5. CASE m.Term < CurrentTerm[j] \/ m.LastIncludedIndex <= lastIncludedIndex[j]
  <2>1. UNCHANGED <<logVars, commitIndex, applyVars, votes, isReplicating>>
    BY Zenon, <1>5 DEF InstallSnapshot, applyVars
  <2>2. LogType' /\ ApplyType'
    BY Zenon, <2>1, UnchangedType
  <2>3. RoleType'
    BY Zenon, <1>1, <2>1 DEF TypeOK, RoleType, InstallSnapshot
  <2>4. persister' \in [Servers -> SavedStates]
    <3>1. persist(j) \/ UNCHANGED persister
      BY <1>1 DEF InstallSnapshot, TypeOK, TermType
    <3> QED
      BY Zenon, <1>1, <1>3, <2>2, <3>1, PersistType DEF TypeOK
  <2> QED
    BY Zenon, <1>2, <1>3, <1>4, <2>2, <2>3, <2>4 DEF TypeOK
<1>6. CASE ~(m.Term < CurrentTerm[j] \/ m.LastIncludedIndex <= lastIncludedIndex[j])
  <2>1. /\ Log[j] \in Seq(Entries) \ {<<>>} /\ lastIncludedIndex[j] \in Int
        /\ lastIncludedTerm[j] \in Int /\ lastIncludedIndex[j] < m.LastIncludedIndex
    BY <1>1, <1>6 DEF TypeOK, LogType
  <2>2. InstalledLog(Log[j], lastIncludedIndex[j], m.LastIncludedIndex, m.LastIncludedTerm)
          \in Seq(Entries) \ {<<>>}
    <3>1. /\ Dummy(0) \in Entries /\ Dummy(m.LastIncludedTerm) \in Entries
          /\ m.LastIncludedIndex \in Int
      BY <1>1, EntryFacts
    <3> QED
      BY Zenon, <1>1, <2>1, <3>1, EntryFacts, CompactType
  <2>3. LogType'
    BY Zenon, <1>1, <1>6, <2>2 DEF TypeOK, LogType, InstallSnapshot
  <2>4. ApplyType'
    <3>1. /\ lastApplied' = [lastApplied EXCEPT ![j] =
               IF @ < m.LastIncludedIndex THEN m.LastIncludedIndex ELSE @]
          /\ applySnapshot' = [applySnapshot EXCEPT ![j] = TRUE]
          /\ UNCHANGED <<applyCh, applied>>
      BY Zenon, <1>6 DEF InstallSnapshot
    <3> QED
      BY <1>1, <3>1 DEF TypeOK, ApplyType
  <2>5. RoleType'
    <3>1. /\ commitIndex' = [commitIndex EXCEPT ![j] =
               IF @ < m.LastIncludedIndex THEN m.LastIncludedIndex ELSE @]
          /\ status' = [status EXCEPT ![j] = "Follower"]
          /\ UNCHANGED <<votes, isReplicating>>
      BY Zenon, <1>6 DEF InstallSnapshot
    <3> QED
      BY <1>1, <3>1 DEF TypeOK, RoleType
  <2>6. persister' \in [Servers -> SavedStates]
    <3>1. persist(j)
      BY <1>1, <1>6 DEF InstallSnapshot, TypeOK, TermType
    <3> QED
      BY Zenon, <1>1, <1>3, <2>3, <3>1, PersistType DEF TypeOK
  <2> QED
    BY Zenon, <1>2, <1>3, <1>4, <2>3, <2>4, <2>5, <2>6 DEF TypeOK
<1> QED
  BY Zenon, <1>5, <1>6

\* handleInstallSnapshot() keeps the types when the reply is back.
LEMMA InstallSnapshotReplyKeepsType ==
    ASSUME TypeOK, NEW r \in isReplies, handleInstallSnapshotReply(r.To, r) PROVE TypeOK'
<1> DEFINE i == r.To
<1>1. /\ r.ReplyTerm \in Nat /\ r.From \in Servers /\ i \in Servers
      /\ r.LastIncludedIndex \in Int
  BY DEF TypeOK, InstallSnapshotType, InstallSnapshotReplies
<1>2. ApplyType' /\ RequestVoteType' /\ AppendEntriesType' /\ InstallSnapshotType'
  BY ZenonT(30), UnchangedType DEF handleInstallSnapshotReply
<1>3. CASE r.ReplyTerm > CurrentTerm[i]
  <2>1. stepDown(i, r.ReplyTerm) /\ UNCHANGED <<votes, commitIndex, leaderVars>>
    BY Zenon, <1>3 DEF handleInstallSnapshotReply
  <2>2. LeaderType'
    BY Zenon, <2>1, UnchangedType
  <2> QED
    BY Zenon, <1>1, <1>2, <2>1, <2>2, StepDownType DEF TypeOK
<1>4. CASE ~(r.ReplyTerm > CurrentTerm[i])
  <2>1. /\ UNCHANGED <<termVars, logVars, persister, status, votes, commitIndex, isReplicating>>
        /\ updateMatchAndNextIndex(i, r.From, r.LastIncludedIndex)
    BY Zenon, <1>4 DEF handleInstallSnapshotReply
  <2>2. TermType' /\ LogType' /\ persister' \in [Servers -> SavedStates] /\ RoleType'
    BY Zenon, <2>1, UnchangedType DEF TypeOK
  <2>3. LeaderType'
    BY Zenon, <1>1, <2>1, UpdateMatchType DEF TypeOK
  <2> QED
    BY Zenon, <1>2, <2>2, <2>3 DEF TypeOK
<1> QED
  BY Zenon, <1>3, <1>4

\* The messages applyCommitted() collects have the right type: each index
\* it takes from the log is in the log.
LEMMA EntriesToApplyType ==
    ASSUME TypeOK, NEW i \in Servers PROVE EntriesToApply(i) \in Seq(ApplyMsgs)
<1> DEFINE lii == lastIncludedIndex[i]
           low == IF lastApplied[i] < lii THEN lii ELSE lastApplied[i]
           high == IF commitIndex[i] > LastIndex(i) THEN LastIndex(i) ELSE commitIndex[i]
           msg(k) == [CommandValid |-> TRUE, Index |-> low + k,
                      Command |-> Log[i][toPhysicalIndex(lii, low + k) + 1].Command,
                      Snapshot |-> <<>>]
<1>1. /\ lii \in Nat /\ Log[i] \in Seq(Entries) /\ lastApplied[i] \in Int
      /\ commitIndex[i] \in Int
  BY Zenon DEF TypeOK, LogType, ApplyType, RoleType
<1>2. Len(Log[i]) \in Nat
  BY Zenon, <1>1, SeqFacts
<1>3. LastIndex(i) = Len(Log[i]) - 1 + lii
  BY Zenon DEF LastIndex, lastLogIndex
<1>4. low \in Int /\ lii <= low /\ high \in Int /\ high <= LastIndex(i)
  BY <1>1, <1>2, <1>3
<1>5. ASSUME NEW k \in 1 .. high - low PROVE msg(k) \in ApplyMsgs
  <2> DEFINE q == toPhysicalIndex(lii, low + k) + 1
  <2> HIDE DEF low, high, lii
  <2>1. q \in 1 .. Len(Log[i])
    BY <1>1, <1>2, <1>3, <1>4 DEF toPhysicalIndex
  <2> HIDE DEF q
  <2>2. Log[i][q] \in Entries
    BY Zenon, <1>1, <2>1, SeqFacts
  <2>3. Log[i][q].Command \in Commands \cup {NoCommand} /\ <<>> \in States
    BY <2>2, EntryFacts DEF States
  <2>4. low + k \in Int
    BY <1>4
  <2>5. [CommandValid |-> TRUE, Index |-> low + k, Command |-> Log[i][q].Command,
         Snapshot |-> <<>>] \in ApplyMsgs
    BY Zenon, <2>3, <2>4 DEF ApplyMsgs
  <2> QED
    BY Zenon, <2>5 DEF q
<1>6. EntriesToApply(i) = [k \in 1 .. high - low |-> msg(k)]
  BY Zenon DEF EntriesToApply
<1> HIDE DEF low, high, msg, lii
<1>7. [k \in 1 .. high - low |-> msg(k)] \in [1 .. high - low -> ApplyMsgs]
  BY Zenon, <1>5
<1>8. \E n \in Nat : 1 .. high - low = 1 .. n
  <2>1. CASE high - low \in Nat
    BY Zenon, <2>1
  <2>2. CASE high - low \notin Nat
    <3>1. 1 .. high - low = 1 .. 0
      BY <1>4, <2>2
    <3> QED
      BY Zenon, <3>1
  <2> QED
    BY Zenon, <2>1, <2>2
<1>9. PICK n \in Nat : 1 .. high - low = 1 .. n
  BY Zenon, <1>8
<1>10. EntriesToApply(i) \in [1 .. n -> ApplyMsgs]
  BY Zenon, <1>6, <1>7, <1>9
<1> QED
  BY Zenon, <1>10, FcnIsSeq

\* applyCommitted() keeps the types.
LEMMA ApplyCommittedType ==
    ASSUME TypeOK, NEW i \in Servers, applyCommitted(i) PROVE TypeOK'
<1>1. /\ TermType' /\ LogType' /\ persister' \in [Servers -> SavedStates]
      /\ LeaderType' /\ RoleType'
      /\ RequestVoteType' /\ AppendEntriesType' /\ InstallSnapshotType'
  BY Zenon, UnchangedType DEF applyCommitted, TypeOK
<1>2. lastIncludedIndex[i] \in Int /\ snapshot[i] \in States /\ commitIndex[i] \in Int
  BY DEF TypeOK, LogType, RoleType
<1>3. <<[CommandValid |-> FALSE, Index |-> lastIncludedIndex[i], Command |-> NoCommand,
         Snapshot |-> snapshot[i]]>> \in Seq(ApplyMsgs)
  <2>1. [CommandValid |-> FALSE, Index |-> lastIncludedIndex[i], Command |-> NoCommand,
         Snapshot |-> snapshot[i]] \in ApplyMsgs
    BY Zenon, <1>2 DEF ApplyMsgs
  <2> QED
    BY <2>1
<1>4. EntriesToApply(i) \in Seq(ApplyMsgs)
  BY Zenon, EntriesToApplyType
<1>5. ApplyType'
  BY Zenon, <1>2, <1>3, <1>4 DEF TypeOK, ApplyType, applyCommitted
<1> QED
  BY Zenon, <1>1, <1>5 DEF TypeOK

\* The service's state is a sequence of commands after each ApplyMsg.
LEMMA ApplyCommandType ==
    ASSUME NEW commands \in States, NEW index \in Int, NEW command \in Commands \cup {NoCommand}
    PROVE  ApplyCommand(commands, index, command) \in States
<1> DEFINE C == Commands \cup {NoCommand}
           elt(k) == IF k = index THEN command
                     ELSE IF k <= Len(commands) THEN commands[k] ELSE NoCommand
<1>1. Len(commands) \in Nat
  BY Zenon, SeqFacts DEF States
<1>2. ASSUME NEW k \in 1 .. index PROVE elt(k) \in C
  <2>1. k <= Len(commands) => commands[k] \in C
    BY <1>1, SeqFacts DEF States
  <2> QED
    BY Zenon, <2>1
<1>3. ApplyCommand(commands, index, command) = [k \in 1 .. index |-> elt(k)]
  BY Zenon DEF ApplyCommand
<1> HIDE DEF elt, C
<1>4. [k \in 1 .. index |-> elt(k)] \in [1 .. index -> C]
  BY Zenon, <1>2
<1>5. \E n \in Nat : 1 .. index = 1 .. n
  <2>1. CASE index \in Nat
    BY Zenon, <2>1
  <2>2. CASE index \notin Nat
    <3>1. 1 .. index = 1 .. 0
      BY <2>2
    <3> QED
      BY Zenon, <3>1
  <2> QED
    BY Zenon, <2>1, <2>2
<1>6. [k \in 1 .. index |-> elt(k)] \in Seq(C)
  BY Zenon, <1>4, <1>5, FcnIsSeq
<1> QED
  BY Zenon, <1>3, <1>6 DEF States, C

\* The service keeps the types when it reads an ApplyMsg.
LEMMA ApplierSnapType ==
    ASSUME TypeOK, NEW i \in Servers, applierSnap(i) PROVE TypeOK'
<1>1. /\ TermType' /\ LogType' /\ persister' \in [Servers -> SavedStates]
      /\ LeaderType' /\ RoleType'
      /\ RequestVoteType' /\ AppendEntriesType' /\ InstallSnapshotType'
  BY Zenon, UnchangedType DEF applierSnap, TypeOK
<1> DEFINE msg == Head(applyCh[i])
           after == IF msg.CommandValid THEN ApplyCommand(applied[i], msg.Index, msg.Command)
                    ELSE msg.Snapshot
<1>2. applyCh[i] \in Seq(ApplyMsgs) /\ applyCh[i] # <<>> /\ applied[i] \in States
  BY Zenon DEF TypeOK, ApplyType, applierSnap
<1>3. msg \in ApplyMsgs /\ Tail(applyCh[i]) \in Seq(ApplyMsgs)
  BY Zenon, <1>2, HeadTailFacts
<1>4. after \in States
  <2>1. /\ msg.Index \in Int /\ msg.Command \in Commands \cup {NoCommand}
        /\ msg.Snapshot \in States
    BY Zenon, <1>3 DEF ApplyMsgs
  <2> QED
    BY Zenon, <1>2, <2>1, ApplyCommandType
<1>5. /\ applied' = [applied EXCEPT ![i] = after]
      /\ applyCh' = [applyCh EXCEPT ![i] = Tail(@)]
      /\ UNCHANGED <<lastApplied, applySnapshot>>
  BY Zenon DEF applierSnap
<1>6. ApplyType'
  <2> HIDE DEF after
  <2> QED
    BY Zenon, <1>3, <1>4, <1>5 DEF TypeOK, ApplyType
<1> QED
  BY Zenon, <1>1, <1>6 DEF TypeOK

\* A restarted peer has the right types: what the persister holds has them.
LEMMA RestartType ==
    ASSUME TypeOK, NEW i \in Servers, Restart(i) PROVE TypeOK'
<1>1. RequestVoteType' /\ AppendEntriesType' /\ InstallSnapshotType'
  BY Zenon, UnchangedType DEF Restart
<1>2. persister' \in [Servers -> SavedStates]
  BY Zenon DEF TypeOK, Restart
<1> DEFINE saved == persister[i]
<1>3. /\ saved.CurrentTerm \in Nat /\ saved.VotedFor \in Servers \cup {Nobody}
      /\ saved.Log \in Seq(Entries) \ {<<>>} /\ saved.lastIncludedIndex \in Nat
      /\ saved.lastIncludedTerm \in Int /\ saved.snapshot \in States
  <2>1. saved \in SavedStates
    BY Zenon DEF TypeOK
  <2> QED
    BY Zenon, <2>1 DEF SavedStates
<1>4. TermType'
  BY Zenon, <1>3 DEF TypeOK, TermType, Restart
<1>5. LogType'
  BY Zenon, <1>3 DEF TypeOK, LogType, Restart
<1>6. RoleType'
  <2>1. [p \in Servers |-> FALSE] \in [Servers -> BOOLEAN]
    BY Zenon
  <2>2. isReplicating' \in [Servers -> [Servers -> BOOLEAN]]
    BY <2>1, Zenon DEF TypeOK, RoleType, Restart
  <2> QED
    BY <1>3, <2>2 DEF TypeOK, RoleType, Restart
<1>7. LeaderType'
  <2>1. [p \in Servers |-> 1] \in [Servers -> Int] /\ [p \in Servers |-> 0] \in [Servers -> Int]
    OBVIOUS
  <2> QED
    BY <2>1, Zenon DEF TypeOK, LeaderType, Restart
<1>8. ApplyType'
  <2>1. <<>> \in Seq(ApplyMsgs)
    OBVIOUS
  <2> QED
    BY <1>3, <2>1 DEF TypeOK, ApplyType, Restart
<1> QED
  BY Zenon, <1>1, <1>2, <1>4, <1>5, <1>6, <1>7, <1>8 DEF TypeOK

\* Every step keeps the types.
LEMMA NextTypeOK == TypeOK /\ [Next]_vars => TypeOK'
<1> SUFFICES ASSUME TypeOK, [Next]_vars PROVE TypeOK'
  BY Zenon
<1>1. CASE Election
  BY Zenon, <1>1, StartElectionType, RequestVoteKeepsType, RequestVoteReplyKeepsType DEF Election
<1>2. CASE Replication
  BY Zenon, <1>2, StartKeepsType, HeartbeatWorkerType, RejectAppendEntriesType,
     AppendEntriesKeepsType, AppendEntriesReplyKeepsType DEF Replication
<1>3. CASE Compaction
  BY Zenon, <1>3, SnapshotKeepsType, SendInstallSnapshotType, WorkerExitType,
     InstallSnapshotKeepsType, InstallSnapshotReplyKeepsType DEF Compaction
<1>4. CASE Apply
  BY Zenon, <1>4, ApplyCommittedType, ApplierSnapType DEF Apply
<1>5. CASE \E i \in Servers : Restart(i)
  BY Zenon, <1>5, RestartType
<1>6. CASE UNCHANGED vars
  BY Zenon, <1>6, UnchangedType DEF vars, TypeOK
<1> QED
  BY Zenon, <1>1, <1>2, <1>3, <1>4, <1>5, <1>6 DEF Next, Step

\* Every reachable state of the peers has the types of TypeOK, with
\* snapshots and crashes, for any number of peers: in particular no handler
\* ever loses the dummy entry that the index arithmetic of raft.go needs.
THEOREM TypeCorrect == Spec => []TypeOK
<1>1. Init => TypeOK
  BY Zenon, InitTypeOK
<1>2. TypeOK /\ [Next]_vars => TypeOK'
  BY Zenon, NextTypeOK
<1> QED
  BY <1>1, <1>2, PTL DEF Spec

-----------------------------------------------------------------------------
(***************************************************************************)
(* Durability: the persister always holds the current persistent state.    *)
(***************************************************************************)

\* A step that changes the persistent state of no peer but i, and calls
\* persist() for i, keeps Durable.
LEMMA PersistDurable ==
    ASSUME TypeOK, Durable, NEW i \in Servers, persist(i),
           \A k \in Servers : k # i => RaftState(k)' = RaftState(k)
    PROVE  Durable'
<1>1. persister \in [Servers -> SavedStates]
  BY Zenon DEF TypeOK
<1> QED
  BY Zenon, <1>1 DEF persist, Durable

\* So does a step that changes neither the state nor the persister.
LEMMA SameDurable ==
    ASSUME Durable, UNCHANGED <<termVars, logVars, persister>>
    PROVE  Durable'
BY Zenon DEF Durable, RaftState, termVars, logVars

\* stepDown() saves what it changes.
LEMMA StepDownDurable ==
    ASSUME TypeOK, Durable, NEW i \in Servers, NEW term, stepDown(i, term)
    PROVE  Durable'
<1>1. \A k \in Servers : k # i => RaftState(k)' = RaftState(k)
  BY Zenon DEF TypeOK, TermType, RaftState, stepDown, BecomeFollower, logVars
<1> QED
  BY Zenon, <1>1, PersistDurable DEF stepDown

\* Each of the election steps saves what it changes.
LEMMA ElectionDurable == TypeOK /\ Durable /\ Election => Durable'
<1> SUFFICES ASSUME TypeOK, Durable, Election PROVE Durable'
  BY Zenon
<1>1. ASSUME NEW i \in Servers, startElection(i) PROVE Durable'
  <2>1. \A k \in Servers : k # i => RaftState(k)' = RaftState(k)
    BY Zenon, <1>1 DEF TypeOK, TermType, RaftState, startElection, logVars
  <2> QED
    BY Zenon, <1>1, <2>1, PersistDurable DEF startElection
<1>2. ASSUME NEW m \in rvArgs, RequestVote(m.To, m) PROVE Durable'
  <2> DEFINE j == m.To
  <2>1. j \in Servers
    BY Zenon DEF TypeOK, RequestVoteType, RequestVoteArgs
  <2>2. CASE persist(j)
    <3>1. \A k \in Servers : k # j => RaftState(k)' = RaftState(k)
      BY Zenon, <1>2, <2>1 DEF TypeOK, TermType, RaftState, RequestVote, logVars
    <3> QED
      BY Zenon, <2>1, <2>2, <3>1, PersistDurable
  <2>3. CASE ~persist(j)
    <3>1. ~(m.Term > CurrentTerm[j]) /\ ~GrantsVote(j, m)
      BY Zenon, <1>2, <2>3 DEF RequestVote
    <3>2. VoteInTerm(j, m) = VotedFor[j]
      BY Zenon, <3>1 DEF VoteInTerm
    <3>3. VotedFor' = [VotedFor EXCEPT ![j] = VotedFor[j]] /\ CurrentTerm' = CurrentTerm
      BY Zenon, <1>2, <3>1, <3>2 DEF RequestVote
    <3>4. VotedFor' = VotedFor
      BY Zenon, <3>3 DEF TypeOK, TermType
    <3> QED
      BY Zenon, <1>2, <2>3, <3>3, <3>4, SameDurable DEF RequestVote, termVars
  <2> QED
    BY Zenon, <2>2, <2>3
<1>3. ASSUME NEW r \in rvReplies, handleRequestVoteReply(r.To, r) PROVE Durable'
  <2>1. r.To \in Servers
    BY Zenon DEF TypeOK, RequestVoteType, RequestVoteReplies
  <2>2. stepDown(r.To, r.ReplyTerm) \/ UNCHANGED <<termVars, logVars, persister>>
    BY Zenon, <1>3 DEF handleRequestVoteReply
  <2> QED
    BY Zenon, <2>1, <2>2, StepDownDurable, SameDurable
<1> QED
  BY Zenon, <1>1, <1>2, <1>3 DEF Election

\* Each of the replication steps saves what it changes.
LEMMA ReplicationDurable == TypeOK /\ Durable /\ Replication => Durable'
<1> SUFFICES ASSUME TypeOK, Durable, Replication PROVE Durable'
  BY Zenon
<1>1. ASSUME NEW i \in Servers, NEW command \in Commands, Start(i, command) PROVE Durable'
  <2>1. \A k \in Servers : k # i => RaftState(k)' = RaftState(k)
    BY Zenon, <1>1 DEF TypeOK, LogType, RaftState, Start, termVars
  <2> QED
    BY Zenon, <1>1, <2>1, PersistDurable DEF Start
<1>2. ASSUME NEW i \in Servers, NEW p \in Peers(i), heartbeatWorker(i, p) PROVE Durable'
  BY Zenon, <1>2, SameDurable DEF heartbeatWorker
<1>3. ASSUME NEW m \in aeArgs, RejectAppendEntries(m.To, m) PROVE Durable'
  BY Zenon, <1>3, SameDurable DEF RejectAppendEntries
<1>4. ASSUME NEW m \in aeArgs, AppendEntries(m.To, m) PROVE Durable'
  <2> DEFINE j == m.To
  <2>1. j \in Servers
    BY Zenon, AppendEntriesArgsFacts DEF TypeOK
  <2>2. CASE persist(j)
    <3>1. \A k \in Servers : k # j => RaftState(k)' = RaftState(k)
      BY Zenon, <1>4, <2>1
      DEF TypeOK, TermType, LogType, RaftState, AppendEntries, BecomeFollower, termVars
    <3> QED
      BY Zenon, <2>1, <2>2, <3>1, PersistDurable
  <2>3. CASE ~persist(j)
    <3>1. UNCHANGED <<termVars, logVars, persister>>
      BY Zenon, <1>4, <2>3 DEF AppendEntries, logVars
    <3> QED
      BY Zenon, <3>1, SameDurable
  <2> QED
    BY Zenon, <2>2, <2>3
<1>5. ASSUME NEW r \in aeReplies, handleSendAppendEntries(r.To, r) PROVE Durable'
  <2>1. r.To \in Servers
    BY Zenon DEF TypeOK, AppendEntriesType, AppendEntriesReplies
  <2>2. stepDown(r.To, r.ReplyTerm) \/ UNCHANGED <<termVars, logVars, persister>>
    BY Zenon, <1>5 DEF handleSendAppendEntries
  <2> QED
    BY Zenon, <2>1, <2>2, StepDownDurable, SameDurable
<1> QED
  BY Zenon, <1>1, <1>2, <1>3, <1>4, <1>5 DEF Replication

\* Each of the snapshot steps saves what it changes.
LEMMA CompactionDurable == TypeOK /\ Durable /\ Compaction => Durable'
<1> SUFFICES ASSUME TypeOK, Durable, Compaction PROVE Durable'
  BY Zenon
<1>1. ASSUME NEW i \in Servers, Snapshot(i) PROVE Durable'
  <2>1. \A k \in Servers : k # i => RaftState(k)' = RaftState(k)
    BY Zenon, <1>1 DEF TypeOK, LogType, RaftState, Snapshot, termVars
  <2> QED
    BY Zenon, <1>1, <2>1, PersistDurable DEF Snapshot
<1>2. ASSUME NEW i \in Servers, NEW p \in Peers(i),
             handleInstallSnapshot(i, p) \/ workerExit(i, p)
      PROVE  Durable'
  BY Zenon, <1>2, SameDurable DEF handleInstallSnapshot, workerExit
<1>3. ASSUME NEW m \in isArgs, InstallSnapshot(m.To, m) PROVE Durable'
  <2> DEFINE j == m.To
  <2>1. j \in Servers /\ m.Term \in Nat /\ CurrentTerm[j] \in Nat
    BY Zenon DEF TypeOK, InstallSnapshotType, InstallSnapshotArgs, TermType
  <2>2. CASE m.Term < CurrentTerm[j]
    BY Zenon, <1>3, <2>2, SameDurable DEF InstallSnapshot
  <2>3. CASE m.Term >= CurrentTerm[j]
    <3>1. persist(j)
      BY Zenon, <1>3, <2>3 DEF InstallSnapshot
    <3>2. \A k \in Servers : k # j => CurrentTerm'[k] = CurrentTerm[k] /\ VotedFor'[k] = VotedFor[k]
      BY Zenon, <1>3, <2>1 DEF InstallSnapshot, TypeOK, TermType, termVars
    <3>3. \A k \in Servers : k # j =>
            /\ Log'[k] = Log[k] /\ lastIncludedIndex'[k] = lastIncludedIndex[k]
            /\ lastIncludedTerm'[k] = lastIncludedTerm[k] /\ snapshot'[k] = snapshot[k]
      BY Zenon, <1>3, <2>1 DEF InstallSnapshot, TypeOK, LogType, logVars
    <3>4. \A k \in Servers : k # j => RaftState(k)' = RaftState(k)
      BY Zenon, <3>2, <3>3 DEF RaftState
    <3> QED
      BY Zenon, <2>1, <3>1, <3>4, PersistDurable
  <2> QED
    BY <2>1, <2>2, <2>3
<1>4. ASSUME NEW r \in isReplies, handleInstallSnapshotReply(r.To, r) PROVE Durable'
  <2>1. r.To \in Servers
    BY Zenon DEF TypeOK, InstallSnapshotType, InstallSnapshotReplies
  <2>2. stepDown(r.To, r.ReplyTerm) \/ UNCHANGED <<termVars, logVars, persister>>
    BY Zenon, <1>4 DEF handleInstallSnapshotReply
  <2> QED
    BY Zenon, <2>1, <2>2, StepDownDurable, SameDurable
<1> QED
  BY Zenon, <1>1, <1>2, <1>3, <1>4 DEF Compaction

\* A restart brings back exactly the persistent state of before the crash.
LEMMA RestartRestores ==
    ASSUME TypeOK, Durable, NEW i \in Servers, Restart(i)
    PROVE  UNCHANGED <<termVars, logVars, persister>>
<1>1. persister[i] = RaftState(i)
  BY Zenon DEF Durable
<1>2. /\ persister[i].CurrentTerm = CurrentTerm[i] /\ persister[i].VotedFor = VotedFor[i]
      /\ persister[i].Log = Log[i] /\ persister[i].lastIncludedIndex = lastIncludedIndex[i]
      /\ persister[i].lastIncludedTerm = lastIncludedTerm[i]
      /\ persister[i].snapshot = snapshot[i]
  BY <1>1 DEF RaftState
<1>3. CurrentTerm' = CurrentTerm /\ VotedFor' = VotedFor
  BY Zenon, <1>2 DEF Restart, TypeOK, TermType
<1>4. /\ Log' = Log /\ lastIncludedIndex' = lastIncludedIndex
      /\ lastIncludedTerm' = lastIncludedTerm /\ snapshot' = snapshot
  BY Zenon, <1>2 DEF Restart, TypeOK, LogType
<1> QED
  BY Zenon, <1>3, <1>4 DEF Restart, termVars, logVars

\* Every step keeps Durable.
LEMMA NextDurable == TypeOK /\ Durable /\ [Next]_vars => Durable'
<1> SUFFICES ASSUME TypeOK, Durable, [Next]_vars PROVE Durable'
  BY Zenon
<1>1. CASE Election
  BY Zenon, <1>1, ElectionDurable
<1>2. CASE Replication
  BY Zenon, <1>2, ReplicationDurable
<1>3. CASE Compaction
  BY Zenon, <1>3, CompactionDurable
<1>4. CASE Apply
  BY Zenon, <1>4, SameDurable DEF Apply, applyCommitted, applierSnap
<1>5. CASE \E i \in Servers : Restart(i)
  BY Zenon, <1>5, RestartRestores, SameDurable
<1>6. CASE UNCHANGED vars
  BY Zenon, <1>6, SameDurable DEF vars
<1> QED
  BY Zenon, <1>1, <1>2, <1>3, <1>4, <1>5, <1>6 DEF Next, Step

\* No step of a peer leaves its term, vote, log or snapshot unsaved, so a
\* crash at any moment loses none of them (persist() in every handler).
THEOREM DurableAlways == Spec => []Durable
<1>1. Init => TypeOK /\ Durable
  BY Zenon, InitTypeOK DEF Init, Durable
<1>2. TypeOK /\ Durable /\ [Next]_vars => TypeOK' /\ Durable'
  BY Zenon, NextTypeOK, NextDurable
<1> QED
  BY <1>1, <1>2, PTL DEF Spec

-----------------------------------------------------------------------------
(***************************************************************************)
(* Terms.                                                                  *)
(***************************************************************************)

\* No step takes a term back.
LEMMA TermKeptByStep ==
    ASSUME TypeOK, Durable, [Next]_vars, NEW k \in Servers
    PROVE  CurrentTerm'[k] >= CurrentTerm[k]
<1>1. CurrentTerm \in [Servers -> Nat]
  BY Zenon DEF TypeOK, TermType
<1>2. CASE Election
  <2>1. ASSUME NEW i \in Servers, startElection(i) PROVE CurrentTerm'[k] >= CurrentTerm[k]
    BY <1>1, <2>1 DEF startElection
  <2>2. ASSUME NEW m \in rvArgs, RequestVote(m.To, m) PROVE CurrentTerm'[k] >= CurrentTerm[k]
    BY <1>1, <2>2 DEF RequestVote, TypeOK, RequestVoteType, RequestVoteArgs
  <2>3. ASSUME NEW r \in rvReplies, handleRequestVoteReply(r.To, r)
        PROVE  CurrentTerm'[k] >= CurrentTerm[k]
    BY <1>1, <2>3 DEF handleRequestVoteReply, stepDown, BecomeFollower, TypeOK,
       RequestVoteType, RequestVoteReplies, termVars
  <2> QED
    BY Zenon, <1>2, <2>1, <2>2, <2>3 DEF Election
<1>3. CASE Replication
  <2>1. ASSUME NEW m \in aeArgs, AppendEntries(m.To, m) PROVE CurrentTerm'[k] >= CurrentTerm[k]
    <3>1. m.Term \in Nat
      BY SMTT(30) DEF TypeOK, AppendEntriesType, AppendEntriesArgs
    <3>2. \/ UNCHANGED CurrentTerm
          \/ /\ m.Term > CurrentTerm[m.To]
             /\ CurrentTerm' = [CurrentTerm EXCEPT ![m.To] = m.Term]
      BY Zenon, <2>1 DEF AppendEntries, BecomeFollower, termVars
    <3> QED
      BY <1>1, <3>1, <3>2
  <2>2. ASSUME NEW r \in aeReplies, handleSendAppendEntries(r.To, r)
        PROVE  CurrentTerm'[k] >= CurrentTerm[k]
    BY <1>1, <2>2 DEF handleSendAppendEntries, stepDown, BecomeFollower, TypeOK,
       AppendEntriesType, AppendEntriesReplies, termVars
  <2> QED
    <3>1. ASSUME CurrentTerm' = CurrentTerm PROVE CurrentTerm'[k] >= CurrentTerm[k]
      BY <1>1, <3>1
    <3> QED
      BY Zenon, <1>3, <2>1, <2>2, <3>1 DEF Replication, Start, heartbeatWorker,
         RejectAppendEntries, termVars
<1>4. CASE Compaction
  <2>1. ASSUME NEW m \in isArgs, InstallSnapshot(m.To, m) PROVE CurrentTerm'[k] >= CurrentTerm[k]
    <3>1. m.Term \in Nat /\ m.To \in Servers
      BY SMTT(30) DEF TypeOK, InstallSnapshotType, InstallSnapshotArgs
    <3>2. \/ UNCHANGED CurrentTerm
          \/ /\ ~(m.Term < CurrentTerm[m.To])
             /\ CurrentTerm' = [CurrentTerm EXCEPT ![m.To] = m.Term]
      BY Zenon, <2>1 DEF InstallSnapshot, termVars
    <3> QED
      BY <1>1, <3>1, <3>2
  <2>2. ASSUME NEW r \in isReplies, handleInstallSnapshotReply(r.To, r)
        PROVE  CurrentTerm'[k] >= CurrentTerm[k]
    BY <1>1, <2>2 DEF handleInstallSnapshotReply, stepDown, BecomeFollower, TypeOK,
       InstallSnapshotType, InstallSnapshotReplies, termVars
  <2> QED
    BY <1>1, <1>4, <2>1, <2>2 DEF Compaction, Snapshot, handleInstallSnapshot, workerExit,
       termVars
<1>5. CASE Apply
  <2>1. CurrentTerm' = CurrentTerm
    BY Zenon, <1>5 DEF Apply, applyCommitted, applierSnap, termVars
  <2> QED
    BY <1>1, <2>1
<1>6. ASSUME NEW i \in Servers, Restart(i) PROVE CurrentTerm'[k] >= CurrentTerm[k]
  BY <1>1, <1>6, RestartRestores DEF termVars
<1>7. CASE UNCHANGED vars
  BY <1>1, <1>7 DEF vars, termVars
<1> QED
  BY Zenon, <1>2, <1>3, <1>4, <1>5, <1>6, <1>7 DEF Next, Step

\* CurrentTerm never goes back, with snapshots and restarts too: every handler
\* compares the terms before it adopts one, and each new term is persisted.
THEOREM TermsMonotone == Spec => TermMonotone
<1>1. TypeOK /\ Durable /\ [Next]_vars
        => [\A i \in Servers : CurrentTerm'[i] >= CurrentTerm[i]]_vars
  BY Zenon, TermKeptByStep
<1> QED
  BY <1>1, TypeCorrect, DurableAlways, PTL DEF Spec, TermMonotone

-----------------------------------------------------------------------------
(***************************************************************************)
(* Without Snapshot there are no snapshots.                                *)
(***************************************************************************)

\* A step that touches none of the variables NoSnapshots is about keeps it.
LEMMA SameNoSnapshots ==
    ASSUME NoSnapshots,
           UNCHANGED <<lastIncludedIndex, lastIncludedTerm, leaderVars, aeVars, isVars>>
    PROVE  NoSnapshots'
BY Zenon DEF NoSnapshots, leaderVars, aeVars, isVars

\* updateMatchAndNextIndex() to an index of the log keeps nextIndex above 0.
LEMMA UpdateMatchPositive ==
    ASSUME TypeOK, NoSnapshots, NEW i \in Servers, NEW p \in Servers, NEW n \in Int, n >= 0,
           updateMatchAndNextIndex(i, p, n)
    PROVE  \A k, q \in Servers : nextIndex'[k][q] >= 1 /\ matchIndex'[k][q] >= 0
<1>1. nextIndex \in [Servers -> [Servers -> Int]] /\ matchIndex \in [Servers -> [Servers -> Int]]
  BY Zenon DEF TypeOK, LeaderType
<1>2. \A k, q \in Servers : nextIndex[k][q] >= 1 /\ matchIndex[k][q] >= 0
  BY Zenon DEF NoSnapshots
<1>3. \A k, q \in Servers : matchIndex'[k][q] \in Int /\ matchIndex'[k][q] >= 0
  BY Zenon, <1>1, <1>2 DEF updateMatchAndNextIndex
<1>4. \A k, q \in Servers : nextIndex'[k][q] = IF k = i /\ q = p THEN matchIndex'[i][p] + 1
                                               ELSE nextIndex[k][q]
  BY Zenon, <1>1 DEF updateMatchAndNextIndex
<1> QED
  BY <1>1, <1>2, <1>3, <1>4

\* Elections keep NoSnapshots: a new leader's nextIndex is past its dummy.
LEMMA ElectionNoSnapshots == TypeOK /\ NoSnapshots /\ Election => NoSnapshots'
<1> SUFFICES ASSUME TypeOK, NoSnapshots, Election PROVE NoSnapshots'
  BY Zenon
<1>1. ASSUME NEW i \in Servers, startElection(i) PROVE NoSnapshots'
  BY Zenon, <1>1, SameNoSnapshots DEF startElection, logVars
<1>2. ASSUME NEW m \in rvArgs, RequestVote(m.To, m) PROVE NoSnapshots'
  BY Zenon, <1>2, SameNoSnapshots DEF RequestVote, logVars
<1>3. ASSUME NEW r \in rvReplies, handleRequestVoteReply(r.To, r) PROVE NoSnapshots'
  <2> DEFINE i == r.To
  <2>1. i \in Servers
    BY Zenon DEF TypeOK, RequestVoteType, RequestVoteReplies
  <2>2. UNCHANGED <<lastIncludedIndex, lastIncludedTerm, aeVars, isVars>>
    BY Zenon, <1>3 DEF handleRequestVoteReply, stepDown, logVars
  <2>3. UNCHANGED leaderVars \/ becomeLeader(i)
    BY Zenon, <1>3 DEF handleRequestVoteReply, leaderVars
  <2>4. CASE UNCHANGED leaderVars
    BY Zenon, <2>2, <2>4, SameNoSnapshots
  <2>5. CASE becomeLeader(i)
    <3>1. Log[i] \in Seq(Entries) /\ Log[i] # <<>>
      BY Zenon, <2>1 DEF TypeOK, LogType
    <3>2. Len(Log[i]) \in Nat /\ Len(Log[i]) >= 1
      BY Zenon, <3>1, SeqFacts
    <3>3. lastIncludedIndex[i] = 0
      BY Zenon, <2>1 DEF NoSnapshots
    <3>4. \A k, q \in Servers : nextIndex'[k][q] >= 1 /\ matchIndex'[k][q] >= 0
      BY <2>1, <2>5, <3>2, <3>3 DEF becomeLeader, NoSnapshots, TypeOK, LeaderType
    <3> QED
      BY Zenon, <2>2, <3>4 DEF NoSnapshots, aeVars, isVars
  <2> QED
    BY Zenon, <2>3, <2>4, <2>5
<1> QED
  BY Zenon, <1>1, <1>2, <1>3 DEF Election

\* Replication keeps NoSnapshots: every conflict leads the leader back to an
\* index of its log.
LEMMA ReplicationNoSnapshots == TypeOK /\ NoSnapshots /\ Replication => NoSnapshots'
<1> SUFFICES ASSUME TypeOK, NoSnapshots, Replication PROVE NoSnapshots'
  BY Zenon
<1>1. ASSUME NEW i \in Servers, NEW command \in Commands, Start(i, command)
      PROVE  NoSnapshots'
  BY Zenon, <1>1, SameNoSnapshots DEF Start
<1>2. ASSUME NEW i \in Servers, NEW p \in Peers(i), heartbeatWorker(i, p) PROVE NoSnapshots'
  <2>1. /\ UNCHANGED <<lastIncludedIndex, lastIncludedTerm, leaderVars, aeReplies, isVars>>
        /\ \A m \in aeArgs' : m \in aeArgs \/ m.PrevLogIndex = nextIndex[i][p] - 1
    BY <1>2 DEF heartbeatWorker, logVars
  <2>2. nextIndex[i][p] \in Int /\ nextIndex[i][p] >= 1
    BY Zenon DEF NoSnapshots, TypeOK, LeaderType, Peers
  <2> QED
    BY SMTT(30), <2>1, <2>2 DEF NoSnapshots, leaderVars, isVars
<1>3. ASSUME NEW m \in aeArgs, RejectAppendEntries(m.To, m) PROVE NoSnapshots'
  <2> DEFINE new == AppendEntriesReply(m.To, m, CurrentTerm[m.To], FALSE, NoConflict)
  <2>1. /\ UNCHANGED <<lastIncludedIndex, lastIncludedTerm, leaderVars, aeArgs, isVars>>
        /\ aeReplies' = aeReplies \cup {new} /\ m.Term < CurrentTerm[m.To]
    BY Zenon, <1>3 DEF RejectAppendEntries, logVars
  <2>2. m.PrevLogIndex + Len(m.Entries) >= 0 /\ m.Term \in Nat /\ CurrentTerm[m.To] \in Nat
    BY AppendEntriesArgsFacts DEF NoSnapshots, TypeOK, TermType
  <2>3. new.Last >= 0 /\ ~(new.ReplyTerm <= new.Term)
    BY <2>1, <2>2 DEF AppendEntriesReply
  <2> HIDE DEF new
  <2> QED
    BY Zenon, <2>1, <2>3 DEF NoSnapshots, leaderVars, isVars
<1>4. ASSUME NEW m \in aeArgs, AppendEntries(m.To, m) PROVE NoSnapshots'
  <2> DEFINE j == m.To
             match == matchPrevLog(Log[j], lastIncludedIndex[j], lastIncludedTerm[j],
                                   m.PrevLogIndex, m.PrevLogTerm)
             c == IF match THEN NoConflict
                  ELSE Conflict(Log[j], lastIncludedIndex[j], lastIncludedTerm[j],
                                m.PrevLogIndex)
             new == AppendEntriesReply(j, m, m.Term, match, c)
  <2>1. /\ UNCHANGED <<lastIncludedIndex, lastIncludedTerm, leaderVars, aeArgs, isVars>>
        /\ aeReplies' = aeReplies \cup {new}
    BY Zenon, <1>4 DEF AppendEntries
  <2>2. /\ j \in Servers /\ m.PrevLogIndex \in Int /\ m.PrevLogIndex >= 0
        /\ Len(m.Entries) \in Nat
    BY Zenon, AppendEntriesArgsFacts DEF NoSnapshots, TypeOK
  <2>3. /\ Log[j] \in Seq(Entries) \ {<<>>} /\ lastIncludedIndex[j] = 0
        /\ lastIncludedTerm[j] = NoTerm
    BY ZenonT(40), <2>2 DEF NoSnapshots, TypeOK, LogType
  <2>4. ~match => c.XLen >= 0 /\ (c.XLen = 0 => c.XTerm = NoTerm \/ c.XIndex >= 1)
    BY Zenon, <2>2, <2>3, ConflictUncompacted
  <2> HIDE DEF c, match
  <2>5. /\ new.Last >= 0
        /\ ~new.Success => /\ new.Conflict.XLen >= 0
                           /\ new.Conflict.XLen = 0
                                => new.Conflict.XTerm = NoTerm \/ new.Conflict.XIndex >= 1
    BY <2>2, <2>4 DEF AppendEntriesReply
  <2> HIDE DEF new
  <2> QED
    BY ZenonT(40), <2>1, <2>5 DEF NoSnapshots, leaderVars, isVars
<1>5. ASSUME NEW r \in aeReplies, handleSendAppendEntries(r.To, r) PROVE NoSnapshots'
  <2> DEFINE i == r.To
  <2>1. /\ i \in Servers /\ r.From \in Servers /\ r.Last \in Int /\ r.Last >= 0
        /\ r.Conflict \in [XTerm : Int, XIndex : Int, XLen : Int]
        /\ r.Term \in Nat /\ r.ReplyTerm \in Nat
    BY Zenon DEF TypeOK, AppendEntriesType, AppendEntriesReplies, NoSnapshots
  <2>2. UNCHANGED <<lastIncludedIndex, lastIncludedTerm, aeVars, isVars>>
    BY Zenon, <1>5 DEF handleSendAppendEntries, stepDown, logVars
  <2>3. CASE UNCHANGED leaderVars
    BY Zenon, <2>2, <2>3, SameNoSnapshots
  <2>4. CASE updateMatchAndNextIndex(i, r.From, r.Last)
    <3>1. \A k, q \in Servers : nextIndex'[k][q] >= 1 /\ matchIndex'[k][q] >= 0
      BY Zenon, <2>1, <2>4, UpdateMatchPositive
    <3> QED
      BY Zenon, <2>2, <3>1 DEF NoSnapshots, aeVars, isVars
  <2>5. CASE ~UNCHANGED leaderVars /\ ~updateMatchAndNextIndex(i, r.From, r.Last)
    <3> DEFINE back == Backtrack(Log[i], lastIncludedIndex[i], lastIncludedTerm[i], r.Conflict)
    <3>1. /\ r.ReplyTerm <= r.Term /\ ~r.Success
          /\ nextIndex' = [nextIndex EXCEPT ![i][r.From] = back] /\ matchIndex' = matchIndex
      BY Zenon, <1>5, <2>5 DEF handleSendAppendEntries, leaderVars
    <3>2. /\ r.Conflict.XLen >= 0
          /\ r.Conflict.XLen = 0 => r.Conflict.XTerm = NoTerm \/ r.Conflict.XIndex >= 1
      BY Zenon, <3>1 DEF NoSnapshots
    <3>3. /\ Log[i] \in Seq(Entries) /\ lastIncludedIndex[i] = 0
          /\ lastIncludedTerm[i] = NoTerm
      BY Zenon, <2>1 DEF NoSnapshots, TypeOK, LogType
    <3>4. Len(Log[i]) \in Nat
      BY Zenon, <3>3, SeqFacts
    <3>5. back >= 1
      BY Zenon, <2>1, <3>2, <3>3, <3>4, BacktrackUncompacted
    <3> HIDE DEF back
    <3>6. \A k, q \in Servers : nextIndex'[k][q] >= 1 /\ matchIndex'[k][q] >= 0
      BY Zenon, <2>1, <3>1, <3>5 DEF NoSnapshots, TypeOK, LeaderType
    <3> QED
      BY Zenon, <2>2, <3>6 DEF NoSnapshots, aeVars, isVars
  <2> QED
    BY Zenon, <2>3, <2>4, <2>5
<1> QED
  BY Zenon, <1>1, <1>2, <1>3, <1>4, <1>5 DEF Replication

\* The snapshot steps other than the end of a worker cannot happen.
LEMMA CompactionIsWorkerExit ==
    ASSUME SnapshotAt = {}, TypeOK, NoSnapshots, Compaction
    PROVE  \E i \in Servers : \E p \in Peers(i) : workerExit(i, p)
<1>1. ASSUME NEW i \in Servers, Snapshot(i) PROVE FALSE
  BY Zenon, <1>1 DEF Snapshot
<1>2. ASSUME NEW i \in Servers, NEW p \in Peers(i), handleInstallSnapshot(i, p) PROVE FALSE
  <2>1. nextIndex[i][p] <= lastIncludedIndex[i]
    BY Zenon, <1>2 DEF handleInstallSnapshot
  <2>2. nextIndex[i][p] >= 1 /\ lastIncludedIndex[i] = 0 /\ nextIndex[i][p] \in Int
    BY DEF NoSnapshots, Peers, TypeOK, LeaderType
  <2> QED
    BY <2>1, <2>2
<1>3. isArgs = {} /\ isReplies = {}
  BY Zenon DEF NoSnapshots
<1> QED
  BY Zenon, <1>1, <1>2, <1>3 DEF Compaction

\* Every step keeps NoSnapshots.
LEMMA NextNoSnapshots ==
    ASSUME SnapshotAt = {}, TypeOK, Durable, NoSnapshots, [Next]_vars
    PROVE  NoSnapshots'
<1>1. CASE Election
  BY Zenon, <1>1, ElectionNoSnapshots
<1>2. CASE Replication
  BY Zenon, <1>2, ReplicationNoSnapshots
<1>3. CASE Compaction
  BY Zenon, <1>3, CompactionIsWorkerExit, SameNoSnapshots DEF workerExit, logVars
<1>4. CASE Apply
  BY ZenonT(40), <1>4, SameNoSnapshots DEF Apply, applyCommitted, applierSnap, logVars
<1>5. ASSUME NEW i \in Servers, Restart(i) PROVE NoSnapshots'
  <2>1. UNCHANGED <<lastIncludedIndex, lastIncludedTerm>>
    BY Zenon, <1>5, RestartRestores DEF logVars
  <2>2. \A k, q \in Servers : nextIndex'[k][q] >= 1 /\ matchIndex'[k][q] >= 0
    BY <1>5 DEF Restart, NoSnapshots, TypeOK, LeaderType
  <2> QED
    BY Zenon, <1>5, <2>1, <2>2 DEF NoSnapshots, Restart, aeVars, isVars
<1>6. CASE UNCHANGED vars
  BY Zenon, <1>6, SameNoSnapshots DEF vars, logVars
<1> QED
  BY Zenon, <1>1, <1>2, <1>3, <1>4, <1>5, <1>6 DEF Next, Step

-----------------------------------------------------------------------------
(***************************************************************************)
(* Elections.                                                              *)
(***************************************************************************)

\* Two majorities of the peers have a peer in common (count > len(peers)/2).
LEMMA MajoritiesIntersect ==
    ASSUME NEW P \in SUBSET Servers, NEW Q \in SUBSET Servers, IsMajority(P), IsMajority(Q)
    PROVE  P \cap Q # {}
<1>1. IsFiniteSet(Servers)
  BY Zenon, ServersAssumption
<1>2. Cardinality(Servers) \in Nat /\ Cardinality(P) \in Nat /\ Cardinality(Q) \in Nat
  BY Zenon, <1>1, FS_CardinalityType, FS_Subset
<1>3. Cardinality(P) + Cardinality(Q) > Cardinality(Servers)
  BY <1>2 DEF IsMajority
<1> QED
  BY Zenon, <1>1, <1>3, FS_MajoritiesIntersect

\* The initial state satisfies the invariant.
LEMMA InitElectionInv == Init => ElectionInv
<1> SUFFICES ASSUME Init PROVE ElectionInv
  BY Zenon
<1>1. TypeOK /\ Durable
  BY Zenon, InitTypeOK DEF Init, Durable
<1>2. Ballots = {}
  BY Zenon DEF Init, Ballots
<1>3. NoSnapshots
  BY DEF Init, NoSnapshots
<1>4. VotesCounted /\ SendersElected
  BY Zenon DEF Init, VotesCounted, SendersElected
<1> QED
  BY Zenon, <1>1, <1>2, <1>3, <1>4 DEF ElectionInv, VotesKept, OneVotePerTerm

\* The invariant implies that two peers never act as leader in a term.
LEMMA ElectionInvImpliesSafety == ElectionInv => ElectionSafety
<1> SUFFICES ASSUME ElectionInv, NEW i \in Servers, NEW j \in Servers, i # j,
                    NEW t \in LedTerms(i), t \in LedTerms(j)
             PROVE  FALSE
  BY Zenon DEF ElectionSafety
<1>1. ASSUME NEW c \in Servers, t \in LedTerms(c) PROVE Elected(c, t)
  <2>1. CASE \E m \in aeArgs : m.From = c /\ m.Term = t
    BY Zenon, <2>1 DEF ElectionInv, SendersElected
  <2>2. CASE status[c] = "Leader" /\ CurrentTerm[c] = t
    <3>1. votes[c] \in SUBSET Servers
      BY Zenon DEF ElectionInv, TypeOK, RoleType
    <3>2. /\ IsMajority(votes[c])
          /\ \A v \in votes[c] : Ballot(v, c, CurrentTerm[c]) \in Ballots
      BY Zenon, <2>2 DEF ElectionInv, VotesCounted
    <3> QED
      BY Zenon, <2>2, <3>1, <3>2 DEF Elected
  <2>3. isArgs = {}
    BY Zenon DEF ElectionInv, NoSnapshots
  <2> QED
    BY Zenon, <1>1, <2>1, <2>2, <2>3 DEF LedTerms
<1>2. PICK P \in SUBSET Servers : IsMajority(P) /\ \A v \in P : Ballot(v, i, t) \in Ballots
  BY Zenon, <1>1 DEF Elected
<1>3. PICK Q \in SUBSET Servers : IsMajority(Q) /\ \A v \in Q : Ballot(v, j, t) \in Ballots
  BY Zenon, <1>1 DEF Elected
<1>4. PICK v \in P : v \in Q
  BY Zenon, <1>2, <1>3, MajoritiesIntersect
<1>5. Ballot(v, i, t) \in Ballots /\ Ballot(v, j, t) \in Ballots
  BY Zenon, <1>2, <1>3, <1>4
<1> QED
  BY Zenon, <1>5 DEF ElectionInv, OneVotePerTerm, Ballot

-----------------------------------------------------------------------------
(***************************************************************************)
(* Votes.                                                                  *)
(***************************************************************************)

\* A ballot names two peers and a term.
LEMMA BallotType ==
    TypeOK => \A b \in Ballots : b.Voter \in Servers /\ b.For \in Servers /\ b.Term \in Nat
BY DEF TypeOK, RequestVoteType, RequestVoteArgs, RequestVoteReplies, Ballots

\* Ballots are never withdrawn, so who was elected stays elected.
LEMMA ElectedStays ==
    ASSUME SendersElected, Ballots \subseteq Ballots', aeArgs' = aeArgs
    PROVE  SendersElected'
<1>1. ASSUME NEW c, NEW t, Elected(c, t) PROVE Elected(c, t)'
  BY Zenon, <1>1 DEF Elected, Ballot, IsMajority
<1> QED
  BY Zenon, <1>1 DEF SendersElected

\* A step in which nobody votes: each peer keeps its term and vote or moves
\* to a later term, and keeps its role and its count or becomes a follower.
QuietFor(k) ==
    /\ \/ CurrentTerm'[k] = CurrentTerm[k] /\ VotedFor'[k] = VotedFor[k]
       \/ CurrentTerm'[k] > CurrentTerm[k] /\ status'[k] = "Follower"
    /\ \/ status'[k] = "Follower"
       \/ status'[k] = status[k] /\ votes'[k] = votes[k]

\* Such a step keeps what the invariant says of votes.
LEMMA QuietVotes ==
    ASSUME ElectionInv, TypeOK', rvVars' = rvVars, \A k \in Servers : QuietFor(k)
    PROVE  VotesKept' /\ OneVotePerTerm' /\ VotesCounted'
<1>1. Ballots' = Ballots
  BY Zenon DEF Ballots, rvVars
<1>2. \A k \in Servers : CurrentTerm[k] \in Nat /\ CurrentTerm'[k] \in Nat
  BY Zenon DEF ElectionInv, TypeOK, TermType
<1>3. VotesKept'
  BY <1>1, <1>2, BallotType DEF ElectionInv, VotesKept, QuietFor
<1>4. OneVotePerTerm'
  BY Zenon, <1>1 DEF ElectionInv, OneVotePerTerm
<1>5. ASSUME NEW k \in Servers, status'[k] # "Follower"
      PROVE  status'[k] = status[k] /\ votes'[k] = votes[k] /\ CurrentTerm'[k] = CurrentTerm[k]
  BY Zenon, <1>5 DEF QuietFor
<1>6. VotesCounted'
  BY Zenon, <1>1, <1>5 DEF ElectionInv, VotesCounted, Ballot, IsMajority
<1> QED
  BY Zenon, <1>3, <1>4, <1>6

\* startElection() votes in a term in which the candidate has not voted.
LEMMA StartElectionVotes ==
    ASSUME ElectionInv, NEW i \in Servers, startElection(i)
    PROVE  VotesKept' /\ OneVotePerTerm' /\ VotesCounted' /\ Ballots \subseteq Ballots'
<1> DEFINE t == CurrentTerm[i] + 1
           new == Ballot(i, i, t)
<1>1. /\ CurrentTerm' = [CurrentTerm EXCEPT ![i] = t]
      /\ VotedFor' = [VotedFor EXCEPT ![i] = i]
      /\ status' = [status EXCEPT ![i] = "Candidate"]
      /\ votes' = [votes EXCEPT ![i] = {i}]
      /\ rvReplies' = rvReplies /\ Cardinality(Servers) > 1
      /\ rvArgs' = rvArgs \cup
           {[Term |-> t, From |-> i, To |-> p,
             LastLogIndex |-> LastIndex(i), LastLogTerm |-> LastTerm(i)] : p \in Peers(i)}
  BY Zenon DEF startElection
<1>2. Peers(i) # {}
  <2>1. Cardinality({i}) = 1
    BY Zenon, FS_Singleton
  <2> QED
    BY <1>1, <2>1 DEF Peers
<1>3. Ballots' = Ballots \cup {new}
  <2> DEFINE calls == {[Term |-> t, From |-> i, To |-> p,
                        LastLogIndex |-> LastIndex(i), LastLogTerm |-> LastTerm(i)] :
                          p \in Peers(i)}
  <2>1. \A m \in calls : m.From = i /\ m.Term = t
    OBVIOUS
  <2>2. calls # {} /\ rvArgs' = rvArgs \cup calls
    BY Zenon, <1>1, <1>2
  <2> HIDE DEF calls
  <2>3. ASSUME NEW b PROVE b \in Ballots' <=> b \in Ballots \/ b = new
    BY Zenon, <1>1, <2>1, <2>2 DEF Ballots, Ballot
  <2> QED
    BY Zenon, <2>3
<1>4. /\ CurrentTerm \in [Servers -> Nat] /\ VotedFor \in [Servers -> Servers \cup {Nobody}]
      /\ status \in [Servers -> {"Leader", "Candidate", "Follower"}]
      /\ votes \in [Servers -> SUBSET Servers]
  BY Zenon DEF ElectionInv, TypeOK, TermType, RoleType
<1>5. \A b \in Ballots : /\ b.Voter \in Servers /\ b.Term \in Nat
                         /\ b.Term <= CurrentTerm[b.Voter]
  BY Zenon, BallotType DEF ElectionInv, VotesKept
<1>6. new.Voter = i /\ new.For = i /\ new.Term = t
  BY Zenon DEF Ballot
<1>7. \A b \in Ballots : b.Voter = i => b.Term < t
  BY <1>4, <1>5
<1> HIDE DEF new
<1>8. VotesKept'
  BY <1>1, <1>3, <1>4, <1>5, <1>6, <1>7 DEF ElectionInv, VotesKept
<1>9. OneVotePerTerm'
  BY <1>3, <1>4, <1>5, <1>6, <1>7 DEF ElectionInv, OneVotePerTerm
<1>10. VotesCounted'
  <2> SUFFICES ASSUME NEW k \in Servers
               PROVE  /\ status'[k] # "Follower"
                           => \A v \in votes'[k] : Ballot(v, k, CurrentTerm'[k]) \in Ballots'
                      /\ status'[k] = "Leader" => IsMajority(votes'[k])
    BY Zenon DEF VotesCounted, Ballot, IsMajority
  <2>1. CASE k = i
    BY Zenon, <1>1, <1>3, <1>4, <2>1 DEF new
  <2>2. CASE k # i
    BY Zenon, <1>1, <1>3, <1>4, <2>2 DEF ElectionInv, VotesCounted
  <2> QED
    BY Zenon, <2>1, <2>2
<1> QED
  BY Zenon, <1>3, <1>8, <1>9, <1>10

\* RequestVote grants a vote only where VotedFor says there is none yet, or
\* that it was for the same candidate.
LEMMA RequestVoteVotes ==
    ASSUME ElectionInv, NEW m \in rvArgs, RequestVote(m.To, m)
    PROVE  VotesKept' /\ OneVotePerTerm' /\ VotesCounted' /\ Ballots \subseteq Ballots'
<1> DEFINE j == m.To
           granted == GrantsVote(j, m)
           new == Ballot(j, m.From, m.Term)
           reply == [Term |-> m.Term, From |-> j, To |-> m.From,
                     ReplyTerm |-> CurrentTerm'[j], VoteGranted |-> granted]
<1>1. m.From \in Servers /\ j \in Servers /\ m.Term \in Nat
  BY Zenon DEF ElectionInv, TypeOK, RequestVoteType, RequestVoteArgs
<1>2. /\ CurrentTerm \in [Servers -> Nat] /\ VotedFor \in [Servers -> Servers \cup {Nobody}]
      /\ status \in [Servers -> {"Leader", "Candidate", "Follower"}]
      /\ votes \in [Servers -> SUBSET Servers]
  BY Zenon DEF ElectionInv, TypeOK, TermType, RoleType
<1>3. /\ CurrentTerm' = [CurrentTerm EXCEPT ![j] = IF m.Term > @ THEN m.Term ELSE @]
      /\ status' = [status EXCEPT ![j] = IF m.Term > CurrentTerm[j] THEN "Follower" ELSE @]
      /\ VotedFor' = [VotedFor EXCEPT ![j] = IF granted THEN m.From ELSE VoteInTerm(j, m)]
      /\ rvReplies' = rvReplies \cup {reply}
      /\ votes' = votes /\ rvArgs' = rvArgs
  BY Zenon, <1>1, <1>2 DEF RequestVote
<1>4. granted => m.Term >= CurrentTerm[j] /\ VoteInTerm(j, m) \in {Nobody, m.From}
  BY Zenon DEF GrantsVote
<1>5. granted \in BOOLEAN
  BY Zenon DEF GrantsVote
<1>6. new.Voter = j /\ new.For = m.From /\ new.Term = m.Term
  BY Zenon DEF Ballot
<1> HIDE DEF granted
<1>7. Ballots' = IF granted THEN Ballots \cup {new} ELSE Ballots
  <2>1. reply.From = j /\ reply.To = m.From /\ reply.Term = m.Term /\ reply.VoteGranted = granted
    BY Zenon
  <2> HIDE DEF reply
  <2>2. ASSUME NEW b PROVE b \in Ballots' <=> b \in Ballots \/ (granted /\ b = new)
    BY Zenon, <1>3, <1>5, <2>1 DEF Ballots, Ballot
  <2> QED
    BY Zenon, <2>2
<1> HIDE DEF new
<1>8. \A b \in Ballots : /\ b.Voter \in Servers /\ b.For \in Servers /\ b.Term \in Nat
                         /\ b.Term <= CurrentTerm[b.Voter]
                         /\ b.Term = CurrentTerm[b.Voter] => VotedFor[b.Voter] = b.For
  BY Zenon, BallotType DEF ElectionInv, VotesKept
<1>9. granted => \A b \in Ballots : b.Voter = j /\ b.Term = m.Term => b.For = m.From
  BY SMTT(30), <1>1, <1>2, <1>4, <1>8, ServersAssumption DEF VoteInTerm
<1>10. \A b \in Ballots : b.Voter = j /\ b.Term = CurrentTerm'[j] => VotedFor'[j] = b.For
  BY SMTT(30), <1>1, <1>2, <1>3, <1>4, <1>8, <1>9 DEF VoteInTerm
<1>11. \A k \in Servers : CurrentTerm'[k] \in Nat /\ CurrentTerm'[k] >= CurrentTerm[k]
  BY <1>1, <1>2, <1>3
<1>12. granted => CurrentTerm'[j] = m.Term /\ VotedFor'[j] = m.From
  BY <1>1, <1>2, <1>3, <1>4
<1>13. \A k \in Servers \ {j} : CurrentTerm'[k] = CurrentTerm[k] /\ VotedFor'[k] = VotedFor[k]
  BY Zenon, <1>2, <1>3
<1>14. VotesKept'
  <2> SUFFICES ASSUME NEW b \in Ballots'
               PROVE  /\ b.Term <= CurrentTerm'[b.Voter]
                      /\ b.Term = CurrentTerm'[b.Voter] => VotedFor'[b.Voter] = b.For
    BY Zenon DEF VotesKept
  <2>1. CASE b \in Ballots
    <3>1. CurrentTerm[b.Voter] \in Nat
      BY Zenon, <1>2, <1>8, <2>1
    <3> QED
      BY <1>8, <1>10, <1>11, <1>13, <2>1, <3>1
  <2>2. CASE granted /\ b = new
    BY <1>1, <1>6, <1>12, <2>2
  <2> QED
    BY Zenon, <1>7, <2>1, <2>2
<1>15. OneVotePerTerm'
  BY <1>6, <1>7, <1>9 DEF ElectionInv, OneVotePerTerm
<1>16. VotesCounted'
  <2> SUFFICES ASSUME NEW k \in Servers, status'[k] # "Follower"
               PROVE  /\ \A v \in votes'[k] : Ballot(v, k, CurrentTerm'[k]) \in Ballots'
                      /\ status'[k] = "Leader" => IsMajority(votes'[k])
    <3>1. \A k \in Servers : status'[k] = "Leader" => status'[k] # "Follower"
      BY Zenon
    <3> QED
      BY Zenon, <3>1 DEF VotesCounted, Ballot, IsMajority
  <2>1. status'[k] = status[k] /\ CurrentTerm'[k] = CurrentTerm[k] /\ votes'[k] = votes[k]
    BY Zenon, <1>1, <1>2, <1>3
  <2> QED
    BY Zenon, <1>7, <2>1 DEF ElectionInv, VotesCounted
<1> QED
  BY Zenon, <1>7, <1>14, <1>15, <1>16

\* handleRequestVoteReply() counts a vote that was cast for this candidate
\* in its current term, or steps down.
LEMMA HandleReplyVotes ==
    ASSUME ElectionInv, TypeOK', NEW r \in rvReplies, handleRequestVoteReply(r.To, r)
    PROVE  VotesKept' /\ OneVotePerTerm' /\ VotesCounted'
<1> DEFINE i == r.To
<1>1. i \in Servers /\ r.ReplyTerm \in Nat
  BY Zenon DEF ElectionInv, TypeOK, RequestVoteType, RequestVoteReplies
<1>2. /\ CurrentTerm \in [Servers -> Nat] /\ VotedFor \in [Servers -> Servers \cup {Nobody}]
      /\ status \in [Servers -> {"Leader", "Candidate", "Follower"}]
      /\ votes \in [Servers -> SUBSET Servers]
  BY Zenon DEF ElectionInv, TypeOK, TermType, RoleType
<1>3. rvVars' = rvVars /\ CurrentTerm[i] = r.Term /\ status[i] = "Candidate"
  BY Zenon DEF handleRequestVoteReply
<1>4. CASE r.ReplyTerm > CurrentTerm[i]
  <2>1. /\ CurrentTerm' = [CurrentTerm EXCEPT ![i] = r.ReplyTerm]
        /\ VotedFor' = [VotedFor EXCEPT ![i] = Nobody]
        /\ status' = [status EXCEPT ![i] = "Follower"] /\ votes' = votes
    BY <1>1, <1>2, <1>4 DEF handleRequestVoteReply, stepDown, BecomeFollower
  <2>2. \A k \in Servers : QuietFor(k)
    BY Zenon, <1>1, <1>2, <1>4, <2>1 DEF QuietFor
  <2> QED
    BY Zenon, <1>3, <2>2, QuietVotes
<1>5. CASE ~(r.ReplyTerm > CurrentTerm[i])
  <2>1. /\ r.VoteGranted /\ UNCHANGED termVars
        /\ votes' = [votes EXCEPT ![i] = @ \cup {r.From}]
        /\ \/ IsMajority(votes'[i]) /\ status' = [status EXCEPT ![i] = "Leader"]
           \/ ~IsMajority(votes'[i]) /\ status' = status
    BY Zenon, <1>5 DEF handleRequestVoteReply, becomeLeader
  <2>2. Ballots' = Ballots
    BY Zenon, <1>3 DEF Ballots, rvVars
  <2>3. Ballot(r.From, i, CurrentTerm[i]) \in Ballots
    BY Zenon, <1>3, <2>1 DEF Ballots, Ballot
  <2>4. VotesKept' /\ OneVotePerTerm'
    BY Zenon, <2>1, <2>2 DEF ElectionInv, VotesKept, OneVotePerTerm, termVars
  <2>5. VotesCounted'
    <3> SUFFICES ASSUME NEW k \in Servers
                 PROVE  /\ status'[k] # "Follower"
                             => \A v \in votes'[k] : Ballot(v, k, CurrentTerm'[k]) \in Ballots'
                        /\ status'[k] = "Leader" => IsMajority(votes'[k])
      BY Zenon DEF VotesCounted, Ballot, IsMajority
    <3>1. CASE k = i
      <4>1. votes'[k] = votes[i] \cup {r.From}
        BY Zenon, <1>1, <1>2, <2>1, <3>1
      <4>2. \A v \in votes[i] : Ballot(v, i, CurrentTerm[i]) \in Ballots
        BY Zenon, <1>1, <1>3 DEF ElectionInv, VotesCounted
      <4> QED
        BY SMTT(30), <1>1, <1>2, <1>3, <2>1, <2>2, <2>3, <3>1, <4>1, <4>2 DEF termVars
    <3>2. CASE k # i
      <4>1. votes'[k] = votes[k] /\ status'[k] = status[k] /\ CurrentTerm'[k] = CurrentTerm[k]
        BY Zenon, <1>1, <1>2, <2>1, <3>2 DEF termVars
      <4> QED
        BY Zenon, <2>2, <4>1 DEF ElectionInv, VotesCounted
    <3> QED
      BY Zenon, <3>1, <3>2
  <2> QED
    BY Zenon, <2>4, <2>5
<1> QED
  BY Zenon, <1>4, <1>5


-----------------------------------------------------------------------------
(***************************************************************************)
(* The inductive step.                                                     *)
(***************************************************************************)

\* Every step but those of Election is quiet.
LEMMA QuietSteps ==
    ASSUME ElectionInv, SnapshotAt = {},
           Replication \/ Compaction \/ Apply \/ (\E i \in Servers : Restart(i))
    PROVE  rvVars' = rvVars /\ \A k \in Servers : QuietFor(k)
<1>1. /\ CurrentTerm \in [Servers -> Nat] /\ VotedFor \in [Servers -> Servers \cup {Nobody}]
      /\ status \in [Servers -> {"Leader", "Candidate", "Follower"}]
      /\ votes \in [Servers -> SUBSET Servers] /\ TypeOK /\ NoSnapshots /\ Durable
  BY Zenon DEF ElectionInv, TypeOK, TermType, RoleType
<1>2. ASSUME NEW i \in Servers, NEW command \in Commands, Start(i, command)
      PROVE  rvVars' = rvVars /\ \A k \in Servers : QuietFor(k)
  BY Zenon, <1>2 DEF Start, QuietFor, termVars
<1>3. ASSUME NEW i \in Servers, NEW p \in Peers(i), heartbeatWorker(i, p)
      PROVE  rvVars' = rvVars /\ \A k \in Servers : QuietFor(k)
  BY Zenon, <1>3 DEF heartbeatWorker, QuietFor, termVars
<1>4. ASSUME NEW m \in aeArgs, RejectAppendEntries(m.To, m)
      PROVE  rvVars' = rvVars /\ \A k \in Servers : QuietFor(k)
  BY Zenon, <1>4 DEF RejectAppendEntries, QuietFor, termVars
<1>5. ASSUME NEW m \in aeArgs, AppendEntries(m.To, m)
      PROVE  rvVars' = rvVars /\ \A k \in Servers : QuietFor(k)
  <2>1. m.To \in Servers /\ m.Term \in Nat
    BY Zenon, <1>1 DEF TypeOK, AppendEntriesType, AppendEntriesArgs
  <2>2. /\ rvVars' = rvVars /\ votes' = votes
        /\ status' = [status EXCEPT ![m.To] = "Follower"]
        /\ \/ m.Term > CurrentTerm[m.To] /\ CurrentTerm' = [CurrentTerm EXCEPT ![m.To] = m.Term]
              /\ VotedFor' = [VotedFor EXCEPT ![m.To] = Nobody]
           \/ UNCHANGED termVars
    BY Zenon, <1>5 DEF AppendEntries, BecomeFollower, termVars
  <2> QED
    BY Zenon, <1>1, <2>1, <2>2 DEF QuietFor, termVars
<1>6. ASSUME NEW r \in aeReplies, handleSendAppendEntries(r.To, r)
      PROVE  rvVars' = rvVars /\ \A k \in Servers : QuietFor(k)
  <2>1. r.To \in Servers /\ r.ReplyTerm \in Nat
    BY Zenon, <1>1 DEF TypeOK, AppendEntriesType, AppendEntriesReplies
  <2>2. /\ rvVars' = rvVars /\ votes' = votes
        /\ \/ /\ r.ReplyTerm > CurrentTerm[r.To]
              /\ status' = [status EXCEPT ![r.To] = "Follower"]
              /\ CurrentTerm' = [CurrentTerm EXCEPT ![r.To] = r.ReplyTerm]
              /\ VotedFor' = [VotedFor EXCEPT ![r.To] = Nobody]
           \/ UNCHANGED <<termVars, status>>
    BY Zenon, <1>6 DEF handleSendAppendEntries, stepDown, BecomeFollower
  <2> QED
    BY Zenon, <1>1, <2>1, <2>2 DEF QuietFor, termVars
<1>7. ASSUME Compaction PROVE rvVars' = rvVars /\ \A k \in Servers : QuietFor(k)
  <2>1. PICK i \in Servers : \E p \in Peers(i) : workerExit(i, p)
    BY Zenon, <1>1, <1>7, CompactionIsWorkerExit
  <2> QED
    BY Zenon, <2>1 DEF workerExit, QuietFor, termVars
<1>8. ASSUME Apply PROVE rvVars' = rvVars /\ \A k \in Servers : QuietFor(k)
  BY Zenon, <1>8 DEF Apply, applyCommitted, applierSnap, QuietFor, termVars
<1>9. ASSUME NEW i \in Servers, Restart(i)
      PROVE  rvVars' = rvVars /\ \A k \in Servers : QuietFor(k)
  <2>1. UNCHANGED termVars
    BY Zenon, <1>1, <1>9, RestartRestores
  <2>2. /\ rvVars' = rvVars /\ status' = [status EXCEPT ![i] = "Follower"]
        /\ votes' = [votes EXCEPT ![i] = {}]
    BY Zenon, <1>9 DEF Restart
  <2> QED
    BY Zenon, <1>1, <2>1, <2>2 DEF QuietFor, termVars
<1> QED
  BY Zenon, <1>2, <1>3, <1>4, <1>5, <1>6, <1>7, <1>8, <1>9 DEF Replication

\* Who sends AppendEntries is the leader of the term it writes into the call.
LEMMA HeartbeatSendersElected ==
    ASSUME ElectionInv, NEW i \in Servers, NEW p \in Peers(i), heartbeatWorker(i, p)
    PROVE  SendersElected'
<1>1. /\ status[i] = "Leader" /\ rvVars' = rvVars
      /\ \A m \in aeArgs' : m \in aeArgs \/ (m.From = i /\ m.Term = CurrentTerm[i])
  <2>1. status[i] = "Leader" /\ rvVars' = rvVars
    BY Zenon DEF heartbeatWorker
  <2>2. PICK prev, prevTerm, tail :
          aeArgs' = aeArgs \cup
            {[Term |-> CurrentTerm[i], From |-> i, To |-> p, PrevLogIndex |-> prev,
              PrevLogTerm |-> prevTerm, Entries |-> tail, LeaderCommit |-> commitIndex[i]]}
    BY ZenonT(30) DEF heartbeatWorker
  <2> DEFINE call == [Term |-> CurrentTerm[i], From |-> i, To |-> p, PrevLogIndex |-> prev,
                      PrevLogTerm |-> prevTerm, Entries |-> tail,
                      LeaderCommit |-> commitIndex[i]]
  <2>3. call.From = i /\ call.Term = CurrentTerm[i]
    BY Zenon
  <2>4. aeArgs' = aeArgs \cup {call}
    BY Zenon, <2>2
  <2> HIDE DEF call
  <2> QED
    BY ZenonT(30), <2>1, <2>3, <2>4
<1>2. votes[i] \in SUBSET Servers
  BY Zenon DEF ElectionInv, TypeOK, RoleType
<1>3. Elected(i, CurrentTerm[i])
  BY Zenon, <1>1, <1>2 DEF ElectionInv, VotesCounted, Elected
<1>4. Ballots' = Ballots
  BY Zenon, <1>1 DEF Ballots, rvVars
<1>5. ASSUME NEW c, NEW t, Elected(c, t) PROVE Elected(c, t)'
  BY Zenon, <1>4, <1>5 DEF Elected, Ballot, IsMajority
<1>6. \A m \in aeArgs' : Elected(m.From, m.Term)
  BY Zenon, <1>1, <1>3 DEF ElectionInv, SendersElected
<1> QED
  BY Zenon, <1>5, <1>6 DEF SendersElected

\* Every step keeps the invariant.
LEMMA NextElectionInv ==
    ASSUME SnapshotAt = {}, ElectionInv, [Next]_vars
    PROVE  ElectionInv'
<1>1. TypeOK' /\ Durable'
  BY Zenon, NextTypeOK, NextDurable DEF ElectionInv
<1>2. NoSnapshots'
  BY Zenon, NextNoSnapshots DEF ElectionInv
<1>3. CASE Election
  <2>1. aeArgs' = aeArgs
    BY Zenon, <1>3 DEF Election, startElection, RequestVote, handleRequestVoteReply, aeVars
  <2>2. ASSUME NEW i \in Servers, startElection(i) PROVE ElectionInv'
    BY Zenon, <1>1, <1>2, <2>1, <2>2, StartElectionVotes, ElectedStays DEF ElectionInv
  <2>3. ASSUME NEW m \in rvArgs, RequestVote(m.To, m) PROVE ElectionInv'
    BY Zenon, <1>1, <1>2, <2>1, <2>3, RequestVoteVotes, ElectedStays DEF ElectionInv
  <2>4. ASSUME NEW r \in rvReplies, handleRequestVoteReply(r.To, r) PROVE ElectionInv'
    <3>1. Ballots' = Ballots
      BY Zenon, <2>4 DEF handleRequestVoteReply, Ballots, rvVars
    <3>2. SendersElected'
      BY Zenon, <2>1, <3>1, ElectedStays DEF ElectionInv
    <3> QED
      BY Zenon, <1>1, <1>2, <2>4, <3>2, HandleReplyVotes DEF ElectionInv
  <2> QED
    BY Zenon, <1>3, <2>2, <2>3, <2>4 DEF Election
<1>4. CASE Replication \/ Compaction \/ Apply \/ (\E i \in Servers : Restart(i))
  <2>1. rvVars' = rvVars /\ VotesKept' /\ OneVotePerTerm' /\ VotesCounted'
    BY Zenon, <1>1, <1>4, QuietSteps, QuietVotes
  <2>2. CASE \E i \in Servers : \E p \in Peers(i) : heartbeatWorker(i, p)
    BY Zenon, <1>1, <1>2, <2>1, <2>2, HeartbeatSendersElected DEF ElectionInv
  <2>3. CASE ~\E i \in Servers : \E p \in Peers(i) : heartbeatWorker(i, p)
    <3>1. aeArgs' = aeArgs
      BY ZenonT(30), <1>4, <2>3 DEF Replication, Start, RejectAppendEntries, AppendEntries,
         handleSendAppendEntries, Compaction, Snapshot, handleInstallSnapshot, workerExit,
         InstallSnapshot, handleInstallSnapshotReply, Apply, applyCommitted, applierSnap,
         Restart, aeVars
    <3>2. Ballots' = Ballots
      BY Zenon, <2>1 DEF Ballots, rvVars
    <3>3. SendersElected'
      BY Zenon, <3>1, <3>2, ElectedStays DEF ElectionInv
    <3> QED
      BY Zenon, <1>1, <1>2, <2>1, <3>3 DEF ElectionInv
  <2> QED
    BY Zenon, <2>2, <2>3
<1>5. CASE UNCHANGED vars
  <2>1. rvVars' = rvVars /\ \A k \in Servers : QuietFor(k)
    BY Zenon, <1>5 DEF vars, termVars, QuietFor
  <2>2. Ballots' = Ballots /\ aeArgs' = aeArgs
    BY Zenon, <1>5 DEF vars, rvVars, aeVars, Ballots
  <2>3. SendersElected'
    BY Zenon, <2>2, ElectedStays DEF ElectionInv
  <2> QED
    BY Zenon, <1>1, <1>2, <2>1, <2>3, QuietVotes DEF ElectionInv
<1> QED
  BY Zenon, <1>3, <1>4, <1>5 DEF Next, Step

\* The inductive invariant behind the elections holds in every reachable
\* state: votes are counted as RequestVote gave them, a leader has those of a
\* majority, and no peer votes twice in a term.
THEOREM ElectionInvariant == ASSUME SnapshotAt = {} PROVE Spec => []ElectionInv
<1>1. Init => ElectionInv
  BY Zenon, InitElectionInv
<1>2. ElectionInv /\ [Next]_vars => ElectionInv'
  BY Zenon, NextElectionInv
<1> QED
  BY <1>1, <1>2, PTL DEF Spec

\* With a service that takes no snapshots, no two peers ever act as leader in
\* the same term: RequestVote, startElection and handleRequestVoteReply keep
\* to one vote per peer and term for any number of peers, entries, crashes
\* and restarts, and whatever the network does.
THEOREM ElectionSafe == ASSUME SnapshotAt = {} PROVE Spec => []ElectionSafety
<1>1. Init => ElectionInv
  BY Zenon, InitElectionInv
<1>2. ElectionInv /\ [Next]_vars => ElectionInv'
  BY Zenon, NextElectionInv
<1>3. ElectionInv => ElectionSafety
  BY Zenon, ElectionInvImpliesSafety
<1> QED
  BY <1>1, <1>2, <1>3, PTL DEF Spec


\* No step that starts in a state of the invariant changes a vote in a term.
LEMMA VoteKeptByStep ==
    ASSUME SnapshotAt = {}, ElectionInv, [Next]_vars, NEW k \in Servers,
           CurrentTerm'[k] = CurrentTerm[k], VotedFor[k] # Nobody
    PROVE  VotedFor'[k] = VotedFor[k]
<1>1. CurrentTerm \in [Servers -> Nat] /\ VotedFor \in [Servers -> Servers \cup {Nobody}]
  BY Zenon DEF ElectionInv, TypeOK, TermType
<1>2. ASSUME NEW i \in Servers, startElection(i) PROVE VotedFor'[k] = VotedFor[k]
  BY <1>1, <1>2 DEF startElection
<1>3. ASSUME NEW m \in rvArgs, RequestVote(m.To, m) PROVE VotedFor'[k] = VotedFor[k]
  <2>1. m.To \in Servers /\ m.Term \in Nat
    BY ZenonT(40) DEF ElectionInv, TypeOK, RequestVoteType, RequestVoteArgs
  <2>2. /\ VotedFor' = [VotedFor EXCEPT ![m.To] =
                          IF GrantsVote(m.To, m) THEN m.From ELSE VoteInTerm(m.To, m)]
        /\ m.Term > CurrentTerm[m.To] => CurrentTerm' = [CurrentTerm EXCEPT ![m.To] = m.Term]
    BY Zenon, <1>3 DEF RequestVote
  <2> QED
    BY <1>1, <2>1, <2>2 DEF GrantsVote, VoteInTerm
<1>4. ASSUME NEW r \in rvReplies, handleRequestVoteReply(r.To, r)
      PROVE  VotedFor'[k] = VotedFor[k]
  <2>1. r.To \in Servers /\ r.ReplyTerm \in Nat
    BY Zenon DEF ElectionInv, TypeOK, RequestVoteType, RequestVoteReplies
  <2>2. \/ UNCHANGED termVars
        \/ /\ r.ReplyTerm > CurrentTerm[r.To]
           /\ CurrentTerm' = [CurrentTerm EXCEPT ![r.To] = r.ReplyTerm]
           /\ VotedFor' = [VotedFor EXCEPT ![r.To] = Nobody]
    BY Zenon, <1>4 DEF handleRequestVoteReply, stepDown, BecomeFollower
  <2> QED
    BY <1>1, <2>1, <2>2 DEF termVars
<1>5. CASE Replication \/ Compaction \/ Apply \/ (\E i \in Servers : Restart(i))
  <2>1. QuietFor(k)
    BY Zenon, <1>5, QuietSteps
  <2>2. CurrentTerm[k] \in Nat
    BY Zenon, <1>1
  <2> QED
    BY <2>1, <2>2 DEF QuietFor
<1>6. CASE UNCHANGED vars
  BY Zenon, <1>6 DEF vars, termVars
<1> QED
  BY Zenon, <1>2, <1>3, <1>4, <1>5, <1>6 DEF Next, Step, Election

\* With a service that takes no snapshots, a peer never changes its vote
\* within a term, through restarts too: no handler clears VotedFor without
\* raising CurrentTerm.
THEOREM VotesOnce == ASSUME SnapshotAt = {} PROVE Spec => VoteOnce
<1>1. Init => ElectionInv
  BY Zenon, InitElectionInv
<1>2. ElectionInv /\ [Next]_vars => ElectionInv'
  BY Zenon, NextElectionInv
<1>3. ElectionInv /\ [Next]_vars
        => [\A i \in Servers : CurrentTerm'[i] = CurrentTerm[i] /\ VotedFor[i] # Nobody
                                 => VotedFor'[i] = VotedFor[i]]_vars
  BY Zenon, VoteKeptByStep
<1> QED
  BY <1>1, <1>2, <1>3, PTL DEF Spec, VoteOnce
=============================================================================
