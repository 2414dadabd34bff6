------------------------------ MODULE RaftLog ------------------------------
(***************************************************************************)
(* The log arithmetic of src/src/raft/raft.go, as operators on one         *)
(* server's log.                                                           *)
(*                                                                         *)
(* rf.Log is a Go slice whose element 0 is a dummy entry; element p holds  *)
(* the entry whose logical index is p + lastIncludedIndex.  Here a log is  *)
(* a TLA+ sequence whose first element is that dummy, so that the entry at *)
(* physical index p is log[p + 1].  In the operators below log is rf.Log,  *)
(* lii is rf.lastIncludedIndex and lit is rf.lastIncludedTerm.             *)
(***************************************************************************)
EXTENDS Integers, Sequences

\* The Command of the dummy entry: nil in the code.
NoCommand == 0

\* LogEntry{Term: term}, the dummy entry at physical index 0.
Dummy(term) == [Term |-> term, Command |-> NoCommand]

\* The term of lastIncludedTerm before any snapshot, and what termAt returns
\* for an index outside the log.
NoTerm == -1

toPhysicalIndex(lii, logical) == logical - lii

\* termAt(index, false): the term at a physical index.
termAtPhysical(log, p) ==
    IF p < 0 \/ p >= Len(log) THEN NoTerm ELSE log[p + 1].Term

\* termAt(index, true): the term at a logical index.
termAt(log, lii, index) == termAtPhysical(log, toPhysicalIndex(lii, index))

lastLogIndex(log, lii) == Len(log) - 1 + lii

lastLogIndexTerm(log, lit) == IF Len(log) > 1 THEN log[Len(log)].Term ELSE lit

\* The vote rule: a later last term wins, then a longer log.
isLogUpToDate(log, lii, lit, candidateIndex, candidateTerm) ==
    IF candidateTerm # lastLogIndexTerm(log, lit)
    THEN candidateTerm > lastLogIndexTerm(log, lit)
    ELSE candidateIndex >= lastLogIndex(log, lii)

\* The term a leader puts in PrevLogTerm.
getPrevLogTerm(log, lii, lit, prev) ==
    IF prev = lii THEN lit ELSE termAt(log, lii, prev)

-----------------------------------------------------------------------------
(***************************************************************************)
(* The consistency check of AppendEntries.                                 *)
(***************************************************************************)

\* Mutant of matchPrevLog: the term at PrevLogIndex is not compared.
matchPrevLogByIndex(log, lii, lit, prev, prevTerm) == prev <= lastLogIndex(log, lii)

\* matchPrevLog returns true.
matchPrevLog(log, lii, lit, prev, prevTerm) ==
    /\ prev <= lastLogIndex(log, lii)
    /\ IF prev = lii THEN lit = prevTerm ELSE termAt(log, lii, prev) = prevTerm

\* The scan in matchPrevLog for the first index of the run of entries that
\* have the term of the entry at prev.
FirstIndexOfRun(log, lii, prev) ==
    LET inRun(k) == \A l \in k .. prev :
                        termAt(log, lii, l) = termAt(log, lii, prev)
    IN  IF prev <= lii THEN prev + 1
        ELSE CHOOSE k \in lii + 1 .. prev :
                inRun(k) /\ (k > lii + 1 => ~inRun(k - 1))

\* XTerm, XIndex and XLen as matchPrevLog sets them when it returns false.
Conflict(log, lii, lit, prev) ==
    IF prev > lastLogIndex(log, lii)
    THEN [XTerm |-> 0, XIndex |-> 0, XLen |-> lastLogIndex(log, lii) + 1]
    ELSE IF prev = lii
    THEN [XTerm |-> lit, XIndex |-> lii, XLen |-> 0]
    ELSE [XTerm |-> termAt(log, lii, prev),
          XIndex |-> FirstIndexOfRun(log, lii, prev), XLen |-> 0]

\* The reply fields of an RPC that did not set them (Go's zero values).
NoConflict == [XTerm |-> 0, XIndex |-> 0, XLen |-> 0]

\* Mutant of MustWrite: conflicting entries are kept.
MustWriteAtEnd(log, lii, prev, entries, k) ==
    toPhysicalIndex(lii, prev + k) >= 1 /\ toPhysicalIndex(lii, prev + k) >= Len(log)

\* Entry k of an AppendEntries whose entries follow logical index prev has
\* to be written: it is past the end of the log or conflicts with it.
\* Entries the snapshot already covers (physical index < 1) are skipped.
MustWrite(log, lii, prev, entries, k) ==
    LET p == toPhysicalIndex(lii, prev + k)
    IN  /\ p >= 1
        /\ p >= Len(log) \/ termAtPhysical(log, p) # entries[k].Term

\* The loop of AppendEntries: from the first entry that must be written,
\* truncate the log there and append that entry and all that follow it.
AppendNew(log, lii, prev, entries) ==
    IF \E k \in 1 .. Len(entries) : MustWrite(log, lii, prev, entries, k)
    THEN LET k == CHOOSE k \in 1 .. Len(entries) :
                    /\ MustWrite(log, lii, prev, entries, k)
                    /\ \A l \in 1 .. k - 1 : ~MustWrite(log, lii, prev, entries, l)
             p == toPhysicalIndex(lii, prev + k)
         IN  SubSeq(log, 1, IF p < Len(log) THEN p ELSE Len(log))
                \o SubSeq(entries, k, Len(entries))
    ELSE log

\* The last logical index in the leader's log that has the given term.
findLastIndexOfTerm(log, lii, lit, term) ==
    LET hits == {p \in 1 .. Len(log) - 1 : termAtPhysical(log, p) = term}
    IN  IF hits # {} THEN lii + (CHOOSE p \in hits : \A q \in hits : q <= p)
        ELSE IF term = lit THEN lii ELSE -1

\* Mutant of Backtrack: one index too far in every case.
BacktrackTooFar(log, lii, lit, x) ==
    IF x.XLen # 0 THEN x.XLen + 1
    ELSE LET last == findLastIndexOfTerm(log, lii, lit, x.XTerm)
         IN  IF last = -1 THEN x.XIndex + 1 ELSE last + 2

\* The leader's next nextIndex for a peer that rejected with conflict x.
Backtrack(log, lii, lit, x) ==
    IF x.XLen # 0 THEN x.XLen
    ELSE LET last == findLastIndexOfTerm(log, lii, lit, x.XTerm)
         IN  IF last = -1 THEN x.XIndex ELSE last + 1

-----------------------------------------------------------------------------
(***************************************************************************)
(* Log compaction.                                                         *)
(***************************************************************************)

\* Mutant of CompactLog: no new dummy entry is put in front.
CompactLogNoDummy(log, lii, index) ==
    SubSeq(log, toPhysicalIndex(lii, index) + 2, Len(log))

\* Mutant of CompactLog: one entry too many is dropped.
CompactLogTooMuch(log, lii, index) ==
    <<Dummy(0)>> \o SubSeq(log, toPhysicalIndex(lii, index) + 3, Len(log))

\* The log that Snapshot(index) keeps.
CompactLog(log, lii, index) ==
    LET p == toPhysicalIndex(lii, index)
    IN  IF p >= Len(log) THEN <<Dummy(0)>>
        ELSE <<Dummy(0)>> \o SubSeq(log, p + 2, Len(log))

\* The lastIncludedTerm that Snapshot(index) records.
CompactTerm(log, lii, lit, index) ==
    LET p == toPhysicalIndex(lii, index)
    IN  IF p < Len(log) THEN termAtPhysical(log, p)
        ELSE IF Len(log) > 1 THEN termAtPhysical(log, Len(log) - 1) ELSE lit

\* The log that InstallSnapshot keeps: what follows the snapshot's last
\* entry when the server has that very entry, and nothing otherwise.
InstalledLog(log, lii, index, term) ==
    LET p == toPhysicalIndex(lii, index)
    IN  IF p \in 1 .. Len(log) - 1 /\ termAtPhysical(log, p) = term
        THEN <<Dummy(term)>> \o SubSeq(log, p + 2, Len(log))
        ELSE <<Dummy(term)>>
=============================================================================
