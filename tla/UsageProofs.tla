---------------------------- MODULE UsageProofs ----------------------------
(***************************************************************************)
(* The usage store.  First its file, for any number of callers, processes  *)
(* and inodes: what the lock of a process and the rename keep, and what is *)
(* left of it when processes overlap (UsageFile).  Then what the events in *)
(* the file mean, for any caps, windows, limits and length of the list     *)
(* (UsageLedger): the caps are promised when a dispatch is let through and *)
(* charged when it ends, a run that goes on has its start listed, and the  *)
(* limits that are known are the limits that are listed.                   *)
(***************************************************************************)
EXTENDS UsageLedger, UsageFile, TLAPS, FiniteSetTheorems, SequenceTheorems

----------------------------------------------------------------------------
(* The file.                                                               *)

\* A lock is held by a caller of its own process.
LockOwn == \A p \in Procs : lock[p] # Absent => ProcOf[lock[p]] = p

\* A caller that met no other process is alone between load and rename.
Alone ==
  \A c \in Callers \ overlapped : \A d \in Callers : InTriple(c) /\ InTriple(d) => c = d

\* The two names are never names of one inode.
NamesApart == tmp # Absent => tmp # usage

\* A caller carries its own event.
OwnEvent == \A c \in Callers : InTriple(c) => c \in data[c]

\* An inode from which the event of c cannot have been lost.
Good(i, c) == content[i] \in {Empty, Mixed} \/ c \in content[i]

\* Where the event of a caller that met no other process is: in the temporary
\* file it writes, and, once it has returned, in every file and in every
\* ledger in memory that can still become usage.json.
Traced ==
  \A c \in Callers \ overlapped :
    /\ place[c] = "write" => tmp \in Inodes /\ fd[c] = tmp /\ content[tmp] = Empty
    /\ place[c] = "rename" => tmp \in Inodes /\ content[tmp] = data[c]
    /\ place[c] = "returned" =>
         /\ usage \in Inodes /\ Good(usage, c)
         /\ tmp # Absent => Good(tmp, c)
         /\ \A d \in Callers : InTriple(d) => c \in data[d]

\* Without overlap the file is always readable.
SerialReadable == overlapped = {} => Readable

FileInv ==
  /\ FileTypeOK /\ LockHolder /\ LockOwn /\ Alone
  /\ NamesApart /\ OwnEvent /\ Traced /\ SerialReadable

\* What is loaded from a readable file is a set of events.
LEMMA LoadedIsLedger == FileTypeOK /\ Readable => Ledger \in SUBSET Callers
  BY DEF FileTypeOK, Readable, Ledger

LEMMA FileInitInv == FileInit => FileInv
<1> SUFFICES ASSUME FileInit PROVE FileInv
  OBVIOUS
<1>1. FileTypeOK
  BY DEF FileInit, FileTypeOK, Places
<1>2. LockHolder /\ LockOwn
  BY ProcAssumption, AbsentAssumption DEF FileInit, LockHolder, LockOwn
<1>3. Alone /\ OwnEvent /\ NamesApart /\ Traced
  BY DEF FileInit, Alone, OwnEvent, NamesApart, Traced, InTriple
<1>4. SerialReadable
  BY DEF FileInit, SerialReadable, Readable
<1> QED
  BY <1>1, <1>2, <1>3, <1>4 DEF FileInv

\* Every step keeps the types.
LEMMA FileTypeStep == FileTypeOK /\ [FileNext]_fileVars => FileTypeOK'
<1> SUFFICES ASSUME FileTypeOK, [FileNext]_fileVars PROVE FileTypeOK'
  OBVIOUS
<1> USE DEF FileTypeOK, Places
<1>1. ASSUME NEW c \in Callers, Record(c) PROVE FileTypeOK'
  <2>1. CASE Exclusive(c)
    BY <2>1, ProcAssumption DEF Exclusive
  <2>2. CASE Load(c)
    <3>1. Ledger \cup {c} \in SUBSET Callers
      BY <2>2, LoadedIsLedger DEF Load
    <3> QED
      BY <2>2, <3>1 DEF Load
  <2>3. CASE LoadFails(c)
    BY <2>3, ProcAssumption DEF LoadFails, Raise, Unlock
  <2>4. CASE DiskCritical(c)
    BY <2>4, ProcAssumption DEF DiskCritical, Raise, Unlock
  <2>5. CASE OpenTmp(c)
    BY <2>5 DEF OpenTmp
  <2>6. CASE WriteTmp(c)
    BY <2>6 DEF WriteTmp
  <2>7. CASE Rename(c)
    BY <2>7, ProcAssumption DEF Rename, Unlock
  <2>8. CASE RenameFails(c)
    BY <2>8, ProcAssumption DEF RenameFails, Raise, Unlock
  <2> QED
    BY <1>1, <2>1, <2>2, <2>3, <2>4, <2>5, <2>6, <2>7, <2>8 DEF Record
<1>2. ASSUME NEW p \in Procs, Crash(p) PROVE FileTypeOK'
  BY <1>2 DEF Crash
<1>3. CASE UNCHANGED fileVars
  BY <1>3 DEF fileVars
<1> QED
  BY <1>1, <1>2, <1>3 DEF FileNext

\* Every step keeps one holder per lock.
LEMMA LockStep ==
  FileTypeOK /\ LockHolder /\ LockOwn /\ [FileNext]_fileVars => LockHolder' /\ LockOwn'
<1> SUFFICES ASSUME FileTypeOK, LockHolder, LockOwn, [FileNext]_fileVars
             PROVE  LockHolder' /\ LockOwn'
  OBVIOUS
<1> USE ProcAssumption, AbsentAssumption DEF FileTypeOK, Places, LockHolder, LockOwn
<1>1. ASSUME NEW c \in Callers, Record(c) PROVE LockHolder' /\ LockOwn'
  <2>1. CASE Exclusive(c)
    BY <2>1 DEF Exclusive
  <2>2. CASE Load(c)
    BY <2>2 DEF Load
  <2>3. CASE LoadFails(c)
    BY <2>3 DEF LoadFails, Raise, Unlock
  <2>4. CASE DiskCritical(c)
    BY <2>4 DEF DiskCritical, Raise, Unlock
  <2>5. CASE OpenTmp(c)
    BY <2>5 DEF OpenTmp
  <2>6. CASE WriteTmp(c)
    BY <2>6 DEF WriteTmp
  <2>7. CASE Rename(c)
    BY <2>7 DEF Rename, Unlock
  <2>8. CASE RenameFails(c)
    BY <2>8 DEF RenameFails, Raise, Unlock
  <2> QED
    BY <1>1, <2>1, <2>2, <2>3, <2>4, <2>5, <2>6, <2>7, <2>8 DEF Record
<1>2. ASSUME NEW p \in Procs, Crash(p) PROVE LockHolder' /\ LockOwn'
  BY <1>2 DEF Crash
<1>3. CASE UNCHANGED fileVars
  BY <1>3 DEF fileVars
<1> QED
  BY <1>1, <1>2, <1>3 DEF FileNext

\* Every step keeps callers that met no other process alone.
LEMMA AloneStep == FileInv /\ [FileNext]_fileVars => Alone' /\ OwnEvent'
<1> SUFFICES ASSUME FileInv, [FileNext]_fileVars PROVE Alone' /\ OwnEvent'
  OBVIOUS
<1> USE ProcAssumption, AbsentAssumption DEF FileInv, FileTypeOK, Places, InTriple, Alone, OwnEvent
<1>1. ASSUME NEW c \in Callers, Record(c) PROVE Alone' /\ OwnEvent'
  <2>1. CASE Exclusive(c)
    BY <2>1 DEF Exclusive
  <2>2. CASE Load(c)
    <3>1. \A d \in Callers : InTriple(d) => ProcOf[d] # ProcOf[c]
      BY <2>2 DEF Load, LockHolder
    <3>2. \A d \in Callers : InTriple(d) => d \in overlapped' /\ c \in overlapped'
      BY <2>2, <3>1 DEF Load
    <3>3. Alone'
      BY <2>2, <3>2 DEF Load
    <3>4. OwnEvent'
      BY <2>2 DEF Load
    <3> QED
      BY <3>3, <3>4
  <2>3. CASE LoadFails(c)
    BY <2>3 DEF LoadFails, Raise
  <2>4. CASE DiskCritical(c)
    BY <2>4 DEF DiskCritical, Raise
  <2>5. CASE OpenTmp(c)
    BY <2>5 DEF OpenTmp
  <2>6. CASE WriteTmp(c)
    BY <2>6 DEF WriteTmp
  <2>7. CASE Rename(c)
    BY <2>7 DEF Rename
  <2>8. CASE RenameFails(c)
    BY <2>8 DEF RenameFails, Raise
  <2> QED
    BY <1>1, <2>1, <2>2, <2>3, <2>4, <2>5, <2>6, <2>7, <2>8 DEF Record
<1>2. ASSUME NEW p \in Procs, Crash(p) PROVE Alone' /\ OwnEvent'
  BY <1>2 DEF Crash
<1>3. CASE UNCHANGED fileVars
  BY <1>3 DEF fileVars
<1> QED
  BY <1>1, <1>2, <1>3 DEF FileNext

\* Every step keeps the two names apart and a serial file readable.
LEMMA FileStep == FileInv /\ [FileNext]_fileVars => NamesApart' /\ SerialReadable'
<1> SUFFICES ASSUME FileInv, [FileNext]_fileVars PROVE NamesApart' /\ SerialReadable'
  OBVIOUS
<1> USE AbsentAssumption DEF FileInv, FileTypeOK, Places, NamesApart, SerialReadable, Readable
<1>1. ASSUME NEW c \in Callers, Record(c) PROVE NamesApart' /\ SerialReadable'
  <2>1. CASE Exclusive(c)
    BY <2>1 DEF Exclusive
  <2>2. CASE Load(c)
    BY <2>2 DEF Load
  <2>3. CASE LoadFails(c)
    BY <2>3 DEF LoadFails, Raise
  <2>4. CASE DiskCritical(c)
    BY <2>4 DEF DiskCritical, Raise
  <2>5. CASE OpenTmp(c)
    BY <2>5 DEF OpenTmp
  <2>6. CASE WriteTmp(c)
    <3>1. overlapped = {} => fd[c] = tmp /\ tmp \in Inodes
      BY <2>6 DEF WriteTmp, Traced
    <3>2. overlapped = {} /\ usage # Absent => content'[usage] = content[usage]
      BY <2>6, <3>1 DEF WriteTmp
    <3> QED
      BY <2>6, <3>2 DEF WriteTmp
  <2>7. CASE Rename(c)
    <3>1. overlapped = {} => content[tmp] = data[c]
      BY <2>7 DEF Rename, Traced
    <3>2. data[c] # Empty /\ data[c] # Mixed
      BY ContentAssumption
    <3> QED
      BY <2>7, <3>1, <3>2 DEF Rename
  <2>8. CASE RenameFails(c)
    BY <2>8 DEF RenameFails, Raise
  <2> QED
    BY <1>1, <2>1, <2>2, <2>3, <2>4, <2>5, <2>6, <2>7, <2>8 DEF Record
<1>2. ASSUME NEW p \in Procs, Crash(p) PROVE NamesApart' /\ SerialReadable'
  BY <1>2 DEF Crash
<1>3. CASE UNCHANGED fileVars
  BY <1>3 DEF fileVars
<1> QED
  BY <1>1, <1>2, <1>3 DEF FileNext

\* Every step keeps the trace of the events.
LEMMA TraceStep == FileInv /\ [FileNext]_fileVars => Traced'
<1> SUFFICES ASSUME FileInv, [FileNext]_fileVars PROVE Traced'
  OBVIOUS
<1> USE ProcAssumption, AbsentAssumption, ContentAssumption
    DEF FileInv, FileTypeOK, Places, InTriple, Traced, Good
<1>1. ASSUME NEW c \in Callers, Record(c) PROVE Traced'
  <2>1. CASE Exclusive(c)
    BY <2>1 DEF Exclusive
  <2>2. CASE Load(c)
    <3>1. \A d \in Callers \ overlapped : place[d] = "returned" => d \in Ledger
      BY <2>2 DEF Load, Readable, Ledger
    <3>2. overlapped \subseteq overlapped'
      BY <2>2 DEF Load
    <3> QED
      BY <2>2, <3>1, <3>2 DEF Load
  <2>3. CASE LoadFails(c)
    BY <2>3 DEF LoadFails, Raise
  <2>4. CASE DiskCritical(c)
    BY <2>4 DEF DiskCritical, Raise
  <2>5. CASE OpenTmp(c)
    <3>1. PICK i \in Inodes :
            /\ i # usage
            /\ tmp' = i /\ fd' = [fd EXCEPT ![c] = i]
            /\ content' = [content EXCEPT ![i] = Empty]
      BY <2>5 DEF OpenTmp, NamesApart
    <3>2. \A d \in Callers \ overlapped : InTriple(d) => d = c
      BY <2>5 DEF OpenTmp, Alone
    <3>3. ASSUME NEW d \in Callers \ overlapped, place'[d] = "write"
          PROVE  tmp' \in Inodes /\ fd'[d] = tmp' /\ content'[tmp'] = Empty
      BY <2>5, <3>1, <3>2, <3>3 DEF OpenTmp
    <3>4. ASSUME NEW d \in Callers \ overlapped, place'[d] = "rename" PROVE FALSE
      BY <2>5, <3>2, <3>4 DEF OpenTmp
    <3>5. ASSUME NEW d \in Callers \ overlapped, place'[d] = "returned"
          PROVE  /\ usage' \in Inodes /\ Good(usage, d)' /\ Good(tmp, d)'
                 /\ \A e \in Callers : InTriple(e)' => d \in data'[e]
      BY <2>5, <3>1, <3>5 DEF OpenTmp
    <3> QED
      BY <2>5, <3>3, <3>4, <3>5 DEF OpenTmp
  <2>6. CASE WriteTmp(c)
    <3>2. \A d \in Callers \ overlapped : InTriple(d) => d = c
      BY <2>6 DEF WriteTmp, Alone
    <3>3. ASSUME NEW d \in Callers \ overlapped, place'[d] = "write" PROVE FALSE
      BY <2>6, <3>2, <3>3 DEF WriteTmp
    <3>4. ASSUME NEW d \in Callers \ overlapped, place'[d] = "rename"
          PROVE  tmp' \in Inodes /\ content'[tmp'] = data'[d]
      BY <2>6, <3>2, <3>4 DEF WriteTmp
    <3>5. ASSUME NEW d \in Callers \ overlapped, place'[d] = "returned"
          PROVE  /\ usage' \in Inodes /\ Good(usage, d)'
                 /\ tmp' # Absent => Good(tmp, d)'
                 /\ \A e \in Callers : InTriple(e)' => d \in data'[e]
      <4>1. place[d] = "returned" /\ d \in data[c]
        BY <2>6, <3>5 DEF WriteTmp
      <4>2. \A i \in Inodes : Good(i, d) => Good(i, d)'
        BY <2>6, <4>1 DEF WriteTmp
      <4> QED
        BY <2>6, <4>1, <4>2 DEF WriteTmp
    <3> QED
      BY <2>6, <3>3, <3>4, <3>5 DEF WriteTmp
  <2>7. CASE Rename(c)
    <3>2. \A d \in Callers \ overlapped : InTriple(d) => d = c
      BY <2>7 DEF Rename, Alone
    <3>3. ASSUME NEW d \in Callers \ overlapped
          PROVE  place'[d] # "write" /\ place'[d] # "rename"
      BY <2>7, <3>2 DEF Rename
    <3>5. ASSUME NEW d \in Callers \ overlapped, place'[d] = "returned"
          PROVE  /\ usage' \in Inodes /\ Good(usage, d)'
                 /\ \A e \in Callers : InTriple(e)' => d \in data'[e]
      <4>1. CASE d = c
        <5>1. c \in content[tmp]
          BY <2>7, <4>1 DEF Rename, OwnEvent
        <5>2. c \notin overlapped
          BY <4>1
        <5>3. \A e \in Callers : ~InTriple(e)'
          BY <2>7, <5>2 DEF Rename, Alone
        <5> QED
          BY <2>7, <4>1, <5>1, <5>3 DEF Rename
      <4>2. CASE d # c
        BY <2>7, <3>5, <4>2 DEF Rename
      <4> QED
        BY <4>1, <4>2
    <3> QED
      BY <2>7, <3>3, <3>5 DEF Rename
  <2>8. CASE RenameFails(c)
    BY <2>8 DEF RenameFails, Raise
  <2> QED
    BY <1>1, <2>1, <2>2, <2>3, <2>4, <2>5, <2>6, <2>7, <2>8 DEF Record
<1>2. ASSUME NEW p \in Procs, Crash(p) PROVE Traced'
  BY <1>2 DEF Crash
<1>3. CASE UNCHANGED fileVars
  BY <1>3 DEF fileVars
<1> QED
  BY <1>1, <1>2, <1>3 DEF FileNext

\* The conjunction is inductive.
LEMMA FileInvStep == FileInv /\ [FileNext]_fileVars => FileInv'
  BY FileTypeStep, LockStep, AloneStep, FileStep, TraceStep DEF FileInv

\* The specification keeps its types.
THEOREM FileTypeCorrect == FileSpec => []FileTypeOK
<1>1. FileInit => FileTypeOK
  BY FileInitInv DEF FileInv
<1>2. FileTypeOK /\ [FileNext]_fileVars => FileTypeOK'
  BY FileTypeStep
<1> QED
  BY <1>1, <1>2, PTL DEF FileSpec

\* One lock holder per process, and only it is inside load-modify-save.
THEOREM OneHolder == FileSpec => []LockHolder
<1>1. FileInit => FileTypeOK /\ LockHolder /\ LockOwn
  BY FileInitInv DEF FileInv
<1>2. FileTypeOK /\ LockHolder /\ LockOwn /\ [FileNext]_fileVars => (FileTypeOK /\ LockHolder /\ LockOwn)'
  BY FileTypeStep, LockStep
<1> QED
  BY <1>1, <1>2, PTL DEF FileSpec

\* The event of a record_* call that overlapped no other process is in every
\* readable ledger after the call returned, however the others overlap.
THEOREM IsolatedKept == FileSpec => []IsolatedEventKept
<1>1. FileInv => IsolatedEventKept
  BY AbsentAssumption DEF FileInv, Traced, Good, IsolatedEventKept, Readable, Ledger
<1> QED
  BY <1>1, FileInitInv, FileInvStep, PTL DEF FileSpec

\* Without overlap of processes usage.json is readable at every moment and
\* holds the event of every call that returned, whatever is killed.
THEOREM SerialLedgerKept == FileSpec => []LedgerKept
<1>1. FileInv => LedgerKept
  BY AbsentAssumption DEF FileInv, Traced, Good, SerialReadable, LedgerKept, Readable, Ledger
<1> QED
  BY <1>1, FileInitInv, FileInvStep, PTL DEF FileSpec

----------------------------------------------------------------------------
(* The ledger: lists, and what is counted in them.                         *)

\* Positions are counted by their rank: a finite set of numbers is numbered without
\* gaps by how many of its members are up to each.
LEMMA RankBijection ==
  ASSUME NEW T \in SUBSET Int, IsFiniteSet(T)
  PROVE  LET rank == [j \in T |-> Cardinality({k \in T : k <= j})] IN
         /\ Cardinality(T) \in Nat
         /\ rank \in [T -> 1..Cardinality(T)]
         /\ \A i, j \in T : i < j => rank[i] < rank[j]
         /\ \A n \in 1..Cardinality(T) : \E j \in T : rank[j] = n
<1> DEFINE upTo(j) == {k \in T : k <= j}
           rank == [j \in T |-> Cardinality(upTo(j))]
<1>0. \A j \in T : j \in Int
  OBVIOUS
<1>1. Cardinality(T) \in Nat
  BY FS_CardinalityType
<1>2. ASSUME NEW j \in T
      PROVE  /\ IsFiniteSet(upTo(j)) /\ Cardinality(upTo(j)) \in 1..Cardinality(T)
  <2>1. upTo(j) \in SUBSET T /\ upTo(j) # {}
    OBVIOUS
  <2>2. IsFiniteSet(upTo(j)) /\ Cardinality(upTo(j)) <= Cardinality(T)
    BY <2>1, FS_Subset
  <2>3. Cardinality(upTo(j)) \in Nat /\ Cardinality(upTo(j)) # 0
    BY <2>1, <2>2, FS_CardinalityType, FS_EmptySet
  <2> QED
    BY <1>1, <2>2, <2>3
<1>3. rank \in [T -> 1..Cardinality(T)]
  BY <1>2
<1>4. ASSUME NEW i \in T, NEW j \in T, i < j PROVE Cardinality(upTo(i)) < Cardinality(upTo(j))
  <2>1. upTo(i) \in SUBSET upTo(j) /\ upTo(i) # upTo(j)
    <3>1. j \in upTo(j) /\ j \notin upTo(i)
      BY <1>4
    <3>2. upTo(i) \subseteq upTo(j)
      <4>1. ASSUME NEW k \in T, k <= i PROVE k <= j
        BY <1>0, <1>4, <4>1
      <4> QED
        BY <4>1
    <3> QED
      BY <3>1, <3>2
  <2>2. Cardinality(upTo(i)) <= Cardinality(upTo(j)) /\ Cardinality(upTo(i)) # Cardinality(upTo(j))
    BY <1>2, <2>1, FS_Subset
  <2> QED
    BY <1>2, <2>2
<1>5. \A i, j \in T : i < j => rank[i] < rank[j]
  BY <1>4
<1> HIDE DEF rank
<1>6. rank \in Injection(T, 1..Cardinality(T))
  <2>1. ASSUME NEW i \in T, NEW j \in T, rank[i] = rank[j] PROVE i = j
    <3>1. ~(i < j) /\ ~(j < i)
      BY <1>3, <1>5, <2>1
    <3> QED
      BY <1>0, <3>1
  <2> QED
    BY <1>3, <2>1 DEF Injection, IsInjective
<1>7. rank \in Surjection(T, 1..Cardinality(T))
  <2>1. IsFiniteSet(1..Cardinality(T)) /\ Cardinality(1..Cardinality(T)) = Cardinality(T)
    BY <1>1, FS_Interval
  <2> QED
    BY <1>6, <2>1, FS_Injection
<1>8. \A n \in 1..Cardinality(T) : \E j \in T : rank[j] = n
  BY <1>7 DEF Surjection
<1> QED
  BY <1>1, <1>3, <1>5, <1>8 DEF rank

\* Nth numbers a finite set of positions in increasing order.
LEMMA NthNumbers ==
  ASSUME NEW T \in SUBSET Int, IsFiniteSet(T)
  PROVE  /\ Cardinality(T) \in Nat
         /\ \A i \in 1..Cardinality(T) :
              Nth(T, i) \in T /\ Cardinality({k \in T : k <= Nth(T, i)}) = i
         /\ \A j \in T : \E i \in 1..Cardinality(T) :
              Nth(T, i) = j /\ i = Cardinality({k \in T : k <= j})
<1> DEFINE rank == [j \in T |-> Cardinality({k \in T : k <= j})]
<1>1. /\ Cardinality(T) \in Nat
      /\ rank \in [T -> 1..Cardinality(T)]
      /\ \A i, j \in T : i < j => rank[i] < rank[j]
      /\ \A n \in 1..Cardinality(T) : \E j \in T : rank[j] = n
  BY RankBijection
<1>2. \A j \in T : rank[j] = Cardinality({k \in T : k <= j})
  OBVIOUS
<1>3. ASSUME NEW i \in 1..Cardinality(T)
      PROVE  Nth(T, i) \in T /\ Cardinality({k \in T : k <= Nth(T, i)}) = i
  <2>1. \E j \in T : Cardinality({k \in T : k <= j}) = i
    BY <1>1, <1>2
  <2> QED
    BY <2>1 DEF Nth
<1>4. ASSUME NEW j \in T
      PROVE  LET i == Cardinality({k \in T : k <= j}) IN
             i \in 1..Cardinality(T) /\ Nth(T, i) = j
  <2> DEFINE i == rank[j]
  <2>1. i \in 1..Cardinality(T) /\ i = Cardinality({k \in T : k <= j})
    BY <1>1, <1>2
  <2>2. PICK n \in T : n = Nth(T, i) /\ rank[n] = rank[j]
    BY <1>2, <1>3, <2>1
  <2> HIDE DEF rank
  <2>3. n \in Int /\ j \in Int /\ rank[n] \in Int /\ ~(rank[n] < rank[j]) /\ ~(rank[j] < rank[n])
    BY <1>1, <2>2
  <2>4. n = j
    BY <1>1, <2>3
  <2> QED
    BY <2>1, <2>2, <2>4
<1> QED
  BY <1>1, <1>3, <1>4

\* xs is es with some events taken out, none of those at the positions K: position
\* i of xs was position f[i] of es.
Embeds(f, xs, es, K) ==
  /\ f \in [DOMAIN xs -> DOMAIN es]
  /\ \A i, j \in DOMAIN xs : f[i] = f[j] => i = j
  /\ \A i \in DOMAIN xs : xs[i] = es[f[i]]
  /\ \A k \in K : \E i \in DOMAIN xs : f[i] = k

LEMMA PositionsFinite ==
  ASSUME NEW S, NEW es \in Seq(S), NEW T \in SUBSET DOMAIN es
  PROVE  /\ T \in SUBSET Int /\ IsFiniteSet(T)
         /\ Cardinality(T) \in Nat /\ Cardinality(T) <= Len(es)
<1>1. Len(es) \in Nat /\ DOMAIN es = 1..Len(es)
  OBVIOUS
<1>2. IsFiniteSet(DOMAIN es) /\ Cardinality(DOMAIN es) = Len(es)
  <2>1. ASSUME NEW n \in Nat PROVE IsFiniteSet(1..n) /\ Cardinality(1..n) = n
    BY FS_Interval
  <2> QED
    BY <1>1, <2>1
<1>3. IsFiniteSet(T) /\ Cardinality(T) <= Len(es)
  BY <1>2, FS_Subset
<1> QED
  BY <1>1, <1>3, FS_CardinalityType

\* Pick keeps the events at the positions it is given, and no other.
LEMMA PickEmbeds ==
  ASSUME NEW S, NEW es \in Seq(S), NEW T \in SUBSET DOMAIN es
  PROVE  LET f == [i \in 1..Cardinality(T) |-> Nth(T, i)] IN
         /\ Pick(es, T) \in Seq(S) /\ Len(Pick(es, T)) = Cardinality(T)
         /\ DOMAIN Pick(es, T) = 1..Cardinality(T)
         /\ Embeds(f, Pick(es, T), es, T)
         /\ \A i \in DOMAIN f : f[i] \in T
<1> DEFINE n == Cardinality(T)
           f == [i \in 1..n |-> Nth(T, i)]
<1>1. T \in SUBSET Int /\ IsFiniteSet(T) /\ n \in Nat
  BY PositionsFinite
<1>2. /\ \A i \in 1..n : Nth(T, i) \in T /\ Cardinality({k \in T : k <= Nth(T, i)}) = i
      /\ \A j \in T : \E i \in 1..n : Nth(T, i) = j
  BY <1>1, NthNumbers
<1> HIDE DEF n
<1>3. Pick(es, T) = [i \in 1..n |-> es[Nth(T, i)]]
  BY DEF Pick, n
<1>4. \A i \in 1..n : es[Nth(T, i)] \in S
  <2>1. \A j \in DOMAIN es : es[j] \in S
    OBVIOUS
  <2> QED
    BY <1>2, <2>1
<1>5. Pick(es, T) \in Seq(S) /\ Len(Pick(es, T)) = n /\ DOMAIN Pick(es, T) = 1..n
  BY <1>1, <1>3, <1>4
<1>6. \A i, j \in 1..n : Nth(T, i) = Nth(T, j) => i = j
  BY <1>2
<1>7. Embeds(f, Pick(es, T), es, T)
  <2>1. f \in [1..n -> DOMAIN es]
    BY <1>2
  <2>2. \A i, j \in 1..n : f[i] = f[j] => i = j
    BY <1>6
  <2>3. \A i \in 1..n : Pick(es, T)[i] = es[f[i]]
    BY <1>3
  <2>4. \A k \in T : \E i \in 1..n : f[i] = k
    BY <1>2
  <2> QED
    BY <1>5, <2>1, <2>2, <2>3, <2>4 DEF Embeds
<1> QED
  BY <1>2, <1>5, <1>7 DEF n

\* The positions whose events are not too old at time t.
FreshAt(es, t) == {i \in DOMAIN es : es[i].at + Week >= t}

\* Pruning keeps a fresh event unless as many fresh ones follow it as the list
\* may hold.
LEMMA PruneEmbeds ==
  ASSUME NEW es \in Seq(Events), NEW t, scene.keep \in Nat \ {0}
  PROVE  LET K == {j \in FreshAt(es, t) :
                     Cardinality({m \in (j + 1)..Len(es) : es[m].at + Week >= t}) < scene.keep} IN
         /\ PruneEvents(es, t) \in Seq(Events) /\ Len(PruneEvents(es, t)) <= scene.keep
         /\ \E f : Embeds(f, PruneEvents(es, t), es, K)
<1> DEFINE T == FreshAt(es, t)
           n == Cardinality(T)
           later(j) == {m \in (j + 1)..Len(es) : es[m].at + Week >= t}
           K == {j \in T : Cardinality(later(j)) < scene.keep}
           fr == Pick(es, T)
           xs == PruneEvents(es, t)
<1>0. T \in SUBSET DOMAIN es /\ Len(es) \in Nat /\ DOMAIN es = 1..Len(es)
  BY DEF FreshAt
<1>1. T \in SUBSET Int /\ IsFiniteSet(T) /\ n \in Nat
  BY <1>0, PositionsFinite
<1>2. /\ \A i \in 1..n : Nth(T, i) \in T /\ Cardinality({k \in T : k <= Nth(T, i)}) = i
      /\ \A j \in T : \E i \in 1..n : Nth(T, i) = j /\ i = Cardinality({k \in T : k <= j})
  BY <1>1, NthNumbers
<1>3. fr \in Seq(Events) /\ Len(fr) = n /\ DOMAIN fr = 1..n /\ \A i \in 1..n : fr[i] = es[Nth(T, i)]
  <2>1. fr \in Seq(Events) /\ Len(fr) = n /\ DOMAIN fr = 1..n
    BY <1>0, PickEmbeds
  <2>2. \A i \in 1..n : fr[i] = es[Nth(T, i)]
    BY <1>1 DEF Pick
  <2> QED
    BY <2>1, <2>2
<1>4. xs = Last(fr, scene.keep)
  BY DEF PruneEvents, Fresh, FreshAt
<1> HIDE DEF T, n, fr, xs
<1>5a. PICK q \in Nat \ {0} : q = scene.keep
  OBVIOUS
<1>5b. PICK d \in Nat :
        /\ n - d \in Nat /\ d <= n /\ n - d <= q
        /\ n <= q => d = 0
        /\ n > q => d = n - q
  <2>1. CASE n <= q
    <3> WITNESS 0 \in Nat
    <3> QED
      BY <1>1, <2>1
  <2>2. CASE n > q
    <3>1. n - q \in Nat
      BY <1>1, <2>2
    <3> WITNESS n - q \in Nat
    <3> QED
      BY <1>1, <2>2, <3>1
  <2> QED
    BY <1>1, <2>1, <2>2
<1>5. /\ q \in Nat \ {0} /\ d \in Nat /\ q = scene.keep /\ n - d \in Nat /\ d <= n /\ n - d <= q
      /\ n <= q => d = 0
      /\ n > q => d = n - q
  BY <1>5a, <1>5b
<1> DEFINE f == [i \in 1..(n - d) |-> Nth(T, i + d)]
<1>6. /\ xs \in Seq(Events) /\ Len(xs) = n - d /\ DOMAIN xs = 1..(n - d)
      /\ \A i \in 1..(n - d) : xs[i] = fr[i + d]
  <2>1. CASE n <= q
    BY <1>1, <1>3, <1>4, <1>5, <2>1 DEF Last
  <2>2. CASE n > q
    <3>1. xs = SubSeq(fr, d + 1, n)
      <4>1. xs = SubSeq(fr, n - q + 1, n)
        <5>1. ~(Len(fr) <= scene.keep)
          BY <1>1, <1>3, <1>5, <2>2
        <5>2. xs = SubSeq(fr, Len(fr) - scene.keep + 1, Len(fr))
          BY <1>4, <5>1 DEF Last
        <5>3. Len(fr) = n /\ scene.keep = q
          BY <1>3, <1>5
        <5> QED
          BY <5>2, <5>3, Zenon
      <4>2. n - q + 1 = d + 1
        BY <1>5, <2>2
      <4> QED
        BY <4>1, <4>2
    <3>2. \A i \in (d + 1)..n : fr[i] \in Events
      <4>1. \A i \in 1..n : fr[i] \in Events
        BY <1>3
      <4>2. \A i \in (d + 1)..n : i \in 1..n
        BY <1>5
      <4> QED
        BY <4>1, <4>2
    <3>3. /\ xs \in Seq(Events) /\ Len(xs) = IF d + 1 <= n THEN n - (d + 1) + 1 ELSE 0
          /\ \A i \in 1..(n - (d + 1) + 1) : xs[i] = fr[(d + 1) + i - 1]
      BY <1>1, <1>5, <3>1, <3>2, SubSeqProperties
    <3>4. d + 1 <= n /\ n - (d + 1) + 1 = n - d /\ \A i \in 1..(n - d) : (d + 1) + i - 1 = i + d
      BY <1>1, <1>5, <2>2
    <3> QED
      BY <1>5, <3>3, <3>4
  <2> QED
    BY <1>1, <1>5, <2>1, <2>2
<1>7. ASSUME NEW j \in K
      PROVE  \E i \in 1..(n - d) : f[i] = j
  <2>1. PICK r \in 1..n : Nth(T, r) = j /\ r = Cardinality({k \in T : k <= j})
    BY <1>2
  <2>2. later(j) = T \ {k \in T : k <= j}
    <3>1. T = {m \in 1..Len(es) : es[m].at + Week >= t}
      BY <1>0 DEF T, FreshAt
    <3>2. j \in 1..Len(es)
      BY <3>1
    <3> QED
      BY <1>0, <3>1, <3>2
  <2>3. Cardinality(later(j)) = n - r
    <3> DEFINE X == {k \in T : k <= j}
    <3>1. T \cap X = X
      OBVIOUS
    <3>2. Cardinality(T \ X) = Cardinality(T) - Cardinality(T \cap X)
      BY <1>1, FS_Difference
    <3> QED
      BY <2>1, <2>2, <3>1, <3>2 DEF n
  <2>4. n - r < q
    BY <1>5, <2>3
  <2>5. r - d \in 1..(n - d) /\ (r - d) + d = r
    <3>1. r > d
      BY <1>1, <1>5, <2>4
    <3> QED
      BY <1>1, <1>5, <3>1
  <2> QED
    BY <2>1, <2>5
<1>8. Embeds(f, xs, es, K)
  <2>1. \A i \in 1..(n - d) : i + d \in 1..n
    BY <1>1, <1>5
  <2>2. f \in [DOMAIN xs -> DOMAIN es]
    BY <1>0, <1>2, <1>6, <2>1
  <2>3. ASSUME NEW i \in DOMAIN xs, NEW j \in DOMAIN xs, f[i] = f[j] PROVE i = j
    <3>1. i + d \in 1..n /\ j + d \in 1..n /\ Nth(T, i + d) = Nth(T, j + d)
      BY <1>6, <2>1, <2>3
    <3>2. Cardinality({k \in T : k <= Nth(T, i + d)}) = i + d
      BY <1>2, <3>1
    <3>3. Cardinality({k \in T : k <= Nth(T, j + d)}) = j + d
      BY <1>2, <3>1
    <3>4. i + d = j + d
      BY <3>1, <3>2, <3>3
    <3> QED
      BY <1>5, <1>6, <3>4
  <2>4. \A i \in DOMAIN xs : xs[i] = es[f[i]]
    BY <1>3, <1>6, <2>1
  <2> QED
    BY <1>6, <1>7, <2>2, <2>3, <2>4 DEF Embeds
<1> QED
  BY <1>5, <1>6, <1>8 DEF T, xs

\* An embedding that loses none of the positions Y keeps their number.
LEMMA EmbeddingCounts ==
  ASSUME NEW S, NEW xs \in Seq(S), NEW es \in Seq(S), NEW f, NEW K, Embeds(f, xs, es, K),
         NEW X \in SUBSET DOMAIN xs, NEW Y \in SUBSET K,
         \A i \in DOMAIN xs : i \in X <=> f[i] \in Y
  PROVE  Cardinality(X) = Cardinality(Y)
<1> DEFINE g == [i \in X |-> f[i]]
<1>1. IsFiniteSet(X)
  BY PositionsFinite
<1>2. g \in [X -> Y] /\ (\A i, j \in X : g[i] = g[j] => i = j) /\ \A y \in Y : \E i \in X : g[i] = y
  BY DEF Embeds
<1>3. g \in Bijection(X, Y)
  BY <1>2 DEF Bijection, Injection, Surjection, IsInjective
<1>4. ExistsBijection(X, Y)
  BY <1>3 DEF ExistsBijection
<1> QED
  BY <1>1, <1>4, FS_Bijection

----------------------------------------------------------------------------
(* What a save keeps.                                                      *)

\* The positions of the executions recorded since t.
Executions(es, t) == {i \in DOMAIN es : es[i].kind = "execution" /\ es[i].at >= t}

\* No event is from the future, and a cooldown is of a limit.
SoundEvent(e) ==
  /\ e.at <= now
  /\ e.kind = "cooldown" => e.who \in Keys

\* An event that counts is not too old for any save from now or before.
LEMMA CountsFresh ==
  ASSUME TypeOK, NEW e \in Events, SoundEvent(e), Counts(e), NEW t \in Int, t <= now
  PROVE  e.at + Week >= t
<1>1. /\ e.at \in Int /\ e.reset \in Int /\ now \in Int
      /\ Day \in Int /\ Week \in Int /\ Day <= Week
  BY WindowAssumption, ResetAssumption, BoundAssumption DEF TypeOK, Events
<1>2. CASE e.at + Day >= now
  BY <1>1, <1>2
<1>3. CASE e.at + Week >= now
  BY <1>1, <1>3
<1> QED
  BY <1>2, <1>3 DEF Counts

\* A save keeps every event that counts, or says so in cut; it keeps the event
\* that was appended last, adds none, and keeps the number of executions of the
\* last day.
LEMMA SaveKeeps ==
  ASSUME TypeOK, NEW es \in Seq(Events), NEW t \in Int, t <= now, Save(es, t),
         \A i \in DOMAIN es : SoundEvent(es[i])
  PROVE  /\ events' \in Seq(Events) /\ Len(events') <= scene.keep
         /\ cut' \subseteq Kinds /\ cut \subseteq cut'
         /\ \A i \in DOMAIN events' : \E j \in DOMAIN es : events'[i] = es[j]
         /\ \A j \in DOMAIN es :
              Counts(es[j]) /\ es[j].kind \notin cut' => \E i \in DOMAIN events' : events'[i] = es[j]
         /\ Len(es) > 0 /\ es[Len(es)].at + Week >= t =>
              \E i \in DOMAIN events' : events'[i] = es[Len(es)]
         /\ "execution" \notin cut' =>
              \A u \in Int : u + Day >= now =>
                Cardinality(Executions(events', u)) = Cardinality(Executions(es, u))
<1> DEFINE later(j) == {m \in (j + 1)..Len(es) : es[m].at + Week >= t}
           K == {j \in FreshAt(es, t) : Cardinality(later(j)) < scene.keep}
<1>1. scene.keep \in Nat \ {0} /\ Len(es) \in Nat /\ DOMAIN es = 1..Len(es)
  BY KeepAssumption DEF TypeOK
<1>2. events' = PruneEvents(es, t)
  BY DEF Save
<1>3. /\ events' \in Seq(Events) /\ Len(events') <= scene.keep
      /\ \E f : Embeds(f, events', es, K)
  BY <1>1, <1>2, PruneEmbeds
<1>4. PICK f : Embeds(f, events', es, K)
  BY <1>3
<1>5. cut' = cut \cup {es[i].kind : i \in {j \in DOMAIN es :
              Counts(es[j]) /\ Cardinality(later(j)) >= scene.keep}}
  BY DEF Save
<1>6. \A j \in DOMAIN es : es[j] \in Events
  OBVIOUS
<1>7. cut' \subseteq Kinds /\ cut \subseteq cut'
  BY <1>5, <1>6 DEF TypeOK, Events
<1>8. ASSUME NEW j \in DOMAIN es PROVE Cardinality(later(j)) \in Nat
  <2>1. later(j) \in SUBSET DOMAIN es
    BY <1>1
  <2> QED
    BY <2>1, PositionsFinite
<1>9. ASSUME NEW j \in DOMAIN es, Counts(es[j]), es[j].kind \notin cut' PROVE j \in K
  <2>1. es[j].at + Week >= t
    BY <1>6, <1>9, CountsFresh
  <2>2. ~(Cardinality(later(j)) >= scene.keep)
    BY <1>5, <1>9
  <2>3. Cardinality(later(j)) < scene.keep
    BY <1>1, <1>8, <2>2
  <2> QED
    BY <2>1, <2>3 DEF FreshAt
<1>10. ASSUME Len(es) > 0, es[Len(es)].at + Week >= t PROVE Len(es) \in K
  <2>1. Len(es) \in DOMAIN es
    BY <1>1, <1>10
  <2>2. later(Len(es)) = {}
    BY <1>1
  <2>3. Cardinality(later(Len(es))) < scene.keep
    <3>1. Cardinality(later(Len(es))) = 0
      BY <2>2, FS_EmptySet, Zenon
    <3> QED
      BY <1>1, <3>1
  <2> QED
    BY <1>10, <2>1, <2>3 DEF FreshAt
<1> HIDE DEF K
<1>11. \A i \in DOMAIN events' : \E j \in DOMAIN es : events'[i] = es[j]
  BY <1>4 DEF Embeds
<1>12. \A k \in K : \E i \in DOMAIN events' : events'[i] = es[k]
  BY <1>4 DEF Embeds
<1>13. ASSUME "execution" \notin cut', NEW u \in Int, u + Day >= now
       PROVE  Cardinality(Executions(events', u)) = Cardinality(Executions(es, u))
  <2>1. ASSUME NEW j \in Executions(es, u) PROVE j \in K
    <3>1. j \in DOMAIN es /\ es[j].kind = "execution" /\ es[j].at >= u /\ es[j].at \in Int
      BY <1>6 DEF Executions, Events
    <3>2. es[j].at + Day >= now
      <4>1. Day \in Int /\ now \in Int
        BY WindowAssumption DEF TypeOK
      <4> QED
        BY <1>13, <3>1, <4>1
    <3> QED
      BY <1>9, <1>13, <3>1, <3>2 DEF Counts
  <2>2. \A i \in DOMAIN events' : i \in Executions(events', u) <=> f[i] \in Executions(es, u)
    BY <1>4 DEF Embeds, Executions
  <2>3. Executions(events', u) \in SUBSET DOMAIN events' /\ Executions(es, u) \in SUBSET K
    BY <2>1 DEF Executions
  <2> QED
    BY <1>3, <1>4, <2>2, <2>3, EmbeddingCounts
<1> QED
  BY <1>3, <1>7, <1>9, <1>10, <1>11, <1>12, <1>13

\* What a reader sees is the list in the file, less the events that are too old.
LEMMA SeenKeeps ==
  ASSUME TypeOK
  PROVE  /\ Seen \in Seq(Events)
         /\ \A i \in DOMAIN Seen : \E j \in DOMAIN events : Seen[i] = events[j]
         /\ \A j \in DOMAIN events :
              events[j].at + Week >= now => \E i \in DOMAIN Seen : Seen[i] = events[j]
         /\ \A u \in Int : u + Week >= now =>
              Cardinality(Executions(Seen, u)) = Cardinality(Executions(events, u))
<1> DEFINE later(j) == {m \in (j + 1)..Len(events) : events[m].at + Week >= now}
           K == {j \in FreshAt(events, now) : Cardinality(later(j)) < scene.keep}
<1>1. /\ scene.keep \in Nat \ {0} /\ Len(events) \in Nat /\ Len(events) <= scene.keep
      /\ events \in Seq(Events) /\ DOMAIN events = 1..Len(events)
  BY KeepAssumption DEF TypeOK
<1>2. Seen \in Seq(Events) /\ \E f : Embeds(f, Seen, events, K)
  BY <1>1, PruneEmbeds DEF Seen
<1>3. PICK f : Embeds(f, Seen, events, K)
  BY <1>2
<1>4. ASSUME NEW j \in DOMAIN events, events[j].at + Week >= now PROVE j \in K
  <2>1. later(j) \in SUBSET DOMAIN events /\ later(j) \subseteq DOMAIN events \ {j}
    BY <1>1
  <2>2. IsFiniteSet(DOMAIN events) /\ Cardinality(DOMAIN events) <= Len(events) /\ Cardinality(DOMAIN events) \in Nat
    BY <1>1, PositionsFinite
  <2>3. later(j) # DOMAIN events
    BY <2>1
  <2>4. Cardinality(later(j)) <= Cardinality(DOMAIN events) /\ Cardinality(later(j)) # Cardinality(DOMAIN events)
    BY <2>1, <2>2, <2>3, FS_Subset
  <2>5. Cardinality(later(j)) \in Nat
    BY <1>1, <2>1, PositionsFinite
  <2>6. Cardinality(later(j)) < scene.keep
    BY <1>1, <2>2, <2>4, <2>5
  <2> QED
    BY <1>4, <2>6 DEF FreshAt
<1> HIDE DEF K
<1>5. \A i \in DOMAIN Seen : \E j \in DOMAIN events : Seen[i] = events[j]
  BY <1>3 DEF Embeds
<1>6. \A k \in K : \E i \in DOMAIN Seen : Seen[i] = events[k]
  BY <1>3 DEF Embeds
<1>7. ASSUME NEW u \in Int, u + Week >= now
      PROVE  Cardinality(Executions(Seen, u)) = Cardinality(Executions(events, u))
  <2>1. ASSUME NEW j \in Executions(events, u) PROVE j \in K
    <3>0. \A i \in DOMAIN events : events[i] \in Events
      BY <1>1
    <3>1. j \in DOMAIN events /\ events[j].at >= u /\ events[j].at \in Int
      BY <3>0 DEF Executions, Events
    <3>2. events[j].at + Week >= now
      <4>1. Week \in Int /\ now \in Int
        BY WindowAssumption DEF TypeOK
      <4> QED
        BY <1>7, <3>1, <4>1
    <3> QED
      BY <1>4, <3>1, <3>2
  <2>2. \A i \in DOMAIN Seen : i \in Executions(Seen, u) <=> f[i] \in Executions(events, u)
    BY <1>3 DEF Embeds, Executions
  <2>3. Executions(Seen, u) \in SUBSET DOMAIN Seen /\ Executions(events, u) \in SUBSET K
    BY <2>1 DEF Executions
  <2> QED
    BY <1>1, <1>2, <1>3, <2>2, <2>3, EmbeddingCounts
<1> QED
  BY <1>2, <1>4, <1>5, <1>6, <1>7

\* An event is appended to a list and the list is saved.
LEMMA AppendKeeps ==
  ASSUME TypeOK, NEW b \in Seq(Events), \A i \in DOMAIN b : SoundEvent(b[i]),
         NEW e \in Events, SoundEvent(e), NEW t \in Int, t <= now, e.at + Week >= t,
         Save(Append(b, e), t)
  PROVE  /\ events' \in Seq(Events) /\ Len(events') <= scene.keep
         /\ cut' \subseteq Kinds /\ cut \subseteq cut'
         /\ \A i \in DOMAIN events' : events'[i] = e \/ \E j \in DOMAIN b : events'[i] = b[j]
         /\ \A j \in DOMAIN b :
              Counts(b[j]) /\ b[j].kind \notin cut' => \E i \in DOMAIN events' : events'[i] = b[j]
         /\ \E i \in DOMAIN events' : events'[i] = e
         /\ "execution" \notin cut' =>
              \A u \in Int : u + Day >= now =>
                Cardinality(Executions(events', u)) =
                  Cardinality(Executions(b, u))
                    + (IF e.kind = "execution" /\ e.at >= u THEN 1 ELSE 0)
<1> DEFINE es == Append(b, e)
           n == Len(b)
<1>1. /\ es \in Seq(Events) /\ n \in Nat /\ Len(es) = n + 1
      /\ DOMAIN b = 1..n /\ DOMAIN es = 1..(n + 1)
      /\ es[n + 1] = e /\ \A i \in 1..n : es[i] = b[i]
  OBVIOUS
<1> HIDE DEF es, n
<1>2. \A i \in 1..(n + 1) : i \in 1..n \/ i = n + 1
  BY <1>1
<1>3. \A i \in DOMAIN es : SoundEvent(es[i])
  BY <1>1, <1>2
<1>4. Save(es, t)
  BY DEF es
<1>5. /\ events' \in Seq(Events) /\ Len(events') <= scene.keep
      /\ cut' \subseteq Kinds /\ cut \subseteq cut'
      /\ \A i \in DOMAIN events' : \E j \in DOMAIN es : events'[i] = es[j]
      /\ \A j \in DOMAIN es :
           Counts(es[j]) /\ es[j].kind \notin cut' => \E i \in DOMAIN events' : events'[i] = es[j]
      /\ Len(es) > 0 /\ es[Len(es)].at + Week >= t =>
           \E i \in DOMAIN events' : events'[i] = es[Len(es)]
      /\ "execution" \notin cut' =>
           \A u \in Int : u + Day >= now =>
             Cardinality(Executions(events', u)) = Cardinality(Executions(es, u))
  BY <1>1, <1>3, <1>4, SaveKeeps
<1>6. \A i \in DOMAIN events' : events'[i] = e \/ \E j \in DOMAIN b : events'[i] = b[j]
  BY <1>1, <1>2, <1>5
<1>7. \A j \in DOMAIN b :
        Counts(b[j]) /\ b[j].kind \notin cut' => \E i \in DOMAIN events' : events'[i] = b[j]
  <2>1. \A j \in 1..n : j \in DOMAIN es /\ es[j] = b[j]
    BY <1>1
  <2> QED
    BY <1>1, <1>5, <2>1
<1>8. \E i \in DOMAIN events' : events'[i] = e
  BY <1>1, <1>5
<1>9. ASSUME NEW u \in Int
      PROVE  Cardinality(Executions(es, u)) =
               Cardinality(Executions(b, u)) + (IF e.kind = "execution" /\ e.at >= u THEN 1 ELSE 0)
  <2>1. IsFiniteSet(Executions(b, u)) /\ Cardinality(Executions(b, u)) \in Nat
    <3>1. Executions(b, u) \in SUBSET DOMAIN b
      BY DEF Executions
    <3> QED
      BY <3>1, PositionsFinite
  <2>2. n + 1 \notin Executions(b, u)
    BY <1>1 DEF Executions
  <2>3. CASE e.kind = "execution" /\ e.at >= u
    <3>1. Executions(es, u) = Executions(b, u) \cup {n + 1}
      BY <1>1, <1>2, <2>3 DEF Executions
    <3>2. Cardinality(Executions(es, u)) = Cardinality(Executions(b, u)) + 1
      BY <2>1, <2>2, <3>1, FS_AddElement
    <3> QED
      BY <2>3, <3>2
  <2>4. CASE ~(e.kind = "execution" /\ e.at >= u)
    <3>1. Executions(es, u) = Executions(b, u)
      BY <1>1, <1>2, <2>4 DEF Executions
    <3> QED
      BY <2>1, <2>4, <3>1
  <2> QED
    BY <2>3, <2>4
<1> QED
  BY <1>5, <1>6, <1>7, <1>8, <1>9

\* Cooldowns are taken out of the list.
LEMMA WithoutKeeps ==
  ASSUME TypeOK, \A i \in DOMAIN events : SoundEvent(events[i]),
         NEW gone \in SUBSET DOMAIN events, \A i \in gone : events[i].kind # "execution"
  PROVE  LET b == Without(events, gone) IN
         /\ b \in Seq(Events) /\ Len(b) <= Len(events) /\ \A i \in DOMAIN b : SoundEvent(b[i])
         /\ \A i \in DOMAIN b : \E j \in DOMAIN events \ gone : b[i] = events[j]
         /\ \A j \in DOMAIN events \ gone : \E i \in DOMAIN b : b[i] = events[j]
         /\ \A u \in Int : Cardinality(Executions(b, u)) = Cardinality(Executions(events, u))
<1> DEFINE T == DOMAIN events \ gone
           b == Without(events, gone)
           f == [i \in 1..Cardinality(T) |-> Nth(T, i)]
<1>1. events \in Seq(Events) /\ T \in SUBSET DOMAIN events
  BY DEF TypeOK
<1>2. b = Pick(events, T)
  BY DEF Without
<1>3. /\ b \in Seq(Events) /\ Len(b) = Cardinality(T) /\ DOMAIN b = DOMAIN f
      /\ Embeds(f, b, events, T) /\ \A i \in DOMAIN f : f[i] \in T
  <2>1. LET g == [i \in 1..Cardinality(T) |-> Nth(T, i)] IN
        /\ Pick(events, T) \in Seq(Events) /\ Len(Pick(events, T)) = Cardinality(T)
        /\ DOMAIN Pick(events, T) = 1..Cardinality(T)
        /\ Embeds(g, Pick(events, T), events, T)
        /\ \A i \in DOMAIN g : g[i] \in T
    <3> HIDE DEF T
    <3> QED
      BY <1>1, PickEmbeds
  <2>2. DOMAIN f = 1..Cardinality(T)
    OBVIOUS
  <2> HIDE DEF T, b
  <2> QED
    BY <1>2, <2>1, <2>2
<1>4. Len(b) <= Len(events)
  BY <1>1, <1>3, PositionsFinite
<1> HIDE DEF T, b, f
<1>5. \A i \in DOMAIN b : \E j \in T : b[i] = events[j]
  BY <1>3 DEF Embeds
<1>6. \A j \in T : \E i \in DOMAIN b : b[i] = events[j]
  BY <1>3 DEF Embeds
<1>7. \A i \in DOMAIN b : SoundEvent(b[i])
  BY <1>1, <1>5
<1>8. ASSUME NEW u \in Int
      PROVE  Cardinality(Executions(b, u)) = Cardinality(Executions(events, u))
  <2>1. Executions(b, u) \in SUBSET DOMAIN b /\ Executions(events, u) \in SUBSET T
    BY DEF Executions, T
  <2>2. \A i \in DOMAIN b : i \in Executions(b, u) <=> f[i] \in Executions(events, u)
    BY <1>3 DEF Embeds, Executions
  <2> QED
    BY <1>1, <1>3, <2>1, <2>2, EmbeddingCounts
<1> QED
  BY <1>3, <1>4, <1>5, <1>6, <1>7, <1>8 DEF T, b

----------------------------------------------------------------------------
(* The inductive invariant of the ledger.                                  *)

EventsSound == \A i \in DOMAIN events : SoundEvent(events[i])

\* What is remembered of a time is of the past.
PastSound ==
  /\ probe # None => probe.at <= now
  /\ \A e \in scene.executors : began[e] <= now

\* An executor has a run id while it runs, and nobody else has the same.
RunsApart ==
  \A e \in scene.executors :
    /\ pc[e] = "running" <=> run[e] # None
    /\ \A f \in scene.executors : run[e] = run[f] /\ run[e] # None => e = f

\* The executions of one time are numbered from 1.
BookedSound ==
  /\ IsFiniteSet(booked)
  /\ \A b \in booked : b[1] <= now /\ b[2] <= Cardinality({c \in booked : c[1] = b[1]})

BookedSince(t) == {b \in booked : b[1] >= t}

\* The list has the executions of the last day, since whenever they are counted.
Charged ==
  "execution" \notin cut =>
    \A t \in Int : t + Day >= now =>
      Cardinality(Executions(events, t)) = Cardinality(BookedSince(t))

\* The executors that were let through and have not been charged.
Owing == {e \in scene.executors : pc[e] \in {"admitted", "running", "book"}}

\* The caps hold with what is still owing.
RatePromised ==
  "execution" \notin cut =>
    /\ Spent(Hour) + Cardinality(Owing) < scene.hourCap + Cardinality(scene.executors)
    /\ Spent(Day) + Cardinality(Owing) < scene.dayCap + Cardinality(scene.executors)

\* The start of a run is listed for a day, and no end of it, but for a sweep's.
SlotOf(e) ==
  run[e] # None =>
    /\ e \in swept \/ \A i \in DOMAIN events : ~(events[i].kind = "finished" /\ events[i].who = run[e])
    /\ began[e] + Day >= now => \E i \in DOMAIN events :
         events[i].kind = "started" /\ events[i].who = run[e] /\ events[i].at = began[e]

SlotListed == "started" \notin cut => \A e \in scene.executors : SlotOf(e)

\* A limit that is known is listed, in a report that is not too old.
LimitListed ==
  "cooldown" \notin cut =>
    \A k \in Keys \ overtaken : limit[k] > now =>
      \E i \in DOMAIN events :
        /\ events[i].kind = "cooldown" /\ events[i].who = k /\ events[i].reset = limit[k]
        /\ events[i].at + Week >= now

\* The probe's answer disproves the limit, and it is still to be cleared.
Refuted(k) == probe # None /\ Disproved(k)

\* A limit that is listed and has not reset is known, or about to be cleared.
ListedKnown ==
  \A i \in DOMAIN events : Active(events[i], now) =>
    \/ events[i].reset = limit[events[i].who]
    \/ events[i].who \in overtaken \/ Refuted(events[i].who)

\* What the probe disproved is not known, unless it was reported again since.
RefutedForgotten == \A k \in Keys : Refuted(k) => limit[k] = 0 \/ k \in overtaken

LedgerInv ==
  /\ TypeOK /\ EventsSound /\ PastSound /\ RunsApart
  /\ BookedSound /\ Charged /\ RatePromised /\ SlotListed
  /\ LimitListed /\ ListedKnown /\ RefutedForgotten

LEMMA LedgerInit == Init => LedgerInv
<1> SUFFICES ASSUME Init PROVE LedgerInv
  OBVIOUS
<1>1. TypeOK
  <2>1. scene.keep \in Nat \ {0}
    BY KeepAssumption DEF Init
  <2>2. events \in Seq(Events) /\ Len(events) <= scene.keep
    BY <2>1 DEF Init
  <2>3. 0 \in 0..MaxTime /\ 0 \in 0..(MaxTime + MaxReset)
    BY BoundAssumption, ResetAssumption, WindowAssumption
  <2> QED
    BY <2>2, <2>3 DEF Init, TypeOK
<1>2. EventsSound /\ PastSound /\ RunsApart /\ SlotListed /\ ListedKnown /\ RefutedForgotten
  BY DEF Init, EventsSound, PastSound, RunsApart, SlotListed, SlotOf, ListedKnown, RefutedForgotten, Refuted
<1>3. LimitListed
  BY DEF Init, LimitListed
<1>4. BookedSound
  BY FS_EmptySet DEF Init, BookedSound
<1>5. Charged
  <2>1. \A t \in Int : Executions(events, t) = {} /\ BookedSince(t) = {}
    BY DEF Init, Executions, BookedSince
  <2> QED
    BY <2>1 DEF Charged
<1>6. RatePromised
  <2>1. Owing = {}
    BY DEF Init, Owing
  <2>2. Spent(Hour) = Cardinality({}) /\ Spent(Day) = Cardinality({})
    BY DEF Init, Spent
  <2>3. Cardinality({}) = 0
    BY FS_EmptySet
  <2>4. /\ scene.hourCap \in Nat /\ scene.dayCap \in Nat /\ IsFiniteSet(scene.executors)
        /\ scene.executors = {} => scene.hourCap > 0 /\ scene.dayCap > 0
    BY CapAssumption DEF Init
  <2>5. Cardinality(scene.executors) \in Nat /\ (Cardinality(scene.executors) = 0 => scene.executors = {})
    BY <2>4, FS_CardinalityType, FS_EmptySet
  <2> QED
    BY <2>1, <2>2, <2>3, <2>4, <2>5 DEF RatePromised
<1> QED
  BY <1>1, <1>2, <1>3, <1>4, <1>5, <1>6 DEF LedgerInv

\* What the gates count is what was recorded.
LEMMA CountIsSpent ==
  ASSUME LedgerInv, "execution" \notin cut, NEW w \in {Hour, Day}
  PROVE  ExecCount(w) = Spent(w)
<1>1. /\ w \in Nat /\ w <= Day /\ Day <= Week /\ Day \in Nat /\ Week \in Nat /\ now \in Nat
      /\ TypeOK /\ events \in Seq(Events)
  BY WindowAssumption DEF LedgerInv, TypeOK
<1>2. now - w \in Int /\ (now - w) + Day >= now /\ (now - w) + Week >= now
  BY <1>1
<1>3. /\ Seen \in Seq(Events)
      /\ Cardinality(Executions(Seen, now - w)) = Cardinality(Executions(events, now - w))
  BY <1>1, <1>2, SeenKeeps
<1>4. Cardinality(Executions(events, now - w)) = Cardinality(BookedSince(now - w))
  BY <1>2 DEF LedgerInv, Charged
<1>5. ASSUME NEW a \in Int PROVE a >= now - w <=> a + w >= now
  BY <1>1
<1>6. \A i \in DOMAIN Seen : Seen[i].at \in Int
  <2>1. \A i \in DOMAIN Seen : Seen[i] \in Events
    BY <1>3
  <2> QED
    BY <2>1 DEF Events
<1>7. ExecCount(w) = Cardinality(Executions(Seen, now - w))
  <2>1. {i \in DOMAIN Seen : Seen[i].kind = "execution" /\ Seen[i].at + w >= now} =
          Executions(Seen, now - w)
    BY <1>5, <1>6 DEF Executions
  <2> QED
    BY <2>1 DEF ExecCount
<1>8. Spent(w) = Cardinality(BookedSince(now - w))
  <2>1. \A b \in booked : b[1] \in Int
    BY DEF LedgerInv, TypeOK
  <2>2. {b \in booked : b[1] + w >= now} = BookedSince(now - w)
    BY <1>5, <2>1 DEF BookedSince
  <2> QED
    BY <2>2 DEF Spent
<1> QED
  BY <1>3, <1>4, <1>7, <1>8

\* Numbers of executors and executions are natural numbers.
LEMMA NumbersNatural ==
  ASSUME LedgerInv
  PROVE  /\ IsFiniteSet(scene.executors) /\ Cardinality(scene.executors) \in Nat
         /\ IsFiniteSet(Owing) /\ Cardinality(Owing) \in Nat
         /\ Cardinality(Owing) <= Cardinality(scene.executors)
         /\ scene.hourCap \in Nat /\ scene.dayCap \in Nat
         /\ \A w : Spent(w) \in Nat
<1>1. IsFiniteSet(scene.executors) /\ scene.hourCap \in Nat /\ scene.dayCap \in Nat
  BY CapAssumption DEF LedgerInv, TypeOK
<1>2. Owing \in SUBSET scene.executors
  BY DEF Owing
<1>3. IsFiniteSet(Owing) /\ Cardinality(Owing) <= Cardinality(scene.executors)
  BY <1>1, <1>2, FS_Subset
<1>4. ASSUME NEW w PROVE Spent(w) \in Nat
  <2>1. {b \in booked : b[1] + w >= now} \in SUBSET booked /\ IsFiniteSet(booked)
    BY DEF LedgerInv, BookedSound
  <2>2. IsFiniteSet({b \in booked : b[1] + w >= now})
    BY <2>1, FS_Subset
  <2> QED
    BY <2>2, FS_CardinalityType DEF Spent
<1> QED
  BY <1>1, <1>3, <1>4, FS_CardinalityType

\* The caps keep holding while nobody new is let through.
LEMMA OwingShrinks ==
  ASSUME LedgerInv, UNCHANGED <<scene, now, booked>>, cut \subseteq cut', Owing' \subseteq Owing
  PROVE  RatePromised'
<1>1. \A w : Spent(w)' = Spent(w)
  BY DEF Spent
<1>2. Owing' \in SUBSET Owing /\ IsFiniteSet(Owing)
  BY NumbersNatural
<1>3. IsFiniteSet(Owing') /\ Cardinality(Owing') <= Cardinality(Owing)
  BY <1>2, FS_Subset
<1>4. Cardinality(Owing') \in Nat
  BY <1>3, FS_CardinalityType
<1>5. /\ Cardinality(Owing) \in Nat /\ Cardinality(scene.executors) \in Nat
      /\ scene.hourCap \in Nat /\ scene.dayCap \in Nat
      /\ Spent(Hour) \in Nat /\ Spent(Day) \in Nat
  BY NumbersNatural
<1>6. Spent(Hour)' = Spent(Hour) /\ Spent(Day)' = Spent(Day)
  BY <1>1
<1> QED
  BY <1>3, <1>4, <1>5, <1>6 DEF LedgerInv, RatePromised

\* Events of other kinds leave what is known of the limits alone.
LEMMA LimitsKept ==
  ASSUME LedgerInv, UNCHANGED <<now, probe, limit, overtaken>>, cut \subseteq cut',
         events' \in Seq(Events),
         \A i \in DOMAIN events' :
           events'[i].kind = "cooldown" => \E j \in DOMAIN events : events'[i] = events[j],
         "cooldown" \notin cut' =>
           \A j \in DOMAIN events :
             Active(events[j], now) /\ events[j].at + Week >= now
             => \E i \in DOMAIN events' : events'[i] = events[j]
  PROVE  LimitListed' /\ ListedKnown' /\ RefutedForgotten'
<1>1. RefutedForgotten'
  BY DEF LedgerInv, RefutedForgotten, Refuted, Disproved
<1>2. ListedKnown'
  <2> SUFFICES ASSUME NEW i \in DOMAIN events', Active(events'[i], now)
               PROVE  \/ events'[i].reset = limit[events'[i].who]
                      \/ events'[i].who \in overtaken \/ Refuted(events'[i].who)
    BY DEF ListedKnown, Active, Refuted, Disproved
  <2>1. PICK j \in DOMAIN events : events'[i] = events[j]
    BY DEF Active
  <2> QED
    BY <2>1 DEF LedgerInv, ListedKnown
<1>3. LimitListed'
  <2> SUFFICES ASSUME "cooldown" \notin cut', NEW k \in Keys \ overtaken, limit[k] > now
               PROVE  \E i \in DOMAIN events' :
                        /\ events'[i].kind = "cooldown" /\ events'[i].who = k
                        /\ events'[i].reset = limit[k] /\ events'[i].at + Week >= now
    BY DEF LimitListed
  <2>1. PICK j \in DOMAIN events :
          /\ events[j].kind = "cooldown" /\ events[j].who = k /\ events[j].reset = limit[k]
          /\ events[j].at + Week >= now
    BY DEF LedgerInv, LimitListed
  <2>2. Active(events[j], now)
    BY <2>1 DEF Active
  <2> QED
    BY <2>1, <2>2
<1> QED
  BY <1>1, <1>2, <1>3

\* What becomes of the list when an event is appended that is no cooldown.
Appended(e) ==
  /\ events' \in Seq(Events) /\ Len(events') <= scene.keep
  /\ cut' \subseteq Kinds /\ cut \subseteq cut'
  /\ EventsSound' /\ LimitListed' /\ ListedKnown' /\ RefutedForgotten'
  /\ \A i \in DOMAIN events' : events'[i] = e \/ \E j \in DOMAIN events : events'[i] = events[j]
  /\ \A j \in DOMAIN events :
       Counts(events[j]) /\ events[j].kind \notin cut' => \E i \in DOMAIN events' : events'[i] = events[j]
  /\ \E i \in DOMAIN events' : events'[i] = e
  /\ "execution" \notin cut' =>
       \A u \in Int : u + Day >= now =>
         Cardinality(Executions(events', u)) =
           Cardinality(Executions(events, u)) + (IF e.kind = "execution" /\ now >= u THEN 1 ELSE 0)

LEMMA QuietAppend ==
  ASSUME LedgerInv, UNCHANGED <<scene, now, probe, limit, overtaken>>,
         NEW e \in Events, e.at = now, e.kind # "cooldown", AppendEvent(e)
  PROVE  Appended(e)
<1>1. TypeOK /\ events \in Seq(Events) /\ \A i \in DOMAIN events : SoundEvent(events[i])
  BY DEF LedgerInv, TypeOK, EventsSound
<1>2. now \in Int /\ now <= now /\ Week \in Nat /\ e.at + Week >= now
  BY <1>1, WindowAssumption DEF TypeOK
<1>3. SoundEvent(e)
  BY <1>2 DEF SoundEvent
<1>4. Save(Append(events, e), now)
  BY DEF AppendEvent
<1>5. /\ events' \in Seq(Events) /\ Len(events') <= scene.keep
      /\ cut' \subseteq Kinds /\ cut \subseteq cut'
      /\ \A i \in DOMAIN events' : events'[i] = e \/ \E j \in DOMAIN events : events'[i] = events[j]
      /\ \A j \in DOMAIN events :
           Counts(events[j]) /\ events[j].kind \notin cut' => \E i \in DOMAIN events' : events'[i] = events[j]
      /\ \E i \in DOMAIN events' : events'[i] = e
      /\ "execution" \notin cut' =>
           \A u \in Int : u + Day >= now =>
             Cardinality(Executions(events', u)) =
               Cardinality(Executions(events, u)) + (IF e.kind = "execution" /\ e.at >= u THEN 1 ELSE 0)
  BY <1>1, <1>2, <1>3, <1>4, AppendKeeps
<1>6. EventsSound'
  BY <1>1, <1>3, <1>5 DEF EventsSound, SoundEvent
<1>7. LimitListed' /\ ListedKnown' /\ RefutedForgotten'
  <2>1. \A j \in DOMAIN events :
          Active(events[j], now) /\ events[j].at + Week >= now
          => Counts(events[j]) /\ events[j].kind = "cooldown"
    BY DEF Counts, Active
  <2> QED
    BY <1>5, <2>1, LimitsKept
<1> QED
  BY <1>5, <1>6, <1>7 DEF Appended

\* An append that is no execution leaves the count of executions alone.
LEMMA ChargedKept ==
  ASSUME LedgerInv, UNCHANGED <<now, booked>>, cut \subseteq cut',
         "execution" \notin cut' =>
           \A u \in Int : u + Day >= now =>
             Cardinality(Executions(events', u)) = Cardinality(Executions(events, u))
  PROVE  BookedSound' /\ Charged'
<1>1. BookedSound'
  BY DEF LedgerInv, BookedSound
<1>2. \A t : BookedSince(t)' = BookedSince(t)
  BY DEF BookedSince
<1>3. Charged'
  <2> SUFFICES ASSUME "execution" \notin cut', NEW t \in Int, t + Day >= now
               PROVE  Cardinality(Executions(events', t)) = Cardinality(BookedSince(t)')
    BY DEF Charged, Executions
  <2>1. Cardinality(Executions(events, t)) = Cardinality(BookedSince(t))
    BY DEF LedgerInv, Charged
  <2> QED
    BY <1>2, <2>1
<1> QED
  BY <1>1, <1>3

LEMMA NoCount ==
  ASSUME LedgerInv, NEW u
  PROVE  Cardinality(Executions(events, u)) \in Nat
<1>1. events \in Seq(Events) /\ Executions(events, u) \in SUBSET DOMAIN events
  BY DEF LedgerInv, TypeOK, Executions
<1> QED
  BY <1>1, PositionsFinite

\* The slot of an executor that is not concerned stays listed.
LEMMA SlotKept ==
  ASSUME LedgerInv, UNCHANGED <<scene, now>>, NEW x \in scene.executors,
         run'[x] = run[x], began'[x] = began[x], "started" \notin cut, "started" \notin cut',
         x \in swept => x \in swept',
         run[x] # None =>
           x \in swept' \/ \A i \in DOMAIN events' :
             \/ ~(events'[i].kind = "finished" /\ events'[i].who = run[x])
             \/ \E j \in DOMAIN events : events'[i] = events[j],
         \A j \in DOMAIN events :
           events[j].kind = "started" /\ Counts(events[j]) => \E i \in DOMAIN events' : events'[i] = events[j]
  PROVE  SlotOf(x)'
<1> SUFFICES ASSUME run[x] # None
             PROVE  /\ x \in swept' \/ \A i \in DOMAIN events' :
                         ~(events'[i].kind = "finished" /\ events'[i].who = run[x])
                    /\ began[x] + Day >= now => \E i \in DOMAIN events' :
                         events'[i].kind = "started" /\ events'[i].who = run[x] /\ events'[i].at = began[x]
  BY DEF SlotOf
<1>1. SlotOf(x)
  BY DEF LedgerInv, SlotListed
<1>2. x \in swept' \/ \A i \in DOMAIN events' :
        ~(events'[i].kind = "finished" /\ events'[i].who = run[x])
  BY <1>1 DEF SlotOf
<1>3. ASSUME began[x] + Day >= now
      PROVE  \E i \in DOMAIN events' :
               events'[i].kind = "started" /\ events'[i].who = run[x] /\ events'[i].at = began[x]
  <2>1. PICK j \in DOMAIN events :
          events[j].kind = "started" /\ events[j].who = run[x] /\ events[j].at = began[x]
    BY <1>1, <1>3 DEF SlotOf
  <2>2. x \in DOMAIN run
    BY DEF LedgerInv, TypeOK
  <2>3. Counts(events[j])
    BY <1>3, <2>1, <2>2 DEF Counts
  <2> QED
    BY <2>1, <2>3
<1> QED
  BY <1>2, <1>3

\* Bounds of the clock in the types.
LEMMA EventTyped ==
  ASSUME LedgerInv, NEW kind \in Kinds, NEW who \in Keys \cup Runs \cup {None},
         NEW reset \in 0..(MaxTime + MaxReset)
  PROVE  /\ Event(kind, who, reset) \in Events /\ Event(kind, who, reset).at = now
         /\ Event(kind, who, reset).kind = kind /\ Event(kind, who, reset).who = who
         /\ Event(kind, who, reset).reset = reset
BY DEF Event, Events, LedgerInv, TypeOK

LEMMA ZeroTyped == 0 \in 0..MaxTime /\ 0 \in 0..(MaxTime + MaxReset)
  BY BoundAssumption, ResetAssumption, WindowAssumption

\* An executor is let through.
LEMMA GateStep ==
  ASSUME LedgerInv, NEW e \in scene.executors, Gate(e)
  PROVE  LedgerInv'
<1> USE DEF Gate, Goto, ledger
<1>1. TypeOK'
  BY DEF LedgerInv, TypeOK
<1>2. RunsApart'
  BY DEF LedgerInv, RunsApart, TypeOK
<1>3. EventsSound' /\ PastSound' /\ BookedSound'
  BY DEF LedgerInv, EventsSound, SoundEvent, PastSound, BookedSound
<1>4. Charged'
  BY DEF LedgerInv, Charged, Executions, BookedSince
<1>5. SlotListed'
  BY DEF LedgerInv, SlotListed, SlotOf
<1>6. LimitListed' /\ ListedKnown' /\ RefutedForgotten'
  BY DEF LedgerInv, LimitListed, ListedKnown, RefutedForgotten, Refuted, Disproved, Active
<1>7. RatePromised'
  <2> SUFFICES ASSUME "execution" \notin cut
               PROVE  /\ Spent(Hour) + Cardinality(Owing') < scene.hourCap + Cardinality(scene.executors)
                      /\ Spent(Day) + Cardinality(Owing') < scene.dayCap + Cardinality(scene.executors)
    BY DEF RatePromised, Spent
  <2>1. Spent(Hour) < scene.hourCap /\ Spent(Day) < scene.dayCap
    BY CountIsSpent DEF RateFree
  <2>2. Owing' \in SUBSET scene.executors /\ IsFiniteSet(scene.executors)
    BY NumbersNatural DEF Owing
  <2>3. IsFiniteSet(Owing') /\ Cardinality(Owing') <= Cardinality(scene.executors)
    BY <2>2, FS_Subset
  <2>4. Cardinality(Owing') \in Nat
    BY <2>3, FS_CardinalityType
  <2>5. /\ Cardinality(scene.executors) \in Nat /\ scene.hourCap \in Nat /\ scene.dayCap \in Nat
        /\ Spent(Hour) \in Nat /\ Spent(Day) \in Nat
    BY NumbersNatural
  <2> QED
    BY <2>1, <2>3, <2>4, <2>5
<1> QED
  BY <1>1, <1>2, <1>3, <1>4, <1>5, <1>6, <1>7 DEF LedgerInv

\* A start is recorded.
LEMMA StartStep ==
  ASSUME LedgerInv, NEW e \in scene.executors, Start(e)
  PROVE  LedgerInv'
<1>1. PICK r \in Runs :
        Unused(r) /\ run' = [run EXCEPT ![e] = r] /\ AppendEvent(Event("started", r, 0))
  BY DEF Start
<1> DEFINE v == Event("started", r, 0)
<1>2. /\ began' = [began EXCEPT ![e] = now] /\ pc[e] = "admitted" /\ pc' = [pc EXCEPT ![e] = "running"]
      /\ swept' = swept \ {e}
      /\ UNCHANGED <<scene, now, booked, probe, limit, overtaken>>
  BY DEF Start, Goto
<1>3. v \in Events /\ v.at = now /\ v.kind = "started" /\ v.who = r
  <2>1. "started" \in Kinds /\ r \in Keys \cup Runs \cup {None}
    BY DEF Kinds
  <2> QED
    BY <2>1, EventTyped, ZeroTyped
<1>4. r # None
  BY KeyAssumption
<1> HIDE DEF v
<1>5. Appended(v)
  BY <1>1, <1>2, <1>3, QuietAppend DEF v
<1>6. TypeOK'
  BY <1>1, <1>2, <1>5 DEF Appended, LedgerInv, TypeOK
<1>7. PastSound'
  BY <1>2 DEF LedgerInv, PastSound, TypeOK
<1>8. RunsApart'
  <2>1. \A x \in scene.executors : run[x] # r
    BY <1>1 DEF Unused, LedgerInv, TypeOK
  <2> QED
    BY <1>1, <1>2, <1>4, <2>1 DEF LedgerInv, RunsApart, TypeOK
<1>9. BookedSound' /\ Charged'
  BY <1>2, <1>3, <1>5, NoCount, ChargedKept DEF Appended
<1>10. RatePromised'
  <2>1. Owing' \subseteq Owing
    BY <1>2 DEF Owing, LedgerInv, TypeOK
  <2> QED
    BY <1>2, <1>5, <2>1, OwingShrinks DEF Appended
<1>11. SlotListed'
  <2> SUFFICES ASSUME "started" \notin cut', NEW x \in scene.executors PROVE SlotOf(x)'
    BY <1>2 DEF SlotListed
  <2>1. CASE x = e
    <3>1. \A j \in DOMAIN events : events[j].who # r
      BY <1>1 DEF Unused
    <3>2. run'[x] = r /\ began'[x] = now
      BY <1>1, <1>2, <2>1 DEF LedgerInv, TypeOK
    <3>3. \A i \in DOMAIN events' : ~(events'[i].kind = "finished" /\ events'[i].who = r)
      BY <1>3, <1>5, <3>1 DEF Appended
    <3> QED
      BY <1>2, <1>3, <1>5, <3>2, <3>3 DEF Appended, SlotOf
  <2>2. CASE x # e
    <3>1. run'[x] = run[x] /\ began'[x] = began[x] /\ (x \in swept => x \in swept')
      BY <1>1, <1>2, <2>2 DEF LedgerInv, TypeOK
    <3> QED
      BY <1>2, <1>3, <1>5, <3>1, SlotKept DEF Appended
  <2> QED
    BY <2>1, <2>2
<1> QED
  BY <1>5, <1>6, <1>7, <1>8, <1>9, <1>10, <1>11 DEF Appended, LedgerInv

\* An end is recorded, of a run id that nobody else has.
LEMMA FinishStep ==
  ASSUME LedgerInv, NEW e \in scene.executors, Finish(e)
  PROVE  LedgerInv'
<1> DEFINE v == Event("finished", run[e], 0)
<1>1. /\ pc[e] = "running" /\ pc' = [pc EXCEPT ![e] = "book"]
      /\ run' = [run EXCEPT ![e] = None] /\ began' = [began EXCEPT ![e] = 0]
      /\ swept' = swept \ {e}
      /\ UNCHANGED <<scene, now, booked, probe, limit, overtaken>> /\ AppendEvent(v)
  BY DEF Finish, Goto
<1>2. v \in Events /\ v.at = now /\ v.kind = "finished" /\ v.who = run[e]
  <2>1. "finished" \in Kinds /\ run[e] \in Keys \cup Runs \cup {None}
    BY DEF Kinds, LedgerInv, TypeOK
  <2> QED
    BY <2>1, EventTyped, ZeroTyped
<1> HIDE DEF v
<1>3. Appended(v)
  BY <1>1, <1>2, QuietAppend
<1>4. TypeOK'
  BY <1>1, <1>3, ZeroTyped DEF Appended, LedgerInv, TypeOK
<1>5. PastSound' /\ RunsApart'
  <2>1. now >= 0
    BY BoundAssumption DEF LedgerInv, TypeOK
  <2> QED
    BY <1>1, <2>1 DEF LedgerInv, PastSound, RunsApart, TypeOK
<1>6. BookedSound' /\ Charged'
  BY <1>1, <1>2, <1>3, NoCount, ChargedKept DEF Appended
<1>7. RatePromised'
  <2>1. Owing' \subseteq Owing
    BY <1>1 DEF Owing, LedgerInv, TypeOK
  <2> QED
    BY <1>1, <1>3, <2>1, OwingShrinks DEF Appended
<1>8. SlotListed'
  <2> SUFFICES ASSUME "started" \notin cut', NEW x \in scene.executors PROVE SlotOf(x)'
    BY <1>1 DEF SlotListed
  <2>1. CASE x = e
    BY <1>1, <2>1 DEF SlotOf, LedgerInv, TypeOK
  <2>2. CASE x # e
    <3>1. run'[x] = run[x] /\ began'[x] = began[x] /\ (x \in swept => x \in swept')
      BY <1>1, <2>2 DEF LedgerInv, TypeOK
    <3>2. run[x] # None => run[x] # run[e]
      BY <2>2 DEF LedgerInv, RunsApart
    <3> QED
      BY <1>1, <1>2, <1>3, <3>1, <3>2, SlotKept DEF Appended
  <2> QED
    BY <2>1, <2>2
<1> QED
  BY <1>3, <1>4, <1>5, <1>6, <1>7, <1>8 DEF Appended, LedgerInv

\* An execution is charged: it is no longer owing.
LEMMA BookStep ==
  ASSUME LedgerInv, NEW e \in scene.executors, Book(e)
  PROVE  LedgerInv'
<1> DEFINE v == Event("execution", None, 0)
           same == {b \in booked : b[1] = now}
           new == <<now, Cardinality(same) + 1>>
<1>1. /\ pc[e] = "book" /\ pc' = [pc EXCEPT ![e] = "outcome"]
      /\ UNCHANGED <<scene, now, run, began, swept, probe, limit, overtaken>> /\ AppendEvent(v)
      /\ booked' = booked \cup {new}
  BY DEF Book, Goto
<1>2. v \in Events /\ v.at = now /\ v.kind = "execution" /\ v.who = None
  <2>1. "execution" \in Kinds /\ None \in Keys \cup Runs \cup {None}
    BY DEF Kinds
  <2> QED
    BY <2>1, EventTyped, ZeroTyped
<1> HIDE DEF v
<1>3. Appended(v)
  BY <1>1, <1>2, QuietAppend
<1>4. /\ IsFiniteSet(booked) /\ IsFiniteSet(same) /\ Cardinality(same) \in Nat
      /\ now \in 0..MaxTime /\ now \in Int
  <2>1. IsFiniteSet(booked) /\ same \in SUBSET booked
    BY DEF LedgerInv, BookedSound
  <2>2. IsFiniteSet(same)
    BY <2>1, FS_Subset
  <2> QED
    BY <2>1, <2>2, FS_CardinalityType DEF LedgerInv, TypeOK
<1>5. new \notin booked
  <2> SUFFICES ASSUME new \in booked PROVE FALSE
    OBVIOUS
  <2>1. new[1] = now /\ new[2] = Cardinality(same) + 1
    OBVIOUS
  <2>2. new[2] <= Cardinality({c \in booked : c[1] = new[1]})
    BY DEF LedgerInv, BookedSound
  <2>3. Cardinality(same) + 1 <= Cardinality(same)
    BY <2>1, <2>2
  <2> QED
    BY <1>4, <2>3
<1>6. TypeOK'
  <2>1. booked' \subseteq (0..MaxTime) \X Nat
    <3>1. new \in (0..MaxTime) \X Nat
      BY <1>4
    <3>2. booked \subseteq (0..MaxTime) \X Nat
      BY DEF LedgerInv, TypeOK
    <3> QED
      BY <1>1, <3>1, <3>2
  <2> QED
    BY <1>1, <1>3, <2>1 DEF Appended, LedgerInv, TypeOK
<1>7. PastSound' /\ RunsApart'
  BY <1>1 DEF LedgerInv, PastSound, RunsApart, TypeOK
<1>8. BookedSound'
  <2>1. IsFiniteSet(booked')
    BY <1>1, <1>4, FS_AddElement
  <2>2. ASSUME NEW t PROVE Cardinality({c \in booked' : c[1] = t}) =
                            Cardinality({c \in booked : c[1] = t}) + (IF t = now THEN 1 ELSE 0)
    <3> DEFINE S == {c \in booked : c[1] = t}
    <3>0. IsFiniteSet(S) /\ Cardinality(S) \in Nat
      <4>1. S \in SUBSET booked
        OBVIOUS
      <4> QED
        BY <1>4, <4>1, FS_Subset, FS_CardinalityType
    <3>1. CASE t = now
      <4>1. {c \in booked' : c[1] = t} = S \cup {new}
        BY <1>1, <3>1
      <4>2. new \notin S
        BY <1>5
      <4>3. Cardinality(S \cup {new}) = Cardinality(S) + 1
        BY <3>0, <4>2, FS_AddElement
      <4> QED
        BY <3>1, <4>1, <4>3
    <3>2. CASE t # now
      <4>1. {c \in booked' : c[1] = t} = S
        BY <1>1, <3>2
      <4> HIDE DEF S
      <4>2. Cardinality(S) = Cardinality(S) + (IF t = now THEN 1 ELSE 0)
        BY <3>0, <3>2
      <4>3. Cardinality({c \in booked' : c[1] = t}) = Cardinality(S) + (IF t = now THEN 1 ELSE 0)
        BY <4>1, <4>2
      <4> QED
        BY <4>3 DEF S
    <3> QED
      BY <3>1, <3>2
  <2>3. ASSUME NEW b \in booked'
        PROVE  b[1] <= now /\ b[2] <= Cardinality({c \in booked' : c[1] = b[1]})
    <3>1. CASE b \in booked
      <4>1. b[1] <= now /\ b[2] <= Cardinality({c \in booked : c[1] = b[1]}) /\ b[2] \in Nat
        BY <3>1 DEF LedgerInv, BookedSound, TypeOK
      <4>2. Cardinality({c \in booked : c[1] = b[1]}) \in Nat
        <5>1. {c \in booked : c[1] = b[1]} \in SUBSET booked
          OBVIOUS
        <5> QED
          BY <1>4, <5>1, FS_Subset, FS_CardinalityType
      <4>3. Cardinality({c \in booked' : c[1] = b[1]}) =
              Cardinality({c \in booked : c[1] = b[1]}) + (IF b[1] = now THEN 1 ELSE 0)
        BY <2>2
      <4>4. Cardinality({c \in booked : c[1] = b[1]}) <= Cardinality({c \in booked' : c[1] = b[1]})
        BY <4>2, <4>3
      <4> QED
        BY <4>1, <4>2, <4>3, <4>4
    <3>2. CASE b = new
      <4>1. b[1] = now /\ b[2] = Cardinality(same) + 1
        BY <3>2
      <4>2. Cardinality({c \in booked' : c[1] = now}) = Cardinality(same) + 1
        BY <2>2
      <4> QED
        BY <1>4, <4>1, <4>2
    <3> QED
      BY <1>1, <3>1, <3>2
  <2> QED
    BY <1>1, <2>1, <2>3 DEF BookedSound
<1>9. ASSUME NEW t \in Int
      PROVE  /\ Cardinality(BookedSince(t)) \in Nat
             /\ Cardinality(BookedSince(t)') = Cardinality(BookedSince(t)) + (IF now >= t THEN 1 ELSE 0)
  <2>1. BookedSince(t) \in SUBSET booked
    BY DEF BookedSince
  <2>2. IsFiniteSet(BookedSince(t)) /\ Cardinality(BookedSince(t)) \in Nat
    BY <1>4, <2>1, FS_Subset, FS_CardinalityType
  <2>3. CASE now >= t
    <3>1. BookedSince(t)' = BookedSince(t) \cup {new}
      BY <1>1, <2>3 DEF BookedSince
    <3>2. new \notin BookedSince(t)
      BY <1>5, <2>1
    <3>3. Cardinality(BookedSince(t) \cup {new}) = Cardinality(BookedSince(t)) + 1
      BY <2>2, <3>2, FS_AddElement
    <3> QED
      BY <2>2, <2>3, <3>1, <3>3
  <2>4. CASE ~(now >= t)
    <3>1. BookedSince(t)' = BookedSince(t)
      BY <1>1, <2>4 DEF BookedSince
    <3> QED
      BY <2>2, <2>4, <3>1
  <2> QED
    BY <2>3, <2>4
<1>10. Charged'
  <2> SUFFICES ASSUME "execution" \notin cut', NEW t \in Int, t + Day >= now
               PROVE  Cardinality(Executions(events', t)) = Cardinality(BookedSince(t)')
    BY <1>1 DEF Charged, Executions
  <2>1. Cardinality(Executions(events, t)) = Cardinality(BookedSince(t))
    BY <1>3 DEF Appended, LedgerInv, Charged
  <2>2. Cardinality(Executions(events', t)) = Cardinality(Executions(events, t)) + (IF now >= t THEN 1 ELSE 0)
    BY <1>2, <1>3 DEF Appended
  <2> QED
    BY <1>9, <2>1, <2>2
<1>11. RatePromised'
  <2>1. ASSUME NEW w \in {Hour, Day} PROVE Spent(w)' = Spent(w) + 1
    <3>1. w \in Nat
      BY WindowAssumption
    <3>2. {b \in booked : b[1] + w >= now}' = {b \in booked : b[1] + w >= now} \cup {new}
      BY <1>1, <1>4, <3>1
    <3>3. IsFiniteSet({b \in booked : b[1] + w >= now})
      <4>1. {b \in booked : b[1] + w >= now} \in SUBSET booked
        OBVIOUS
      <4> QED
        BY <1>4, <4>1, FS_Subset
    <3>4. new \notin {b \in booked : b[1] + w >= now}
      BY <1>5
    <3>5. Cardinality({b \in booked : b[1] + w >= now} \cup {new}) =
            Cardinality({b \in booked : b[1] + w >= now}) + 1
      BY <3>3, <3>4, FS_AddElement
    <3> QED
      BY <3>2, <3>5 DEF Spent
  <2>2. Owing' = Owing \ {e} /\ e \in Owing
    BY <1>1 DEF Owing, LedgerInv, TypeOK
  <2>3. Cardinality(Owing') = Cardinality(Owing) - 1
    BY <2>2, NumbersNatural, FS_RemoveElement
  <2>4. /\ Cardinality(Owing) \in Nat /\ Cardinality(scene.executors) \in Nat
        /\ scene.hourCap \in Nat /\ scene.dayCap \in Nat
        /\ Spent(Hour) \in Nat /\ Spent(Day) \in Nat
    BY NumbersNatural
  <2>5. Spent(Hour)' = Spent(Hour) + 1 /\ Spent(Day)' = Spent(Day) + 1
    BY <2>1
  <2>6. cut \subseteq cut' /\ scene' = scene
    BY <1>1, <1>3 DEF Appended
  <2> QED
    BY <2>3, <2>4, <2>5, <2>6 DEF LedgerInv, RatePromised
<1>12. SlotListed'
  <2> SUFFICES ASSUME "started" \notin cut', NEW x \in scene.executors PROVE SlotOf(x)'
    BY <1>1 DEF SlotListed
  <2> QED
    BY <1>1, <1>2, <1>3, SlotKept DEF Appended
<1> QED
  BY <1>3, <1>6, <1>7, <1>8, <1>10, <1>11, <1>12 DEF Appended, LedgerInv

LEMMA OtherTyped ==
  ASSUME LedgerInv
  PROVE  LET v == Event("other", None, 0) IN v \in Events /\ v.at = now /\ v.kind = "other"
<1>1. "other" \in Kinds /\ None \in Keys \cup Runs \cup {None}
  BY DEF Kinds
<1> QED
  BY <1>1, EventTyped, ZeroTyped

\* Any other event.
LEMMA OtherStep ==
  ASSUME LedgerInv, AppendEvent(Event("other", None, 0)),
         UNCHANGED <<scene, now, run, began, swept, booked, probe, limit, overtaken>>,
         \/ UNCHANGED pc
         \/ \E e \in scene.executors : pc[e] = "outcome" /\ pc' = [pc EXCEPT ![e] = "idle"]
  PROVE  LedgerInv'
<1> DEFINE v == Event("other", None, 0)
<1>1. v \in Events /\ v.at = now /\ v.kind = "other"
  BY OtherTyped
<1>2. AppendEvent(v)
  OBVIOUS
<1> HIDE DEF v
<1>3. Appended(v)
  BY <1>1, <1>2, QuietAppend
<1>4. TypeOK'
  BY <1>3 DEF Appended, LedgerInv, TypeOK
<1>5. PastSound' /\ RunsApart'
  BY DEF LedgerInv, PastSound, RunsApart, TypeOK
<1>6. BookedSound' /\ Charged'
  BY <1>1, <1>3, NoCount, ChargedKept DEF Appended
<1>7. RatePromised'
  <2>1. Owing' \subseteq Owing
    BY DEF Owing, LedgerInv, TypeOK
  <2> QED
    BY <1>3, <2>1, OwingShrinks DEF Appended
<1>8. SlotListed'
  <2> SUFFICES ASSUME "started" \notin cut', NEW x \in scene.executors PROVE SlotOf(x)'
    BY DEF SlotListed
  <2> QED
    BY <1>1, <1>3, SlotKept DEF Appended
<1> QED
  BY <1>3, <1>4, <1>5, <1>6, <1>7, <1>8 DEF Appended, LedgerInv

\* A sweep records the end of an open slot, and says whose.
LEMMA SweepStep ==
  ASSUME LedgerInv, NEW r \in Runs, Sweep(r)
  PROVE  LedgerInv'
<1> DEFINE v == Event("finished", r, 0)
<1>1. /\ swept' = swept \cup {e \in scene.executors : run[e] = r}
      /\ UNCHANGED <<scene, now, pc, run, began, booked, probe, limit, overtaken>> /\ AppendEvent(v)
  BY DEF Sweep
<1>2. v \in Events /\ v.at = now /\ v.kind = "finished" /\ v.who = r
  <2>1. "finished" \in Kinds /\ r \in Keys \cup Runs \cup {None}
    BY DEF Kinds
  <2> QED
    BY <2>1, EventTyped, ZeroTyped
<1> HIDE DEF v
<1>3. Appended(v)
  BY <1>1, <1>2, QuietAppend
<1>4. TypeOK'
  BY <1>1, <1>3 DEF Appended, LedgerInv, TypeOK
<1>5. PastSound' /\ RunsApart'
  BY <1>1 DEF LedgerInv, PastSound, RunsApart, TypeOK
<1>6. BookedSound' /\ Charged'
  BY <1>1, <1>2, <1>3, NoCount, ChargedKept DEF Appended
<1>7. RatePromised'
  <2>1. Owing' \subseteq Owing
    BY <1>1 DEF Owing
  <2> QED
    BY <1>1, <1>3, <2>1, OwingShrinks DEF Appended
<1>8. SlotListed'
  <2> SUFFICES ASSUME "started" \notin cut', NEW x \in scene.executors PROVE SlotOf(x)'
    BY <1>1 DEF SlotListed
  <2> QED
    BY <1>1, <1>2, <1>3, SlotKept DEF Appended
<1> QED
  BY <1>3, <1>4, <1>5, <1>6, <1>7, <1>8 DEF Appended, LedgerInv

\* An executor that is killed owes nothing and has no slot to be seen.
LEMMA KillStep ==
  ASSUME LedgerInv, NEW e \in scene.executors, Kill(e)
  PROVE  LedgerInv'
<1>1. /\ pc' = [pc EXCEPT ![e] = "idle"] /\ run' = [run EXCEPT ![e] = None] /\ began' = [began EXCEPT ![e] = 0]
      /\ swept' = swept \ {e}
      /\ UNCHANGED <<scene, now, events, booked, probe, limit, cut, overtaken>>
  BY DEF Kill, Goto, ledger
<1>2. TypeOK'
  BY <1>1, ZeroTyped DEF LedgerInv, TypeOK
<1>3. PastSound' /\ RunsApart'
  <2>1. now >= 0
    BY BoundAssumption DEF LedgerInv, TypeOK
  <2> QED
    BY <1>1, <2>1 DEF LedgerInv, PastSound, RunsApart, TypeOK
<1>4. EventsSound' /\ BookedSound' /\ Charged'
  BY <1>1 DEF LedgerInv, EventsSound, SoundEvent, BookedSound, Charged, Executions, BookedSince
<1>5. RatePromised'
  <2>1. Owing' \subseteq Owing
    BY <1>1 DEF Owing, LedgerInv, TypeOK
  <2> QED
    BY <1>1, <2>1, OwingShrinks
<1>6. SlotListed'
  BY <1>1 DEF LedgerInv, SlotListed, SlotOf, TypeOK
<1>7. LimitListed' /\ ListedKnown' /\ RefutedForgotten'
  BY <1>1 DEF LedgerInv, LimitListed, ListedKnown, RefutedForgotten, Refuted, Disproved, Active
<1> QED
  BY <1>2, <1>3, <1>4, <1>5, <1>6, <1>7 DEF LedgerInv

\* The clock.
LEMMA TickStep ==
  ASSUME LedgerInv, Tick
  PROVE  LedgerInv'
<1>1. /\ now' = now + 1 /\ now < scene.end
      /\ limit' = [k \in Keys |-> IF limit[k] > now + 1 THEN limit[k] ELSE 0]
      /\ booked' = {b \in booked : b[1] + Day >= now + 1}
      /\ overtaken' = overtaken \cup {events[i].who : i \in {j \in DOMAIN events :
           Active(events[j], now + 1) /\ ~(events[j].at + Week >= now + 1)}}
      /\ UNCHANGED <<scene, events, pc, run, began, swept, probe, cut>>
  BY DEF Tick
<1>2. /\ now \in Nat /\ MaxTime \in Nat /\ Hour \in Nat /\ Day \in Nat /\ Hour <= Day
      /\ \A b \in booked : b[1] \in Nat /\ b[2] \in Nat
      /\ \A k \in Keys : limit[k] \in Nat /\ limit[k] \in 0..(MaxTime + MaxReset)
      /\ \A i \in DOMAIN events : events[i] \in Events
  BY WindowAssumption, BoundAssumption, ResetAssumption DEF LedgerInv, TypeOK
<1>3. \A i \in DOMAIN events : events[i].at \in Nat /\ events[i].reset \in Nat
  BY <1>2, ResetAssumption DEF Events
<1>4. TypeOK'
  <2>1. now' \in 0..MaxTime
    <3>1. scene.end \in 0..MaxTime
      BY BoundAssumption DEF LedgerInv, TypeOK
    <3> QED
      BY <1>1, <1>2, <3>1
  <2>3. overtaken' \subseteq Keys
    <3>1. \A i \in DOMAIN events : Active(events[i], now + 1) => events[i].who \in Keys
      BY DEF LedgerInv, EventsSound, SoundEvent, Active
    <3> QED
      BY <1>1, <3>1 DEF LedgerInv, TypeOK
  <2>2. limit' \in [Keys -> 0..(MaxTime + MaxReset)]
    BY <1>1, <1>2, ZeroTyped
  <2> QED
    BY <1>1, <2>1, <2>2, <2>3 DEF LedgerInv, TypeOK
<1>5. EventsSound' /\ RunsApart'
  <2>1. \A i \in DOMAIN events : events[i].at <= now => events[i].at <= now + 1
    BY <1>2, <1>3
  <2> QED
    BY <1>1, <2>1 DEF LedgerInv, EventsSound, SoundEvent, RunsApart
<1>6. PastSound'
  <2>1. \A e \in scene.executors : began[e] \in Nat
    BY <1>2 DEF LedgerInv, TypeOK
  <2>2. probe # None => probe.at \in Nat
    BY <1>2 DEF LedgerInv, TypeOK, Probes
  <2> QED
    BY <1>1, <1>2, <2>1, <2>2 DEF LedgerInv, PastSound
<1>7. BookedSound'
  <2>1. booked' \in SUBSET booked /\ IsFiniteSet(booked)
    BY <1>1 DEF LedgerInv, BookedSound
  <2>2. IsFiniteSet(booked')
    BY <2>1, FS_Subset
  <2>3. ASSUME NEW b \in booked'
        PROVE  b[1] <= now' /\ b[2] <= Cardinality({c \in booked' : c[1] = b[1]})
    <3>1. {c \in booked' : c[1] = b[1]} = {c \in booked : c[1] = b[1]}
      BY <1>1
    <3>2. b \in booked /\ b[1] <= now /\ b[2] <= Cardinality({c \in booked : c[1] = b[1]})
      BY <2>1 DEF LedgerInv, BookedSound
    <3>3. b[1] <= now'
      BY <1>1, <1>2, <3>2
    <3> QED
      BY <3>1, <3>2, <3>3
  <2> QED
    BY <2>2, <2>3 DEF BookedSound
<1>8. Charged'
  <2> SUFFICES ASSUME "execution" \notin cut, NEW t \in Int, t + Day >= now + 1
               PROVE  Cardinality(Executions(events, t)) = Cardinality(BookedSince(t)')
    BY <1>1 DEF Charged, Executions
  <2>1. t + Day >= now
    BY <1>2
  <2>2. BookedSince(t)' = BookedSince(t)
    <3>1. ASSUME NEW b \in booked, b[1] >= t PROVE b[1] + Day >= now + 1
      BY <1>2, <3>1
    <3> QED
      BY <1>1, <3>1 DEF BookedSince
  <2> QED
    BY <2>1, <2>2 DEF LedgerInv, Charged
<1>9. RatePromised'
  <2>1. ASSUME NEW w \in {Hour, Day} PROVE Spent(w)' \in Nat /\ Spent(w)' <= Spent(w)
    <3> DEFINE S == {b \in booked : b[1] + w >= now}
    <3>1. w \in Nat
      BY <1>2
    <3>2. S' \in SUBSET S
      BY <1>1, <1>2, <3>1
    <3>3. IsFiniteSet(S)
      <4>1. S \in SUBSET booked /\ IsFiniteSet(booked)
        BY DEF LedgerInv, BookedSound
      <4> QED
        BY <4>1, FS_Subset
    <3>4. IsFiniteSet(S') /\ Cardinality(S') <= Cardinality(S)
      BY <3>2, <3>3, FS_Subset
    <3>5. Cardinality(S') \in Nat
      BY <3>4, FS_CardinalityType
    <3> QED
      BY <3>4, <3>5 DEF Spent
  <2>2. Owing' = Owing
    BY <1>1 DEF Owing
  <2>3. /\ Cardinality(Owing) \in Nat /\ Cardinality(scene.executors) \in Nat
        /\ scene.hourCap \in Nat /\ scene.dayCap \in Nat
        /\ Spent(Hour) \in Nat /\ Spent(Day) \in Nat
    BY NumbersNatural
  <2>4. /\ Spent(Hour)' \in Nat /\ Spent(Hour)' <= Spent(Hour)
        /\ Spent(Day)' \in Nat /\ Spent(Day)' <= Spent(Day)
    BY <2>1
  <2> QED
    BY <1>1, <2>2, <2>3, <2>4 DEF LedgerInv, RatePromised
<1>10. SlotListed'
  <2>1. \A e \in scene.executors : began[e] \in Nat
    BY <1>2 DEF LedgerInv, TypeOK
  <2>2. \A e \in scene.executors : began[e] + Day >= now + 1 => began[e] + Day >= now
    BY <1>2, <2>1
  <2> QED
    BY <1>1, <2>2 DEF LedgerInv, SlotListed, SlotOf
<1>11. LimitListed'
  <2> SUFFICES ASSUME "cooldown" \notin cut, NEW k \in Keys \ overtaken', limit'[k] > now + 1
               PROVE  \E i \in DOMAIN events :
                        /\ events[i].kind = "cooldown" /\ events[i].who = k
                        /\ events[i].reset = limit'[k] /\ events[i].at + Week >= now + 1
    BY <1>1 DEF LimitListed
  <2>1. limit'[k] = limit[k] /\ limit[k] > now /\ limit[k] > now + 1 /\ k \notin overtaken
    BY <1>1, <1>2
  <2>2. PICK i \in DOMAIN events :
          events[i].kind = "cooldown" /\ events[i].who = k /\ events[i].reset = limit[k]
    BY <2>1 DEF LedgerInv, LimitListed
  <2>3. Active(events[i], now + 1)
    BY <2>1, <2>2 DEF Active
  <2>4. events[i].at + Week >= now + 1
    BY <1>1, <2>2, <2>3
  <2> QED
    BY <2>1, <2>2, <2>4
<1>12. ListedKnown'
  <2> SUFFICES ASSUME NEW i \in DOMAIN events, Active(events[i], now + 1)
               PROVE  \/ events[i].reset = limit'[events[i].who]
                      \/ events[i].who \in overtaken' \/ Refuted(events[i].who)
    BY <1>1 DEF ListedKnown, Active, Refuted, Disproved
  <2>1. Active(events[i], now) /\ events[i].reset > now + 1 /\ events[i].who \in Keys
    BY <1>2, <1>3 DEF Active, LedgerInv, EventsSound, SoundEvent
  <2> QED
    BY <1>1, <2>1 DEF LedgerInv, ListedKnown
<1>13. RefutedForgotten'
  <2>1. \A k \in Keys : limit[k] = 0 => limit'[k] = 0
    BY <1>1
  <2> QED
    BY <1>1, <2>1 DEF LedgerInv, RefutedForgotten, Refuted, Disproved
<1> QED
  BY <1>4, <1>5, <1>6, <1>7, <1>8, <1>9, <1>10, <1>11, <1>12, <1>13 DEF LedgerInv

\* What is remembered of dispatches is kept when cooldowns are rewritten: the
\* list loses no start and no execution, and gains none.
LEMMA DispatchesKept ==
  ASSUME LedgerInv, UNCHANGED <<scene, now, dispatches>>, cut \subseteq cut',
         events' \in Seq(Events),
         \A i \in DOMAIN events' :
           events'[i].kind = "finished" => \E j \in DOMAIN events : events'[i] = events[j],
         \A j \in DOMAIN events :
           /\ events[j].kind = "started" /\ Counts(events[j]) /\ "started" \notin cut'
           => \E i \in DOMAIN events' : events'[i] = events[j],
         "execution" \notin cut' =>
           \A u \in Int : u + Day >= now =>
             Cardinality(Executions(events', u)) = Cardinality(Executions(events, u))
  PROVE  RunsApart' /\ BookedSound' /\ Charged' /\ RatePromised' /\ SlotListed'
<1>1. UNCHANGED <<scene, now, pc, run, began, swept, booked>>
  BY DEF dispatches
<1>2. RunsApart'
  BY <1>1 DEF LedgerInv, RunsApart
<1>3. BookedSound' /\ Charged'
  BY <1>1, ChargedKept
<1>4. RatePromised'
  <2>1. Owing' \subseteq Owing
    BY <1>1 DEF Owing
  <2> QED
    BY <1>1, <2>1, OwingShrinks
<1>5. SlotListed'
  <2> SUFFICES ASSUME "started" \notin cut', NEW x \in scene.executors PROVE SlotOf(x)'
    BY <1>1 DEF SlotListed
  <2> QED
    BY <1>1, SlotKept
<1> QED
  BY <1>2, <1>3, <1>4, <1>5

\* A limit is reported.
LEMMA RecordCooldownStep ==
  ASSUME LedgerInv, NEW k \in Keys, NEW d \in 1..scene.reset, RecordCooldown(k, now + d)
  PROVE  LedgerInv'
<1> DEFINE v == Event("cooldown", k, now + d)
           b == Without(events, Superseded(k))
<1>1. /\ Save(Append(b, v), now) /\ limit' = [limit EXCEPT ![k] = now + d]
      /\ overtaken' = IF probe # None /\ Disproved(k) THEN overtaken \cup {k} ELSE overtaken \ {k}
      /\ UNCHANGED <<scene, now, dispatches, probe>>
  BY DEF RecordCooldown
<1>2. /\ TypeOK /\ now \in 0..MaxTime /\ now \in Int /\ Week \in Nat /\ d \in Nat
      /\ now + d \in 0..(MaxTime + MaxReset) /\ now + Week >= now
  <2>1. /\ TypeOK /\ now \in 0..MaxTime /\ MaxTime \in Nat /\ MaxReset \in Nat /\ Week \in Nat
        /\ scene.reset \in 0..MaxReset
    BY BoundAssumption, ResetAssumption, WindowAssumption DEF LedgerInv, TypeOK
  <2> QED
    BY <2>1
<1>3. v \in Events /\ v.at = now /\ v.kind = "cooldown" /\ v.who = k /\ v.reset = now + d
  <2>1. "cooldown" \in Kinds /\ k \in Keys \cup Runs \cup {None}
    BY DEF Kinds
  <2> QED
    BY <1>2, <2>1, EventTyped
<1> HIDE DEF v
<1>4. SoundEvent(v)
  BY <1>2, <1>3 DEF SoundEvent
<1>5. /\ Superseded(k) \in SUBSET DOMAIN events
      /\ \A i \in Superseded(k) : events[i].kind # "execution" /\ events[i].kind # "started"
  BY DEF Superseded, Active
<1>6. /\ b \in Seq(Events) /\ \A i \in DOMAIN b : SoundEvent(b[i])
      /\ \A i \in DOMAIN b : \E j \in DOMAIN events \ Superseded(k) : b[i] = events[j]
      /\ \A j \in DOMAIN events \ Superseded(k) : \E i \in DOMAIN b : b[i] = events[j]
      /\ \A u \in Int : Cardinality(Executions(b, u)) = Cardinality(Executions(events, u))
  BY <1>2, <1>5, WithoutKeeps DEF LedgerInv, EventsSound
<1> HIDE DEF b
<1>7. /\ events' \in Seq(Events) /\ Len(events') <= scene.keep
      /\ cut' \subseteq Kinds /\ cut \subseteq cut'
      /\ \A i \in DOMAIN events' : events'[i] = v \/ \E j \in DOMAIN b : events'[i] = b[j]
      /\ \A j \in DOMAIN b :
           Counts(b[j]) /\ b[j].kind \notin cut' => \E i \in DOMAIN events' : events'[i] = b[j]
      /\ \E i \in DOMAIN events' : events'[i] = v
      /\ "execution" \notin cut' =>
           \A u \in Int : u + Day >= now =>
             Cardinality(Executions(events', u)) =
               Cardinality(Executions(b, u)) + (IF v.kind = "execution" /\ v.at >= u THEN 1 ELSE 0)
  <2>1. TypeOK /\ v \in Events /\ now \in Int /\ now <= now /\ v.at + Week >= now
    BY <1>2, <1>3
  <2>2. b \in Seq(Events) /\ (\A i \in DOMAIN b : SoundEvent(b[i])) /\ Save(Append(b, v), now)
    BY <1>1, <1>6
  <2> QED
    BY <1>4, <2>1, <2>2, AppendKeeps
<1>8. TypeOK'
  <2>1. limit' \in [Keys -> 0..(MaxTime + MaxReset)]
    BY <1>1, <1>2 DEF TypeOK
  <2>2. overtaken' \subseteq Keys
    BY <1>1, <1>2 DEF TypeOK
  <2> QED
    BY <1>1, <1>2, <1>7, <2>1, <2>2 DEF TypeOK, dispatches
<1>9. EventsSound' /\ PastSound'
  <2>1. EventsSound'
    BY <1>1, <1>4, <1>6, <1>7 DEF EventsSound, SoundEvent
  <2>2. PastSound'
    BY <1>1 DEF LedgerInv, PastSound, dispatches
  <2> QED
    BY <2>1, <2>2
<1>10. \A j \in DOMAIN events \ Superseded(k) :
         Counts(events[j]) /\ events[j].kind \notin cut' => \E i \in DOMAIN events' : events'[i] = events[j]
  BY <1>6, <1>7
<1>11. \A i \in DOMAIN events' : events'[i] = v \/ \E j \in DOMAIN events \ Superseded(k) : events'[i] = events[j]
  BY <1>6, <1>7
<1>12. RunsApart' /\ BookedSound' /\ Charged' /\ RatePromised' /\ SlotListed'
  <2>1. \A i \in DOMAIN events' :
          events'[i].kind = "finished" => \E j \in DOMAIN events : events'[i] = events[j]
    BY <1>3, <1>11
  <2>2. \A j \in DOMAIN events :
          events[j].kind = "started" /\ Counts(events[j]) /\ "started" \notin cut'
          => \E i \in DOMAIN events' : events'[i] = events[j]
    BY <1>5, <1>10
  <2>3. "execution" \notin cut' =>
          \A u \in Int : u + Day >= now =>
            Cardinality(Executions(events', u)) = Cardinality(Executions(events, u))
    BY <1>3, <1>6, <1>7, NoCount
  <2> QED
    BY <1>1, <1>7, <2>1, <2>2, <2>3, DispatchesKept
<1>13. \A x : Refuted(x)' <=> Refuted(x)
  BY <1>1 DEF Refuted, Disproved
<1>14. LimitListed'
  <2> SUFFICES ASSUME "cooldown" \notin cut', NEW x \in Keys \ overtaken', limit'[x] > now
               PROVE  \E i \in DOMAIN events' :
                        /\ events'[i].kind = "cooldown" /\ events'[i].who = x
                        /\ events'[i].reset = limit'[x] /\ events'[i].at + Week >= now
    BY <1>1 DEF LimitListed
  <2>1. CASE x = k
    BY <1>1, <1>2, <1>3, <1>7, <2>1 DEF TypeOK
  <2>2. CASE x # k
    <3>1. limit'[x] = limit[x] /\ x \notin overtaken
      BY <1>1, <1>2, <2>2 DEF TypeOK
    <3>2. PICK j \in DOMAIN events :
            /\ events[j].kind = "cooldown" /\ events[j].who = x /\ events[j].reset = limit[x]
            /\ events[j].at + Week >= now
      BY <1>7, <3>1 DEF LedgerInv, LimitListed
    <3>3. Counts(events[j]) /\ j \notin Superseded(k)
      BY <2>2, <3>1, <3>2 DEF Counts, Active, Superseded
    <3> QED
      BY <1>10, <3>1, <3>2, <3>3
  <2> QED
    BY <2>1, <2>2
<1>15. ListedKnown'
  <2> SUFFICES ASSUME NEW i \in DOMAIN events', Active(events'[i], now)
               PROVE  \/ events'[i].reset = limit'[events'[i].who]
                      \/ events'[i].who \in overtaken' \/ Refuted(events'[i].who)
    BY <1>1, <1>13 DEF ListedKnown, Active, Refuted, Disproved
  <2>1. CASE events'[i] = v
    BY <1>1, <1>2, <1>3, <2>1 DEF TypeOK
  <2>2. ASSUME NEW j \in DOMAIN events \ Superseded(k), events'[i] = events[j]
        PROVE  \/ events'[i].reset = limit'[events'[i].who]
               \/ events'[i].who \in overtaken' \/ Refuted(events'[i].who)
    <3>1. Active(events[j], now) /\ events[j].who # k /\ events[j].who \in Keys
      BY <2>2 DEF Superseded, LedgerInv, EventsSound, SoundEvent, Active
    <3>2. limit'[events[j].who] = limit[events[j].who] /\ (events[j].who \in overtaken => events[j].who \in overtaken')
      BY <1>1, <1>2, <3>1 DEF TypeOK
    <3> QED
      BY <2>2, <3>1, <3>2 DEF LedgerInv, ListedKnown
  <2> QED
    BY <1>11, <2>1, <2>2
<1>16. RefutedForgotten'
  <2> SUFFICES ASSUME NEW x \in Keys, Refuted(x) PROVE limit'[x] = 0 \/ x \in overtaken'
    BY <1>13 DEF RefutedForgotten
  <2>1. CASE x = k
    BY <1>1, <2>1 DEF Refuted
  <2>2. CASE x # k
    BY <1>1, <1>2, <2>2 DEF LedgerInv, RefutedForgotten, TypeOK
  <2> QED
    BY <2>1, <2>2
<1> QED
  BY <1>8, <1>9, <1>12, <1>14, <1>15, <1>16 DEF LedgerInv

\* A step of the probe that leaves the list alone says nothing of dispatches.
LEMMA ListKept ==
  ASSUME LedgerInv, UNCHANGED <<scene, ledger, dispatches, cut>>
  PROVE  EventsSound' /\ RunsApart' /\ BookedSound' /\ Charged' /\ RatePromised' /\ SlotListed'
<1>1. UNCHANGED <<scene, now, events, cut, pc, run, began, swept, booked>>
  BY DEF ledger, dispatches
<1>2. EventsSound'
  BY <1>1 DEF LedgerInv, EventsSound, SoundEvent
<1>3. events' \in Seq(Events)
  BY <1>1 DEF LedgerInv, TypeOK
<1>4. \A u \in Int : Cardinality(Executions(events', u)) = Cardinality(Executions(events, u))
  BY <1>1
<1> QED
  BY <1>1, <1>2, <1>3, <1>4, DispatchesKept

\* Before its answer a probe disproves nothing, and what is listed is a limit.
LEMMA NothingRefuted ==
  ASSUME LedgerInv
  PROVE  /\ probe = None \/ probe.ok = None => \A k \in Keys : ~Refuted(k)
         /\ \A i \in DOMAIN events : Active(events[i], now) => events[i].who \in Keys
<1>1. \A k \in Keys : k # None
  BY KeyAssumption DEF Keys
<1>2. \A i \in DOMAIN events : Active(events[i], now) => events[i].who \in Keys
  BY DEF LedgerInv, EventsSound, SoundEvent, Active
<1> QED
  BY <1>1, <1>2 DEF Refuted, Disproved

\* The snapshot of a probe.
LEMMA BeginProbeStep ==
  ASSUME LedgerInv, BeginProbe
  PROVE  LedgerInv'
<1> DEFINE wide == ActiveKeys \cap Wide # {}
<1>1. /\ probe = None
      /\ probe' = [at |-> now, wide |-> wide, ok |-> None, todo |-> IF wide THEN Models ELSE ActiveKeys]
      /\ UNCHANGED <<scene, ledger, dispatches, limit, cut, overtaken>>
  BY DEF BeginProbe
<1>2. UNCHANGED <<scene, now, events, pc, run, began, swept, booked, limit, cut, overtaken>>
  BY <1>1 DEF ledger, dispatches
<1>3. EventsSound' /\ RunsApart' /\ BookedSound' /\ Charged' /\ RatePromised' /\ SlotListed'
  BY <1>1, ListKept
<1>4. ActiveKeys \subseteq Keys
  <2>1. \A i \in DOMAIN Seen : \E j \in DOMAIN events : Seen[i] = events[j]
    BY SeenKeeps DEF LedgerInv
  <2>2. ASSUME NEW i \in DOMAIN Seen, Active(Seen[i], now) PROVE Seen[i].who \in Keys
    BY <2>1, <2>2, NothingRefuted
  <2> QED
    BY <2>2 DEF ActiveKeys, Reported
<1>5. wide \in BOOLEAN /\ (IF wide THEN Models ELSE ActiveKeys) \in SUBSET Models
  BY <1>4 DEF Keys
<1> HIDE DEF wide
<1>6. probe'.ok = None /\ probe'.at = now
  BY <1>1
<1>7. TypeOK'
  BY <1>1, <1>2, <1>5 DEF LedgerInv, TypeOK, Probes
<1>8. PastSound'
  <2>1. now \in Int
    BY DEF LedgerInv, TypeOK
  <2> QED
    BY <1>2, <1>6, <2>1 DEF LedgerInv, PastSound
<1>9. \A k \in Keys : ~Refuted(k) /\ ~Refuted(k)'
  <2>1. \A k \in Keys : k # None
    BY KeyAssumption DEF Keys
  <2> QED
    BY <1>1, <1>6, <2>1 DEF Refuted, Disproved
<1>10. LimitListed' /\ ListedKnown'
  BY <1>2, <1>9, NothingRefuted DEF LedgerInv, LimitListed, ListedKnown, Active
<1>11. RefutedForgotten'
  BY <1>9 DEF RefutedForgotten
<1> QED
  BY <1>3, <1>7, <1>8, <1>10, <1>11 DEF LedgerInv

\* A model does not run.
LEMMA ProbeFailsStep ==
  ASSUME LedgerInv, NEW m \in Models, ProbeFails(m)
  PROVE  LedgerInv'
<1>1. /\ probe # None /\ probe.ok = None
      /\ probe' = IF probe.todo = {m} THEN None ELSE [probe EXCEPT !.todo = @ \ {m}]
      /\ UNCHANGED <<scene, ledger, dispatches, limit, cut, overtaken>>
  BY DEF ProbeFails
<1>2. UNCHANGED <<scene, now, events, pc, run, began, swept, booked, limit, cut, overtaken>>
  BY <1>1 DEF ledger, dispatches
<1>3. EventsSound' /\ RunsApart' /\ BookedSound' /\ Charged' /\ RatePromised' /\ SlotListed'
  BY <1>1, ListKept
<1>4. probe \in Probes
  BY <1>1 DEF LedgerInv, TypeOK
<1>5. probe' = None \/ (probe' \in Probes
                        /\ probe'.ok = None /\ probe'.at = probe.at)
  BY <1>1, <1>4 DEF Probes
<1>6. TypeOK'
  BY <1>2, <1>5 DEF LedgerInv, TypeOK
<1>7. PastSound'
  BY <1>1, <1>2, <1>5 DEF LedgerInv, PastSound
<1>8. \A k \in Keys : ~Refuted(k) /\ ~Refuted(k)'
  <2>1. \A k \in Keys : k # None
    BY KeyAssumption DEF Keys
  <2> QED
    BY <1>1, <1>5, <2>1 DEF Refuted, Disproved
<1>9. LimitListed' /\ ListedKnown'
  BY <1>2, <1>8, NothingRefuted DEF LedgerInv, LimitListed, ListedKnown, Active
<1>10. RefutedForgotten'
  BY <1>8 DEF RefutedForgotten
<1> QED
  BY <1>3, <1>6, <1>7, <1>9, <1>10 DEF LedgerInv

\* A model runs: its limit is disproved, and those that stop every model.
LEMMA ProbeRunsStep ==
  ASSUME LedgerInv, NEW m \in Models, ProbeRuns(m)
  PROVE  LedgerInv'
<1>1. /\ probe # None /\ probe.ok = None
      /\ probe' = [probe EXCEPT !.ok = m, !.todo = @ \ {m}]
      /\ limit' = [k \in Keys |-> IF k = m \/ (k \in Wide /\ probe.wide) THEN 0 ELSE limit[k]]
      /\ UNCHANGED <<scene, ledger, dispatches, cut, overtaken>>
  BY DEF ProbeRuns
<1>2. UNCHANGED <<scene, now, events, pc, run, began, swept, booked, cut, overtaken>>
  BY <1>1 DEF ledger, dispatches
<1>3. EventsSound' /\ RunsApart' /\ BookedSound' /\ Charged' /\ RatePromised' /\ SlotListed'
  BY <1>1, ListKept
<1>4. probe \in Probes
  BY <1>1 DEF LedgerInv, TypeOK
<1>5. /\ probe' \in Probes
      /\ probe'.ok = m /\ probe'.at = probe.at /\ probe'.wide = probe.wide
  BY <1>1, <1>4 DEF Probes
<1>6. m # None /\ probe' # None
  <2>1. m # None
    BY KeyAssumption
  <2>2. probe' # None
    BY <1>5, ProbeAssumption
  <2> QED
    BY <2>1, <2>2
<1>7. TypeOK'
  BY <1>1, <1>2, <1>5, ZeroTyped DEF LedgerInv, TypeOK
<1>8. PastSound'
  BY <1>1, <1>2, <1>5 DEF LedgerInv, PastSound
<1>9. \A k \in Keys : ~Refuted(k)
  BY <1>1, NothingRefuted
<1>10. \A k \in Keys : Refuted(k)' <=> k = m \/ (k \in Wide /\ probe.wide)
  BY <1>5, <1>6 DEF Refuted, Disproved
<1>11. \A k \in Keys : limit'[k] = IF Refuted(k)' THEN 0 ELSE limit[k]
  BY <1>1, <1>10
<1>12. LimitListed'
  <2>1. ASSUME NEW k \in Keys, limit'[k] > now PROVE limit'[k] = limit[k]
    <3>1. ~(0 > now)
      BY DEF LedgerInv, TypeOK
    <3> QED
      BY <1>11, <2>1, <3>1
  <2> QED
    BY <1>2, <2>1 DEF LedgerInv, LimitListed
<1>13. ListedKnown'
  <2> SUFFICES ASSUME NEW i \in DOMAIN events, Active(events[i], now), NEW k, k = events[i].who
               PROVE  events[i].reset = limit'[k] \/ k \in overtaken \/ Refuted(k)'
    BY <1>2 DEF ListedKnown, Active, Refuted, Disproved
  <2>1. k \in Keys
    BY NothingRefuted
  <2>2. events[i].reset = limit[k] \/ k \in overtaken
    BY <1>9, <2>1 DEF LedgerInv, ListedKnown
  <2>3. CASE ~(Refuted(k)')
    <3>1. limit'[k] = limit[k]
      BY <1>11, <2>1, <2>3
    <3> QED
      BY <2>2, <3>1
  <2> QED
    BY <2>3
<1>14. RefutedForgotten'
  BY <1>11 DEF RefutedForgotten
<1> QED
  BY <1>3, <1>7, <1>8, <1>12, <1>13, <1>14 DEF LedgerInv

\* What the probe disproved is taken out of the list, and nothing else.
LEMMA ClearedIsRefuted ==
  ASSUME LedgerInv, probe # None, probe.ok # None, NEW i \in DOMAIN events, Active(events[i], now)
  PROVE  i \in Cleared <=> Refuted(events[i].who)
<1>1. events[i].who \in Keys /\ probe.ok \in Models
  BY NothingRefuted DEF LedgerInv, TypeOK, Probes
<1>2. Active(events[i], probe.at)
  <2>1. probe.at <= now /\ probe.at \in Int /\ now \in Int
    BY DEF LedgerInv, TypeOK, PastSound, Probes
  <2>2. \A j \in DOMAIN events : events[j] \in Events
    BY DEF LedgerInv, TypeOK
  <2>3. events[i].reset \in Int
    BY <2>2, BoundAssumption, ResetAssumption, WindowAssumption DEF Events
  <2> QED
    BY <2>1, <2>3 DEF Active
<1>3. events[i].who \in Models <=> events[i].who \notin Wide
  BY <1>1, KeyAssumption DEF Keys
<1> QED
  BY <1>1, <1>2, <1>3 DEF Cleared, Refuted, Disproved

\* The list after a clearing: what was not cleared and still counts, and perhaps
\* the note that something was.
LEMMA ClearedList ==
  ASSUME LedgerInv, Clear
  PROVE  /\ events' \in Seq(Events) /\ Len(events') <= scene.keep
         /\ cut' \subseteq Kinds /\ cut \subseteq cut'
         /\ \A i \in DOMAIN events' : SoundEvent(events'[i])
         /\ \A i \in DOMAIN events' :
              \/ events'[i].kind = "other"
              \/ \E j \in DOMAIN events \ Cleared : events'[i] = events[j]
         /\ \A j \in DOMAIN events \ Cleared :
              Counts(events[j]) /\ events[j].kind \notin cut' => \E i \in DOMAIN events' : events'[i] = events[j]
         /\ "execution" \notin cut' =>
              \A u \in Int : u + Day >= now =>
                Cardinality(Executions(events', u)) = Cardinality(Executions(events, u))
<1> DEFINE b == Without(events, Cleared)
           v == [Event("other", None, 0) EXCEPT !.at = probe.at]
<1>1. /\ probe # None /\ Save(IF Cleared = {} THEN b ELSE Append(b, v), probe.at)
  BY DEF Clear
<1>2. /\ TypeOK /\ now \in Int /\ probe.at \in 0..MaxTime /\ probe.at \in Int /\ probe.at <= now
      /\ Week \in Nat /\ probe.at + Week >= probe.at
  BY <1>1, WindowAssumption, BoundAssumption DEF LedgerInv, TypeOK, PastSound, Probes
<1>3. v \in Events /\ v.at = probe.at /\ v.kind = "other"
  <2>1. "other" \in Kinds /\ None \in Keys \cup Runs \cup {None}
    BY DEF Kinds
  <2>2. Event("other", None, 0) \in Events
    BY <2>1, EventTyped, ZeroTyped
  <2> QED
    BY <1>2, <2>2 DEF Event, Events
<1> HIDE DEF v
<1>4. SoundEvent(v)
  BY <1>2, <1>3 DEF SoundEvent
<1>5. Cleared \in SUBSET DOMAIN events /\ \A i \in Cleared : events[i].kind # "execution"
  BY DEF Cleared, Active
<1>6. /\ b \in Seq(Events) /\ \A i \in DOMAIN b : SoundEvent(b[i])
      /\ \A i \in DOMAIN b : \E j \in DOMAIN events \ Cleared : b[i] = events[j]
      /\ \A j \in DOMAIN events \ Cleared : \E i \in DOMAIN b : b[i] = events[j]
      /\ \A u \in Int : Cardinality(Executions(b, u)) = Cardinality(Executions(events, u))
  BY <1>2, <1>5, WithoutKeeps DEF LedgerInv, EventsSound
<1> HIDE DEF b
<1>7. /\ events' \in Seq(Events) /\ Len(events') <= scene.keep
      /\ cut' \subseteq Kinds /\ cut \subseteq cut'
      /\ \A i \in DOMAIN events' : events'[i] = v \/ \E j \in DOMAIN b : events'[i] = b[j]
      /\ \A j \in DOMAIN b :
           Counts(b[j]) /\ b[j].kind \notin cut' => \E i \in DOMAIN events' : events'[i] = b[j]
      /\ "execution" \notin cut' =>
           \A u \in Int : u + Day >= now =>
             Cardinality(Executions(events', u)) = Cardinality(Executions(b, u))
  <2>1. CASE Cleared = {}
    <3>1. Save(b, probe.at)
      BY <1>1, <2>1
    <3> QED
      BY <1>2, <1>6, <3>1, SaveKeeps
  <2>2. CASE Cleared # {}
    <3>1. Save(Append(b, v), probe.at) /\ b \in Seq(Events) /\ \A i \in DOMAIN b : SoundEvent(b[i])
      BY <1>1, <1>6, <2>2
    <3>2. TypeOK /\ v \in Events /\ probe.at \in Int /\ probe.at <= now /\ v.at + Week >= probe.at
      BY <1>2, <1>3
    <3>3. /\ events' \in Seq(Events) /\ Len(events') <= scene.keep
          /\ cut' \subseteq Kinds /\ cut \subseteq cut'
          /\ \A i \in DOMAIN events' : events'[i] = v \/ \E j \in DOMAIN b : events'[i] = b[j]
          /\ \A j \in DOMAIN b :
               Counts(b[j]) /\ b[j].kind \notin cut' => \E i \in DOMAIN events' : events'[i] = b[j]
          /\ "execution" \notin cut' =>
               \A u \in Int : u + Day >= now =>
                 Cardinality(Executions(events', u)) =
                   Cardinality(Executions(b, u)) + (IF v.kind = "execution" /\ v.at >= u THEN 1 ELSE 0)
      BY <1>4, <3>1, <3>2, AppendKeeps
    <3>4. \A u \in Int : Cardinality(Executions(b, u)) \in Nat
      BY <1>6, NoCount
    <3> QED
      BY <1>3, <3>3, <3>4
  <2> QED
    BY <2>1, <2>2
<1>8. \A i \in DOMAIN events' : SoundEvent(events'[i])
  BY <1>4, <1>6, <1>7
<1>9. \A i \in DOMAIN events' :
        events'[i].kind = "other" \/ \E j \in DOMAIN events \ Cleared : events'[i] = events[j]
  BY <1>3, <1>6, <1>7
<1>10. \A j \in DOMAIN events \ Cleared :
         Counts(events[j]) /\ events[j].kind \notin cut' => \E i \in DOMAIN events' : events'[i] = events[j]
  BY <1>6, <1>7
<1> QED
  BY <1>6, <1>7, <1>8, <1>9, <1>10

\* What the probe disproved is retracted.
LEMMA ClearStep ==
  ASSUME LedgerInv, Clear
  PROVE  LedgerInv'
<1>1. /\ probe # None /\ probe.ok # None
      /\ probe' = IF probe.todo = {} THEN None ELSE [probe EXCEPT !.ok = None, !.wide = FALSE]
      /\ UNCHANGED <<scene, now, dispatches, limit, overtaken>>
  BY DEF Clear
<1>2. UNCHANGED <<scene, now, pc, run, began, swept, booked, limit, overtaken>>
  BY <1>1 DEF dispatches
<1>3. probe \in Probes
  BY <1>1 DEF LedgerInv, TypeOK
<1>4. probe' = None \/ (probe' \in Probes /\ probe'.ok = None /\ probe'.at = probe.at)
  BY <1>1, <1>3 DEF Probes
<1>5. /\ events' \in Seq(Events) /\ Len(events') <= scene.keep
      /\ cut' \subseteq Kinds /\ cut \subseteq cut'
      /\ \A i \in DOMAIN events' : SoundEvent(events'[i])
      /\ \A i \in DOMAIN events' :
           \/ events'[i].kind = "other"
           \/ \E j \in DOMAIN events \ Cleared : events'[i] = events[j]
      /\ \A j \in DOMAIN events \ Cleared :
           Counts(events[j]) /\ events[j].kind \notin cut' => \E i \in DOMAIN events' : events'[i] = events[j]
      /\ "execution" \notin cut' =>
           \A u \in Int : u + Day >= now =>
             Cardinality(Executions(events', u)) = Cardinality(Executions(events, u))
  BY ClearedList
<1>6. TypeOK'
  BY <1>2, <1>4, <1>5 DEF LedgerInv, TypeOK
<1>7. EventsSound' /\ PastSound'
  BY <1>1, <1>2, <1>4, <1>5 DEF LedgerInv, EventsSound, SoundEvent, PastSound
<1>8. RunsApart' /\ BookedSound' /\ Charged' /\ RatePromised' /\ SlotListed'
  <2>1. \A j \in Cleared : events[j].kind = "cooldown"
    BY DEF Cleared, Active
  <2>2. \A j \in DOMAIN events :
          /\ events[j].kind = "started" /\ Counts(events[j]) /\ "started" \notin cut'
          => \E i \in DOMAIN events' : events'[i] = events[j]
    BY <1>5, <2>1
  <2>3. \A i \in DOMAIN events' :
          events'[i].kind = "finished" => \E j \in DOMAIN events : events'[i] = events[j]
    BY <1>5
  <2> QED
    BY <1>1, <1>5, <2>2, <2>3, DispatchesKept
<1>9. \A k \in Keys : ~(Refuted(k)')
  <2>1. \A k \in Keys : k # None
    BY KeyAssumption DEF Keys
  <2> QED
    BY <1>4, <2>1 DEF Refuted, Disproved
<1>10. LimitListed'
  <2> SUFFICES ASSUME "cooldown" \notin cut', NEW x \in Keys \ overtaken, limit[x] > now
               PROVE  \E i \in DOMAIN events' :
                        /\ events'[i].kind = "cooldown" /\ events'[i].who = x
                        /\ events'[i].reset = limit[x] /\ events'[i].at + Week >= now
    BY <1>2 DEF LimitListed
  <2>1. PICK j \in DOMAIN events :
          /\ events[j].kind = "cooldown" /\ events[j].who = x /\ events[j].reset = limit[x]
          /\ events[j].at + Week >= now
    BY <1>5 DEF LedgerInv, LimitListed
  <2>2. Active(events[j], now)
    BY <2>1 DEF Active
  <2>3. ~Refuted(x)
    <3>1. ~(0 > now)
      BY DEF LedgerInv, TypeOK
    <3> QED
      BY <3>1 DEF LedgerInv, RefutedForgotten
  <2>4. j \notin Cleared
    BY <1>1, <2>1, <2>2, <2>3, ClearedIsRefuted
  <2> QED
    BY <1>5, <2>1, <2>2, <2>4 DEF Counts
<1>11. ListedKnown'
  <2> SUFFICES ASSUME NEW i \in DOMAIN events', Active(events'[i], now), NEW k, k = events'[i].who
               PROVE  events'[i].reset = limit[k] \/ k \in overtaken \/ Refuted(k)'
    BY <1>2 DEF ListedKnown, Active, Refuted, Disproved
  <2>1. PICK j \in DOMAIN events \ Cleared : events'[i] = events[j]
    BY <1>5 DEF Active
  <2>2. ~Refuted(k)
    BY <1>1, <2>1, ClearedIsRefuted
  <2> QED
    BY <2>1, <2>2 DEF LedgerInv, ListedKnown
<1>12. RefutedForgotten'
  BY <1>9 DEF RefutedForgotten
<1> QED
  BY <1>6, <1>7, <1>8, <1>10, <1>11, <1>12 DEF LedgerInv

\* Every step keeps the invariant.
LEMMA LedgerStep == LedgerInv /\ [Next]_vars => LedgerInv'
<1> SUFFICES ASSUME LedgerInv, [Next]_vars PROVE LedgerInv'
  OBVIOUS
<1>1. ASSUME Dispatching PROVE LedgerInv'
  <2>1. PICK e \in scene.executors : Gate(e) \/ Start(e) \/ Finish(e) \/ Book(e) \/ Outcome(e) \/ Kill(e)
    BY <1>1 DEF Dispatching
  <2>2. CASE Outcome(e)
    BY <2>2, OtherStep DEF Outcome, Goto
  <2> QED
    BY <2>1, <2>2, GateStep, StartStep, FinishStep, BookStep, KillStep
<1>6. ASSUME Sweeping PROVE LedgerInv'
  BY <1>6, SweepStep DEF Sweeping
<1>2. ASSUME Noise PROVE LedgerInv'
  BY <1>2, OtherStep DEF Noise, dispatches
<1>3. ASSUME Cooling PROVE LedgerInv'
  BY <1>3, RecordCooldownStep DEF Cooling
<1>4. ASSUME Probing PROVE LedgerInv'
  BY <1>4, BeginProbeStep, ClearStep, ProbeFailsStep, ProbeRunsStep DEF Probing
<1>5. ASSUME UNCHANGED vars PROVE LedgerInv'
  <2>1. UNCHANGED <<scene, ledger, dispatches, cut, now, events, probe, limit, overtaken, pc, run, began, swept, booked>>
    BY <1>5 DEF vars, ledger, dispatches
  <2>2. EventsSound' /\ RunsApart' /\ BookedSound' /\ Charged' /\ RatePromised' /\ SlotListed'
    BY <2>1, ListKept
  <2>3. TypeOK' /\ PastSound'
    BY <2>1 DEF LedgerInv, TypeOK, PastSound
  <2>4. LimitListed' /\ ListedKnown' /\ RefutedForgotten'
    BY <2>1 DEF LedgerInv, LimitListed, ListedKnown, RefutedForgotten, Refuted, Disproved, Active
  <2> QED
    BY <2>2, <2>3, <2>4 DEF LedgerInv
<1> QED
  BY <1>1, <1>2, <1>3, <1>4, <1>5, <1>6, TickStep DEF Next

LEMMA LedgerInvariant == Spec => []LedgerInv
<1> QED
  BY LedgerInit, LedgerStep, PTL DEF Spec

\* The type invariant.
THEOREM LedgerTypeCorrect == Spec => []TypeOK
<1>1. LedgerInv => TypeOK
  BY DEF LedgerInv
<1> QED
  BY <1>1, LedgerInvariant, PTL

\* The rolling caps are overshot by fewer executions than there are executors.
THEOREM RateBounded == Spec => []RateBound
<1>1. LedgerInv => RateBound
  <2> SUFFICES ASSUME LedgerInv, "execution" \notin cut
               PROVE  /\ Spent(Hour) < scene.hourCap + Cardinality(scene.executors)
                      /\ Spent(Day) < scene.dayCap + Cardinality(scene.executors)
    BY DEF RateBound
  <2>1. /\ Cardinality(Owing) \in Nat /\ Cardinality(scene.executors) \in Nat
        /\ scene.hourCap \in Nat /\ scene.dayCap \in Nat
        /\ Spent(Hour) \in Nat /\ Spent(Day) \in Nat
    BY NumbersNatural
  <2> QED
    BY <2>1 DEF LedgerInv, RatePromised
<1> QED
  BY <1>1, LedgerInvariant, PTL

\* A run that goes on holds an open slot for a day, unless a sweep closed it.
THEOREM SlotsSeen == Spec => []SlotSeen
<1>1. LedgerInv => SlotSeen
  <2> SUFFICES ASSUME LedgerInv, "started" \notin cut, NEW e \in scene.executors,
                      pc[e] = "running", began[e] + Day >= now, e \notin swept
               PROVE  run[e] \in OpenSlots
    BY DEF SlotSeen
  <2>1. TypeOK /\ run[e] # None /\ SlotOf(e)
    BY DEF LedgerInv, RunsApart, SlotListed
  <2>2. PICK i \in DOMAIN events :
          events[i].kind = "started" /\ events[i].who = run[e] /\ events[i].at = began[e]
    BY <2>1 DEF SlotOf
  <2>3. events[i].at + Week >= now
    <3>1. began[e] \in Int /\ now \in Int /\ Day \in Int /\ Week \in Int /\ Day <= Week
      BY <2>1, WindowAssumption, BoundAssumption DEF TypeOK
    <3> QED
      BY <2>2, <3>1
  <2>4. PICK j \in DOMAIN Seen : Seen[j] = events[i]
    BY <2>1, <2>3, SeenKeeps
  <2>5. \A n \in DOMAIN Seen : ~(Seen[n].kind = "finished" /\ Seen[n].who = run[e])
    BY <2>1, SeenKeeps DEF SlotOf
  <2>6. \A n \in j..Len(Seen) : n \in DOMAIN Seen
    BY <2>1, SeenKeeps
  <2> QED
    BY <2>2, <2>4, <2>5, <2>6 DEF OpenSlots
<1> QED
  BY <1>1, LedgerInvariant, PTL

\* The active limits a reader finds are those that are known, where no report was
\* overtaken and no answer is waiting to be acted on.
LEMMA ReportedKnown ==
  ASSUME LedgerInv, "cooldown" \notin cut, NEW k \in Keys, k \notin overtaken
  PROVE  /\ limit[k] > now => {r \in Reported : r[1] = k} = {<<k, limit[k]>>}
         /\ ~(limit[k] > now) /\ ~Refuted(k) => {r \in Reported : r[1] = k} = {}
<1>1. TypeOK /\ now \in Int /\ limit[k] \in Nat
  BY ResetAssumption, BoundAssumption DEF LedgerInv, TypeOK
<1>2. ASSUME NEW r \in Reported, r[1] = k, ~Refuted(k)
      PROVE  r = <<k, limit[k]>> /\ limit[k] > now
  <2>1. PICK i \in DOMAIN Seen : Active(Seen[i], now) /\ r = <<Seen[i].who, Seen[i].reset>>
    BY DEF Reported
  <2>2. PICK j \in DOMAIN events : Seen[i] = events[j]
    BY <1>1, SeenKeeps
  <2>3. Active(events[j], now) /\ events[j].who = k
    BY <1>2, <2>1, <2>2
  <2>4. events[j].reset = limit[k]
    BY <1>2, <2>3 DEF LedgerInv, ListedKnown
  <2> QED
    BY <1>2, <2>1, <2>2, <2>3, <2>4 DEF Active
<1>3. ASSUME limit[k] > now
      PROVE  <<k, limit[k]>> \in Reported /\ ~Refuted(k)
  <2>1. PICK j \in DOMAIN events :
          /\ events[j].kind = "cooldown" /\ events[j].who = k /\ events[j].reset = limit[k]
          /\ events[j].at + Week >= now
    BY <1>3 DEF LedgerInv, LimitListed
  <2>2. Active(events[j], now)
    BY <1>3, <2>1 DEF Active
  <2>5. PICK i \in DOMAIN Seen : Seen[i] = events[j]
    BY <1>1, <2>1, SeenKeeps
  <2>6. <<k, limit[k]>> \in Reported
    BY <2>1, <2>2, <2>5 DEF Reported
  <2>7. ~(0 > now)
    BY <1>1 DEF TypeOK
  <2> QED
    BY <1>3, <2>6, <2>7 DEF LedgerInv, RefutedForgotten
<1>4. ASSUME limit[k] > now
      PROVE  {r \in Reported : r[1] = k} = {<<k, limit[k]>>}
  <2>1. <<k, limit[k]>> \in Reported /\ ~Refuted(k)
    BY <1>3, <1>4
  <2>2. \A r \in Reported : r[1] = k => r = <<k, limit[k]>>
    BY <1>2, <2>1
  <2> QED
    BY <2>1, <2>2
<1> QED
  BY <1>2, <1>4

\* A limit that is known and not overtaken is in the list, with its reset.
THEOREM CooldownsKept == Spec => []CooldownKept
<1>1. LedgerInv => CooldownKept
  BY ReportedKnown DEF CooldownKept
<1> QED
  BY <1>1, LedgerInvariant, PTL

\* A finite set of numbers that is not empty has a least and a greatest member.
LEMMA Extremes ==
  ASSUME NEW T \in SUBSET Int, IsFiniteSet(T), T # {}
  PROVE  /\ \E x \in T : \A y \in T : y <= x
         /\ \E x \in T : \A y \in T : x <= y
<1> DEFINE rank == [j \in T |-> Cardinality({k \in T : k <= j})]
<1>1. /\ Cardinality(T) \in Nat
      /\ rank \in [T -> 1..Cardinality(T)]
      /\ \A i, j \in T : i < j => rank[i] < rank[j]
      /\ \A n \in 1..Cardinality(T) : \E j \in T : rank[j] = n
  BY RankBijection
<1> HIDE DEF rank
<1>2. Cardinality(T) # 0
  BY FS_EmptySet
<1>3. PICK high \in T : rank[high] = Cardinality(T)
  <2>1. Cardinality(T) \in 1..Cardinality(T)
    BY <1>1, <1>2
  <2> QED
    BY <1>1, <2>1
<1>4. PICK low \in T : rank[low] = 1
  <2>1. 1 \in 1..Cardinality(T)
    BY <1>1, <1>2
  <2> QED
    BY <1>1, <2>1
<1>5. ASSUME NEW y \in T PROVE y <= high /\ low <= y
  <2>1. rank[y] \in 1..Cardinality(T)
    BY <1>1
  <2>2. ~(rank[high] < rank[y]) /\ ~(rank[y] < rank[low])
    BY <1>1, <1>3, <1>4, <2>1
  <2>3. ~(high < y) /\ ~(y < low)
    BY <1>1, <2>2
  <2>4. high \in Int /\ low \in Int /\ y \in Int
    OBVIOUS
  <2> QED
    BY <2>3, <2>4
<1> QED
  BY <1>5

\* The backend is passed over exactly while the known limits stop every model.
THEOREM BlockedIsHonest == Spec => []BlockedHonest
<1>1. LedgerInv => BlockedHonest
  <2> SUFFICES ASSUME LedgerInv, "cooldown" \notin cut, overtaken = {}, probe = None
               PROVE  /\ Horizon # 0 <=> Stopped(now)
                      /\ \A t \in now..(Horizon - 1) : Stopped(t)
    BY DEF BlockedHonest
  <2> DEFINE N == MaxTime + MaxReset
             late(k) == IF limit[k] > now THEN limit[k] ELSE 0
             wide == {late(k) : k \in Wide} \ {0}
             models == {late(m) : m \in Models}
  <2>1. /\ N \in Nat /\ now \in Nat
        /\ \A k \in Keys : limit[k] \in 0..N /\ limit[k] \in Nat
    BY ResetAssumption, BoundAssumption, WindowAssumption DEF LedgerInv, TypeOK
  <2> HIDE DEF N
  <2>2. ASSUME NEW k \in Keys PROVE Latest(Reported, k) = late(k)
    <3>1. ~Refuted(k)
      BY NothingRefuted
    <3>2. CASE limit[k] > now
      <4> DEFINE Q == {r \in Reported : r[1] = k}
                 resets == {r[2] : r \in Q}
      <4>1. Q = {<<k, limit[k]>>}
        BY <3>2, ReportedKnown
      <4>2. resets = {limit[k]}
        <5> HIDE DEF Q
        <5> QED
          BY <4>1
      <4>3. Latest(Reported, k) = IF resets = {} THEN 0 ELSE CHOOSE r \in resets : \A s \in resets : s <= r
        BY DEF Latest
      <4> HIDE DEF resets
      <4>4. \E r \in resets : \A s \in resets : s <= r
        BY <2>1, <4>2
      <4>5. Latest(Reported, k) \in resets
        BY <4>2, <4>3, <4>4
      <4> QED
        BY <3>2, <4>2, <4>5
    <3>3. CASE ~(limit[k] > now)
      <4>1. {r \in Reported : r[1] = k} = {}
        BY <3>1, <3>3, ReportedKnown
      <4>2. {r[2] : r \in {q \in Reported : q[1] = k}} = {}
        BY <4>1
      <4> QED
        BY <3>3, <4>2 DEF Latest
    <3> QED
      BY <3>2, <3>3
  <2>3. Wide \subseteq Keys /\ Models \subseteq Keys
    BY DEF Keys
  <2>4. /\ {Latest(Reported, k) : k \in Wide} \ {0} = wide
        /\ {Latest(Reported, m) : m \in Models} = models
    BY <2>2, <2>3
  <2>5. Horizon = IF wide # {} THEN CHOOSE r \in wide : \A s \in wide : s <= r
                  ELSE IF models # {} /\ 0 \notin models THEN CHOOSE r \in models : \A s \in models : r <= s
                  ELSE 0
    <3> DEFINE until(W, M) == IF W # {} THEN CHOOSE r \in W : \A s \in W : s <= r
                              ELSE IF M # {} /\ 0 \notin M THEN CHOOSE r \in M : \A s \in M : r <= s
                              ELSE 0
    <3>1. Horizon = until({Latest(Reported, k) : k \in Wide} \ {0}, {Latest(Reported, m) : m \in Models})
      BY DEF Horizon, BlockedUntil
    <3>2. Horizon = until(wide, models)
      <4> HIDE DEF until, wide, models
      <4> QED
        BY <2>4, <3>1
    <3> QED
      BY <3>2
  <2>6. /\ IsFiniteSet(wide) /\ wide \in SUBSET Int
        /\ IsFiniteSet(models) /\ models \in SUBSET Int
    <3>1. \A k \in Keys : late(k) \in 0..N
      BY <2>1
    <3>2. wide \in SUBSET (0..N) /\ models \in SUBSET (0..N)
      BY <2>3, <3>1
    <3>3. IsFiniteSet(0..N)
      BY <2>1, FS_Interval
    <3> HIDE DEF wide, models
    <3>4. IsFiniteSet(wide) /\ IsFiniteSet(models)
      BY <3>2, <3>3, FS_Subset
    <3>5. \A x \in 0..N : x \in Int
      BY <2>1
    <3> QED
      BY <3>2, <3>4, <3>5
  <2>7. CASE wide # {}
    <3>1. \E r \in wide : \A s \in wide : s <= r
      <4> HIDE DEF wide
      <4> QED
        BY <2>6, <2>7, Extremes
    <3>2. Horizon \in wide
      BY <2>5, <2>7, <3>1
    <3>3. PICK k \in Wide : Horizon = limit[k] /\ limit[k] > now
      BY <2>3, <3>2
    <3>4. Horizon # 0 /\ \A t \in now..(Horizon - 1) : Horizon > t
      BY <2>1, <2>3, <3>3
    <3> QED
      BY <3>3, <3>4 DEF Stopped
  <2>8. CASE wide = {} /\ models # {} /\ 0 \notin models
    <3>1. \E r \in models : \A s \in models : r <= s
      <4> HIDE DEF models
      <4> QED
        BY <2>6, <2>8, Extremes
    <3>2. Horizon \in models /\ \A s \in models : Horizon <= s
      <4> HIDE DEF models
      <4> QED
        BY <2>5, <2>8, <3>1
    <3>3. Models # {} /\ \A m \in Models : limit[m] > now /\ limit[m] \in models
      BY <2>3, <2>8
    <3>4. Horizon # 0 /\ Horizon \in Int
      <4> HIDE DEF models
      <4> QED
        BY <2>6, <2>8, <3>2
    <3>5. \A t \in now..(Horizon - 1) : \A m \in Models : limit[m] > t
      <4>1. \A m \in Models : limit[m] \in Int /\ Horizon <= limit[m]
        BY <2>1, <2>3, <3>2, <3>3
      <4> QED
        BY <2>1, <3>4, <4>1
    <3> QED
      BY <3>3, <3>4, <3>5 DEF Stopped
  <2>9. CASE wide = {} /\ ~(models # {} /\ 0 \notin models)
    <3>1. Horizon = 0
      BY <2>5, <2>9
    <3>2. \A t \in now..(Horizon - 1) : FALSE
      BY <2>1, <3>1
    <3>3. \A k \in Wide : ~(limit[k] > now)
      <4>1. \A k \in Wide : late(k) = 0
        BY <2>9
      <4> QED
        BY <2>1, <2>3, <4>1
    <3>4. ASSUME Models # {}, \A m \in Models : limit[m] > now PROVE FALSE
      BY <2>1, <2>3, <2>9, <3>4
    <3> QED
      BY <3>1, <3>2, <3>3, <3>4 DEF Stopped
  <2> QED
    BY <2>7, <2>8, <2>9
<1> QED
  BY <1>1, LedgerInvariant, PTL
=============================================================================
