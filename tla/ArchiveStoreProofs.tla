------------------------- MODULE ArchiveStoreProofs -------------------------
(***************************************************************************)
(* Proofs about ArchiveStore: with time rotation, an acked event stays     *)
(* readable through every failure, crash and restart, for any records and  *)
(* any number of appends.  Without time rotation it does not: see the run  *)
(* on MCArchiveStoreUntimed.                                               *)
(***************************************************************************)
EXTENDS ArchiveStore, SequenceTheorems, WellFoundedInduction, TLAPS

\* A line an fsync has covered.
Durable(file, r) == \E i \in 1..file.synced : file.lines[i] = r

IsFile(file) ==
    /\ file = [lines |-> file.lines, torn |-> file.torn, synced |-> file.synced]
    /\ file.lines \in Seq(Records \union {Bad})
    /\ file.synced \in 0..Len(file.lines)

ArchiveTypeOK ==
    /\ IsFile(part)
    /\ \A n \in DOMAIN plain : IsFile(plain[n])
    /\ \A n \in DOMAIN gz : IsFile(gz[n])
    /\ cur \in Records
    /\ acked \subseteq Records
    /\ appends \in 0..MaxAppends
    /\ seq \in Nat

OnDisk(r) ==
    \/ Durable(part, r)
    \/ \E n \in DOMAIN plain : Durable(plain[n], r)
    \/ \E n \in DOMAIN gz : Durable(gz[n], r)

AckedIsDurable == \A r \in acked : OnDisk(r)

\* A compressed file has what its plain file has made durable: a plain file
\* may be removed where both exist.
CompressedIsWhole ==
    \A n \in DOMAIN plain \intersect DOMAIN gz : \A r \in Records :
        Durable(plain[n], r) => Durable(gz[n], r)

\* The file being compressed exists, and is removed only once it is compressed.
CompressingExists ==
    /\ pc \in {"gzip", "swap", "unlink"} => name \in DOMAIN plain /\ name \notin sweeping
    /\ pc = "swap" => name \notin DOMAIN gz
    /\ pc = "unlink" => name \in DOMAIN gz
    /\ sweeping \subseteq DOMAIN plain

\* No line is written after torn bytes: they are in a file that is not open,
\* or about to be rotated.
NeverGlued ==
    /\ part.torn /\ f => pc = "rotate"
    /\ pc \in {"write", "sync"} => f
    /\ pc \in {"gzip", "swap", "unlink", "sweep", "swept", "write"} => ~part.torn

\* Between Write and Sync the record is the last line, and the file as it was
\* before has what was durable.
WrittenNotSynced ==
    pc = "sync" =>
        /\ part.lines # <<>> /\ part.lines[Len(part.lines)] = cur
        /\ IsFile(before) /\ ~before.torn /\ before.synced = part.synced
        /\ \A i \in 1..part.synced : before.lines[i] = part.lines[i]

\* Appends whose line is in the current file, or still to be written.
Open == IF IsEmpty(part) THEN 0 ELSE 1
Unwritten == IF pc = "write" \/ (then = "append" /\ pc \in {"rotate", "gzip", "swap", "unlink"}) THEN 1 ELSE 0

\* Every finalized file took an append of its own, so names do not run out.
NamesLeft ==
    /\ Open + Unwritten <= appends
    /\ seq <= appends - (Open + Unwritten)
    /\ \A n \in DOMAIN plain \union DOMAIN gz : n \in 1..(appends - (Open + Unwritten))
    /\ pc \in {"sweep", "swept"} => then # "append"

ArchiveInv ==
    /\ ArchiveTypeOK
    /\ AckedIsDurable
    /\ CompressedIsWhole
    /\ CompressingExists
    /\ NeverGlued
    /\ WrittenNotSynced
    /\ NamesLeft

-----------------------------------------------------------------------------
(* Files.                                                                  *)

\* A file that keeps the durable lines of another has what is durable there.
LEMMA PrefixIsDurable ==
  ASSUME NEW file, NEW g, IsFile(file), IsFile(g), file.synced <= g.synced,
         \A i \in 1..file.synced : g.lines[i] = file.lines[i]
  PROVE  \A r : Durable(file, r) => Durable(g, r)
BY DEF Durable, IsFile

LEMMA EmptyIsFile == IsFile(EmptyFile) /\ IsEmpty(EmptyFile) /\ ~EmptyFile.torn
<1>1. EmptyFile.lines = <<>> /\ EmptyFile.synced = 0 /\ ~EmptyFile.torn
  BY DEF EmptyFile
<1>2. EmptyFile = [lines |-> EmptyFile.lines, torn |-> EmptyFile.torn, synced |-> EmptyFile.synced]
  BY DEF EmptyFile
<1> QED BY <1>1, <1>2 DEF IsFile, IsEmpty

\* What EXCEPT makes of a file.
LEMMA FileUpdates ==
  ASSUME NEW file, IsFile(file), NEW t, NEW m, NEW l
  PROVE  /\ [file EXCEPT !.torn = t] = [lines |-> file.lines, torn |-> t, synced |-> file.synced]
         /\ [file EXCEPT !.synced = m] = [lines |-> file.lines, torn |-> file.torn, synced |-> m]
         /\ [file EXCEPT !.torn = t, !.synced = m] = [lines |-> file.lines, torn |-> t, synced |-> m]
         /\ [file EXCEPT !.lines = l, !.torn = t] = [lines |-> l, torn |-> t, synced |-> file.synced]
<1>1. PICK x, y, z : file = [lines |-> x, torn |-> y, synced |-> z]
  BY DEF IsFile
<1>2. file.lines = x /\ file.torn = y /\ file.synced = z
  BY <1>1
<1>3. [file EXCEPT !.torn = t] = [lines |-> file.lines, torn |-> t, synced |-> file.synced]
  BY <1>1, <1>2
<1>4. [file EXCEPT !.synced = m] = [lines |-> file.lines, torn |-> file.torn, synced |-> m]
  BY <1>1, <1>2
<1>5. [file EXCEPT !.torn = t, !.synced = m] = [lines |-> file.lines, torn |-> t, synced |-> m]
  <2>1. [[lines |-> file.lines, torn |-> t, synced |-> file.synced] EXCEPT !.synced = m]
          = [lines |-> file.lines, torn |-> t, synced |-> m]
    OBVIOUS
  <2> QED BY <1>3, <2>1, Zenon
<1>6. [file EXCEPT !.lines = l, !.torn = t] = [lines |-> l, torn |-> t, synced |-> file.synced]
  <2>1. [file EXCEPT !.lines = l] = [lines |-> l, torn |-> file.torn, synced |-> file.synced]
    BY <1>1, <1>2
  <2>2. [[lines |-> l, torn |-> file.torn, synced |-> file.synced] EXCEPT !.torn = t]
          = [lines |-> l, torn |-> t, synced |-> file.synced]
    OBVIOUS
  <2> QED BY <2>1, <2>2, Zenon
<1> QED BY <1>3, <1>4, <1>5, <1>6

\* The line of a record, after whole lines.
LEMMA LineOfRecord ==
  ASSUME NEW file, IsFile(file), ~file.torn, NEW r \in Records
  PROVE  /\ IsFile(Line(file, r)) /\ ~Line(file, r).torn /\ ~IsEmpty(Line(file, r))
         /\ Line(file, r).synced = file.synced
         /\ Line(file, r).lines # <<>> /\ Line(file, r).lines[Len(Line(file, r).lines)] = r
         /\ \A i \in 1..file.synced : Line(file, r).lines[i] = file.lines[i]
<1> DEFINE g == Line(file, r)
<1>1. g = [file EXCEPT !.lines = Append(file.lines, r), !.torn = FALSE]
  BY DEF Line
<1>2. g = [lines |-> Append(file.lines, r), torn |-> FALSE, synced |-> file.synced]
  BY <1>1, FileUpdates
<1> HIDE DEF g
<1>3. g.lines = Append(file.lines, r) /\ ~g.torn /\ g.synced = file.synced
  BY <1>2
<1>4. g = [lines |-> g.lines, torn |-> g.torn, synced |-> g.synced]
  BY <1>2
<1>5. /\ g.lines \in Seq(Records \union {Bad}) /\ g.lines # <<>> /\ g.lines[Len(g.lines)] = r
      /\ \A i \in 1..file.synced : g.lines[i] = file.lines[i]
      /\ g.synced \in 0..Len(g.lines)
  BY <1>3 DEF IsFile
<1>6. IsFile(g) /\ ~IsEmpty(g)
  BY <1>3, <1>4, <1>5 DEF IsFile, IsEmpty
<1> QED BY <1>3, <1>5, <1>6 DEF g

\* cutPartialLine loses no whole line.
LEMMA CutFile ==
  ASSUME NEW file, IsFile(file)
  PROVE  /\ IsFile(Cut(file)) /\ ~Cut(file).torn /\ Cut(file).lines = file.lines
         /\ file.synced <= Cut(file).synced
         /\ IsEmpty(file) => IsEmpty(Cut(file))
<1>1. CASE file.torn
  <2>1. Cut(file) = [lines |-> file.lines, torn |-> FALSE, synced |-> Len(file.lines)]
    BY <1>1, FileUpdates DEF Cut
  <2>2. Cut(file).lines = file.lines /\ ~Cut(file).torn /\ Cut(file).synced = Len(file.lines)
    BY <2>1
  <2>3. Cut(file) = [lines |-> Cut(file).lines, torn |-> Cut(file).torn, synced |-> Cut(file).synced]
    BY <2>1
  <2> QED BY <1>1, <2>2, <2>3 DEF IsFile, IsEmpty
<1>2. CASE ~file.torn
  BY <1>2 DEF Cut, IsFile
<1> QED BY <1>1, <1>2

\* Sync and the compressed file: every line is durable.
LEMMA AllSynced ==
  ASSUME NEW file, IsFile(file)
  PROVE  LET g == [file EXCEPT !.synced = Len(file.lines)]
         IN  /\ IsFile(g) /\ g.lines = file.lines /\ g.synced = Len(file.lines) /\ (g.torn <=> file.torn)
             /\ IsEmpty(g) <=> IsEmpty(file)
<1> DEFINE g == [file EXCEPT !.synced = Len(file.lines)]
<1>1. g = [lines |-> file.lines, torn |-> file.torn, synced |-> Len(file.lines)]
  BY FileUpdates
<1> HIDE DEF g
<1>2. g.lines = file.lines /\ (g.torn = file.torn) /\ g.synced = Len(file.lines)
  BY <1>1
<1>3. g = [lines |-> g.lines, torn |-> g.torn, synced |-> g.synced]
  BY <1>1
<1>4. IsFile(g) /\ (IsEmpty(g) <=> IsEmpty(file))
  BY <1>2, <1>3 DEF IsFile, IsEmpty
<1> QED BY <1>2, <1>4 DEF g

\* A write that fails leaves part of a line behind.
LEMMA TornFile ==
  ASSUME NEW file, IsFile(file)
  PROVE  LET g == [file EXCEPT !.torn = TRUE]
         IN  IsFile(g) /\ g.lines = file.lines /\ g.synced = file.synced
<1> DEFINE g == [file EXCEPT !.torn = TRUE]
<1>1. g = [lines |-> file.lines, torn |-> TRUE, synced |-> file.synced]
  BY FileUpdates
<1> HIDE DEF g
<1>2. g.lines = file.lines /\ g.synced = file.synced
  BY <1>1
<1>3. g = [lines |-> g.lines, torn |-> g.torn, synced |-> g.synced]
  BY <1>1
<1>4. IsFile(g)
  BY <1>2, <1>3 DEF IsFile
<1> QED BY <1>2, <1>4 DEF g

\* A power loss leaves what an fsync has covered.
LEMMA LossKeepsDurable ==
  ASSUME NEW file, IsFile(file), NEW g \in AfterLoss(file)
  PROVE  /\ IsFile(g) /\ g.synced = file.synced
         /\ \A i \in 1..file.synced : g.lines[i] = file.lines[i]
         /\ IsEmpty(file) => IsEmpty(g)
<1>1. g \in Survives(file) /\ (g.torn => file.torn \/ Len(g.lines) < Len(file.lines))
  BY DEF AfterLoss
<1>2. PICK m \in file.synced..Len(file.lines), t \in BOOLEAN :
         g = [lines |-> SubSeq(file.lines, 1, m), torn |-> t, synced |-> file.synced]
  BY <1>1 DEF Survives
<1>3. /\ m \in Int /\ 1 \in Int /\ file.synced \in Nat /\ file.synced <= m /\ m <= Len(file.lines)
      /\ Len(file.lines) \in Nat
      /\ \A i \in 1..m : file.lines[i] \in Records \union {Bad}
  BY DEF IsFile
<1>4. /\ SubSeq(file.lines, 1, m) \in Seq(Records \union {Bad})
      /\ Len(SubSeq(file.lines, 1, m)) = m
      /\ \A i \in 1..m : SubSeq(file.lines, 1, m)[i] = file.lines[i]
  BY <1>3, SubSeqProperties
<1>5. g.lines = SubSeq(file.lines, 1, m) /\ g.synced = file.synced
  BY <1>2
<1>6. g = [lines |-> g.lines, torn |-> g.torn, synced |-> g.synced]
  BY <1>2
<1>7. IsFile(g) /\ g.synced = file.synced /\ \A i \in 1..file.synced : g.lines[i] = file.lines[i]
  BY <1>3, <1>4, <1>5, <1>6 DEF IsFile
<1>8. ASSUME IsEmpty(file) PROVE IsEmpty(g)
  <2>1. Len(file.lines) = 0 /\ ~file.torn
    BY <1>8 DEF IsEmpty
  <2>2. Len(g.lines) = 0 /\ g.lines \in Seq(Records \union {Bad})
    BY <1>3, <1>4, <1>5, <2>1
  <2>3. ~g.torn
    BY <1>1, <2>1, <2>2
  <2> QED BY <2>2, <2>3 DEF IsEmpty
<1> QED BY <1>7, <1>8
-----------------------------------------------------------------------------
(* Directories and names.                                                  *)

LEMMA DropFile ==
  ASSUME NEW files, NEW n
  PROVE  /\ DOMAIN Drop(files, n) = DOMAIN files \ {n}
         /\ \A m \in DOMAIN files : m # n => Drop(files, n)[m] = files[m]
BY DEF Drop, Restrict

LEMMA LeastNatural ==
  ASSUME NEW S, S \subseteq Nat, S # {}
  PROVE  \E n \in S : \A m \in S : n <= m
<1> DEFINE R == {ss \in Nat \X Nat : ss[1] < ss[2]}
<1>1. IsWellFoundedOn(R, Nat)
  BY NatLessThanWellFounded DEF OpToRel
<1>2. PICK n \in S : \A m \in S : <<m, n>> \notin R
  <2> HIDE DEF R
  <2> QED BY <1>1, WFMin
<1>3. ASSUME NEW m \in S PROVE n <= m
  <2>1. m \in Nat /\ n \in Nat /\ <<m, n>> \notin R
    BY <1>2
  <2>2. ~(m < n)
    BY <2>1
  <2> QED BY <2>1, <2>2
<1> QED BY <1>3

\* finalize finds a name that is free, beyond seq and paid for by an append.
LEMMA NextNameIsFree ==
  ASSUME ArchiveInv, ~IsEmpty(part)
  PROVE  /\ NextName \in 1..(appends - Unwritten)
         /\ Unused(NextName)
<1> DEFINE bound == appends - (1 + Unwritten)
           S == {n \in Names : n > seq /\ Unused(n)}
<1>1. Open = 1 /\ Unwritten \in {0, 1}
  BY DEF Open, Unwritten
<1>2. /\ bound \in Nat /\ bound < MaxAppends /\ seq <= bound /\ seq \in Nat
      /\ \A n \in DOMAIN plain \union DOMAIN gz : n \in 1..bound
  BY <1>1, ArchiveAssumption DEF ArchiveInv, NamesLeft, ArchiveTypeOK
<1>3. bound + 1 \in S
  BY <1>2, ArchiveAssumption DEF Names, Unused
<1>4. S \subseteq Nat
  BY DEF Names
<1> HIDE DEF bound
<1>5. PICK n \in S : \A m \in S : n <= m
  <2> HIDE DEF S
  <2> QED BY <1>3, <1>4, LeastNatural
<1>6. /\ NextName \in Names /\ NextName > seq /\ Unused(NextName)
      /\ \A m \in Names : m > seq /\ Unused(m) => NextName <= m
  BY <1>5 DEF NextName
<1>7. NextName <= bound + 1 /\ NextName >= 1
  BY <1>3, <1>6 DEF Names
<1>8. bound + 1 = appends - Unwritten
  BY <1>1, <1>2 DEF bound, ArchiveInv, ArchiveTypeOK
<1> QED BY <1>1, <1>2, <1>6, <1>7, <1>8, ArchiveAssumption DEF Names, ArchiveInv, ArchiveTypeOK
-----------------------------------------------------------------------------
(* Steps.                                                                  *)

LEMMA NamesStayLeft ==
  ASSUME ArchiveInv, appends' \in 0..MaxAppends, seq' \in Nat, seq' <= seq,
         appends + (Open' + Unwritten') <= appends' + (Open + Unwritten),
         DOMAIN plain' \union DOMAIN gz' \subseteq DOMAIN plain \union DOMAIN gz,
         pc' \in {"sweep", "swept"} => then' # "append"
  PROVE  NamesLeft'
<1> DEFINE spent == Open + Unwritten
           spentNow == Open' + Unwritten'
<1>1. spent \in Nat /\ spentNow \in Nat /\ appends + spentNow <= appends' + spent
  BY DEF Open, Unwritten
<1>2. /\ appends \in Nat /\ seq \in Nat /\ appends' \in Nat
      /\ spent <= appends /\ seq <= appends - spent
      /\ \A n \in DOMAIN plain \union DOMAIN gz : n \in 1..(appends - spent)
  BY ArchiveAssumption DEF ArchiveInv, ArchiveTypeOK, NamesLeft
<1> HIDE DEF spent, spentNow
<1>3. /\ appends - spent <= appends' - spentNow /\ spentNow <= appends'
      /\ appends - spent \in Nat /\ appends' - spentNow \in Nat
  <2>1. \A a, b, c, d \in Nat : a + d <= b + c /\ c <= a =>
            a - c <= b - d /\ d <= b /\ a - c \in Nat /\ b - d \in Nat
    OBVIOUS
  <2> QED BY <1>1, <1>2, <2>1
<1>4. seq' <= appends' - spentNow
  BY <1>2, <1>3
<1>5. \A n \in DOMAIN plain' \union DOMAIN gz' : n \in 1..(appends' - spentNow)
  BY <1>2, <1>3
<1> QED BY <1>3, <1>4, <1>5 DEF NamesLeft, spentNow

\* A step that uses up no append: at most the one that was to be written now is.
LEMMA NothingSpent ==
  ASSUME ArchiveInv, appends' = appends, seq' \in Nat, seq' <= seq,
         (Open' <= Open /\ Unwritten' <= Unwritten) \/ (Unwritten' = 0 /\ (Open = 1 \/ Unwritten = 1)),
         DOMAIN plain' \union DOMAIN gz' \subseteq DOMAIN plain \union DOMAIN gz,
         pc' \in {"sweep", "swept"} => then' # "append"
  PROVE  NamesLeft'
<1>1. Open \in {0, 1} /\ Unwritten \in {0, 1} /\ Open' \in {0, 1} /\ Unwritten' \in {0, 1}
  BY DEF Open, Unwritten
<1>2. appends \in Nat /\ appends' \in 0..MaxAppends
  BY ArchiveAssumption DEF ArchiveInv, ArchiveTypeOK
<1>3. \A a \in Nat, o, u, p, v \in {0, 1} :
         (o <= p /\ u <= v) \/ (u = 0 /\ (p = 1 \/ v = 1)) => a + (o + u) <= a + (p + v)
  OBVIOUS
<1>4. appends + (Open' + Unwritten') <= appends + (Open + Unwritten)
  <2> DEFINE o == Open'
             u == Unwritten'
             p == Open
             v == Unwritten
  <2>1. /\ appends \in Nat /\ o \in {0, 1} /\ u \in {0, 1} /\ p \in {0, 1} /\ v \in {0, 1}
        /\ (o <= p /\ u <= v) \/ (u = 0 /\ (p = 1 \/ v = 1))
    BY <1>1, <1>2
  <2> HIDE DEF o, u, p, v
  <2>2. appends + (o + u) <= appends + (p + v)
    BY <1>3, <2>1
  <2> QED BY <2>2 DEF o, u, p, v
<1>5. appends + (Open' + Unwritten') <= appends' + (Open + Unwritten)
  BY <1>4, Zenon
<1> QED BY <1>2, <1>5, NamesStayLeft

\* The same where seq stays.
LEMMA NothingNamed ==
  ASSUME ArchiveInv, UNCHANGED <<appends, seq>>,
         (Open' <= Open /\ Unwritten' <= Unwritten) \/ (Unwritten' = 0 /\ (Open = 1 \/ Unwritten = 1)),
         DOMAIN plain' \union DOMAIN gz' \subseteq DOMAIN plain \union DOMAIN gz,
         pc' \in {"sweep", "swept"} => then' # "append"
  PROVE  NamesLeft'
<1>1. seq' \in Nat /\ seq' <= seq
  BY DEF ArchiveInv, ArchiveTypeOK
<1> QED BY <1>1, NothingSpent

\* A step that leaves the files alone.
LEMMA FilesUntouched ==
  ASSUME ArchiveInv, UNCHANGED <<part, plain, gz, acked>>, cur' \in Records,
         appends' \in 0..MaxAppends, seq' \in Nat
  PROVE  ArchiveTypeOK' /\ AckedIsDurable' /\ CompressedIsWhole' /\ Open' = Open
<1>1. ArchiveTypeOK'
  BY DEF ArchiveInv, ArchiveTypeOK
<1>2. AckedIsDurable'
  BY DEF ArchiveInv, AckedIsDurable, OnDisk
<1>3. CompressedIsWhole'
  BY DEF ArchiveInv, CompressedIsWhole
<1> QED BY <1>1, <1>2, <1>3 DEF Open

\* A step that changes the current file only, and keeps what is durable.
LEMMA PartUpdated ==
  ASSUME ArchiveInv, UNCHANGED <<plain, gz, cur, appends, seq>>, IsFile(part'),
         acked \subseteq acked', acked' \subseteq Records,
         \A r : Durable(part, r) => Durable(part', r),
         \A r \in acked' \ acked : Durable(part', r)
  PROVE  ArchiveTypeOK' /\ AckedIsDurable' /\ CompressedIsWhole'
<1>1. ArchiveTypeOK'
  BY DEF ArchiveInv, ArchiveTypeOK
<1>2. AckedIsDurable'
  BY DEF ArchiveInv, AckedIsDurable, OnDisk
<1>3. CompressedIsWhole'
  BY DEF ArchiveInv, CompressedIsWhole
<1> QED BY <1>1, <1>2, <1>3

LEMMA Continues ==
  ASSUME Continue, UNCHANGED then, pc \in {"rotate", "gzip", "swap", "unlink"}
  PROVE  /\ pc' \in {"write", "ready", "closed", "sweep", "swept"}
         /\ pc' = "write" => f'
         /\ pc' \in {"sweep", "swept"} => then' # "append"
         /\ Unwritten' <= Unwritten
<1>1. /\ pc' \in {"write", "ready", "closed", "sweep", "swept"}
      /\ pc' = "write" => f' /\ then = "append"
      /\ pc' \in {"sweep", "swept"} => then # "append"
  BY DEF Continue
<1>2. pc' = "write" => Unwritten = 1
  BY <1>1 DEF Unwritten
<1>3. pc' # "write" => Unwritten' = 0
  BY <1>1 DEF Unwritten
<1>4. Unwritten \in {0, 1} /\ Unwritten' \in {0, 1}
  BY DEF Unwritten
<1> QED BY <1>1, <1>2, <1>3, <1>4

LEMMA AppendBeginsKeeps ==
  ASSUME ArchiveInv, RotateEvery, NEW r \in Records, AppendBegins(r)
  PROVE  ArchiveInv'
<1> USE DEF AppendBegins, disk
<1>1. appends \in Nat /\ seq \in Nat /\ appends' \in 0..MaxAppends /\ seq' \in Nat
  BY ArchiveAssumption DEF ArchiveInv, ArchiveTypeOK
<1>2. ArchiveTypeOK' /\ AckedIsDurable' /\ CompressedIsWhole' /\ Open' = Open
  BY <1>1, FilesUntouched
<1>3. pc' \in {"rotate", "write"}
  OBVIOUS
<1>4. ASSUME part.torn PROVE pc' = "rotate"
  <2>1. ~f /\ ~IsEmpty(part)
    BY <1>4 DEF ArchiveInv, NeverGlued, IsEmpty
  <2>2. OpenedAged
    BY <2>1 DEF OpenedAged
  <2>3. ShouldRotate = {TRUE}
    BY <2>1, <2>2 DEF ShouldRotate
  <2> QED BY <2>3
<1>5. NeverGlued'
  BY <1>3, <1>4 DEF NeverGlued
<1>6. WrittenNotSynced' /\ CompressingExists'
  BY <1>3 DEF WrittenNotSynced, CompressingExists, ArchiveInv
<1>7. Unwritten = 0 /\ Unwritten' = 1 /\ Open \in {0, 1}
  BY <1>3 DEF Unwritten, Open
<1>8. NamesLeft'
  BY <1>1, <1>2, <1>3, <1>7, NamesStayLeft
<1> QED BY <1>2, <1>5, <1>6, <1>8 DEF ArchiveInv

LEMMA WriteKeeps ==
  ASSUME ArchiveInv, Write
  PROVE  ArchiveInv'
<1> USE DEF Write
<1>1. IsFile(part) /\ ~part.torn /\ f /\ cur \in Records /\ acked \subseteq Records
  BY DEF ArchiveInv, ArchiveTypeOK, NeverGlued
<1>2. /\ IsFile(part') /\ ~part'.torn /\ ~IsEmpty(part') /\ part'.synced = part.synced
      /\ part'.lines # <<>> /\ part'.lines[Len(part'.lines)] = cur
      /\ \A i \in 1..part.synced : part'.lines[i] = part.lines[i]
  BY <1>1, LineOfRecord
<1>3. part.synced <= part'.synced
  BY <1>1, <1>2 DEF IsFile
<1>4. \A r : Durable(part, r) => Durable(part', r)
  BY <1>1, <1>2, <1>3, PrefixIsDurable
<1>5. ArchiveTypeOK' /\ AckedIsDurable' /\ CompressedIsWhole'
  BY <1>1, <1>2, <1>4, PartUpdated
<1>6. NeverGlued' /\ WrittenNotSynced' /\ CompressingExists'
  BY <1>1, <1>2 DEF NeverGlued, WrittenNotSynced, CompressingExists, ArchiveInv
<1>7. Unwritten = 1 /\ Unwritten' = 0
  BY DEF Unwritten
<1>8. NamesLeft'
  BY <1>7, NothingNamed
<1> QED BY <1>5, <1>6, <1>8 DEF ArchiveInv

LEMMA SyncKeeps ==
  ASSUME ArchiveInv, Sync
  PROVE  ArchiveInv'
<1> USE DEF Sync
<1>1. /\ IsFile(part) /\ cur \in Records /\ acked \subseteq Records
      /\ part.lines # <<>> /\ part.lines[Len(part.lines)] = cur
      /\ ~part.torn
  BY DEF ArchiveInv, ArchiveTypeOK, WrittenNotSynced, NeverGlued
<1>2. /\ IsFile(part') /\ part'.lines = part.lines /\ part'.synced = Len(part.lines)
      /\ (part'.torn <=> part.torn) /\ (IsEmpty(part') <=> IsEmpty(part))
  BY <1>1, AllSynced
<1>3. part.synced <= part'.synced /\ \A i \in 1..part.synced : part'.lines[i] = part.lines[i]
  BY <1>1, <1>2 DEF IsFile
<1>4. \A r : Durable(part, r) => Durable(part', r)
  BY <1>1, <1>2, <1>3, PrefixIsDurable
<1>5. Durable(part', cur)
  <2>1. Len(part.lines) \in 1..Len(part.lines)
    BY <1>1 DEF IsFile
  <2> QED BY <1>1, <1>2, <2>1 DEF Durable
<1>6. ArchiveTypeOK' /\ AckedIsDurable' /\ CompressedIsWhole'
  BY <1>1, <1>2, <1>4, <1>5, PartUpdated
<1>7. NeverGlued' /\ WrittenNotSynced' /\ CompressingExists'
  BY <1>1, <1>2 DEF NeverGlued, WrittenNotSynced, CompressingExists, ArchiveInv
<1>8. Unwritten' <= Unwritten /\ Open' <= Open
  BY <1>2 DEF Unwritten, Open
<1>9. NamesLeft'
  BY <1>8, NothingNamed
<1> QED BY <1>6, <1>7, <1>9 DEF ArchiveInv

\* abandon, for either failure: what stays has what was durable.
LEMMA AbandonKeeps ==
  ASSUME ArchiveInv, NEW whole, NEW landed, Abandon(whole, landed), pc \in {"write", "sync"},
         pc = "sync" => ~IsEmpty(part),
         \A g \in {whole, landed} : /\ IsFile(g) /\ part.synced <= g.synced
                                   /\ \A i \in 1..part.synced : g.lines[i] = part.lines[i]
  PROVE  ArchiveInv'
<1> USE DEF Abandon
<1>1. IsFile(part) /\ acked \subseteq Records
  BY DEF ArchiveInv, ArchiveTypeOK
<1>2. \A r : Durable(part, r) => Durable(part', r)
  BY <1>1, PrefixIsDurable
<1>3. ArchiveTypeOK' /\ AckedIsDurable' /\ CompressedIsWhole'
  BY <1>1, <1>2, PartUpdated
<1>4. NeverGlued' /\ WrittenNotSynced' /\ CompressingExists'
  BY DEF NeverGlued, WrittenNotSynced, CompressingExists, ArchiveInv
<1>5. Unwritten' = 0 /\ (Open = 1 \/ Unwritten = 1)
  BY DEF Unwritten, Open
<1>6. NamesLeft'
  BY <1>5, NothingNamed
<1> QED BY <1>3, <1>4, <1>6 DEF ArchiveInv

LEMMA WriteFailsKeeps ==
  ASSUME ArchiveInv, WriteFails
  PROVE  ArchiveInv'
<1> DEFINE g == [part EXCEPT !.torn = TRUE]
<1>1. IsFile(part) /\ pc = "write" /\ Abandon(part, g)
  BY DEF ArchiveInv, ArchiveTypeOK, WriteFails
<1>2. IsFile(g) /\ g.lines = part.lines /\ g.synced = part.synced
  BY <1>1, TornFile
<1> HIDE DEF g
<1>3. part.synced <= part.synced
  BY <1>1 DEF IsFile
<1> QED BY <1>1, <1>2, <1>3, AbandonKeeps

LEMMA SyncFailsKeeps ==
  ASSUME ArchiveInv, SyncFails
  PROVE  ArchiveInv'
<1>1. pc = "sync" /\ Abandon(before, part) /\ IsFile(part)
  BY DEF ArchiveInv, ArchiveTypeOK, SyncFails
<1>2. /\ part.lines # <<>> /\ IsFile(before) /\ before.synced = part.synced
      /\ \A i \in 1..part.synced : before.lines[i] = part.lines[i]
  BY <1>1 DEF ArchiveInv, WrittenNotSynced
<1>3. part.synced <= part.synced /\ ~IsEmpty(part)
  BY <1>1, <1>2 DEF IsFile, IsEmpty
<1> QED BY <1>1, <1>2, <1>3, AbandonKeeps

\* rotate removes a file without a whole line ...
LEMMA RotateEmptyKeeps ==
  ASSUME ArchiveInv, Rotate, IsEmpty(Cut(part))
  PROVE  ArchiveInv'
<1> USE DEF Rotate
<1>1. IsFile(part) /\ acked \subseteq Records /\ part' = EmptyFile /\ Continue
  BY DEF ArchiveInv, ArchiveTypeOK
<1>2. part.lines = <<>> /\ part.synced = 0
  BY <1>1, CutFile DEF IsEmpty, IsFile
<1>3. IsFile(part') /\ IsEmpty(part') /\ ~part'.torn
  BY <1>1, EmptyIsFile
<1>4. \A r : ~Durable(part, r)
  BY <1>2 DEF Durable
<1>5. ArchiveTypeOK' /\ AckedIsDurable' /\ CompressedIsWhole'
  BY <1>1, <1>3, <1>4, PartUpdated
<1>6. /\ pc' \in {"write", "ready", "closed", "sweep", "swept"}
      /\ pc' = "write" => f'
      /\ pc' \in {"sweep", "swept"} => then' # "append"
      /\ Unwritten' <= Unwritten
  BY <1>1, Continues
<1>7. NeverGlued' /\ WrittenNotSynced' /\ CompressingExists'
  BY <1>3, <1>6 DEF NeverGlued, WrittenNotSynced, CompressingExists, ArchiveInv
<1>8. Open' <= Open
  BY <1>3 DEF Open
<1>9. NamesLeft'
  BY <1>6, <1>8, NothingNamed
<1> QED BY <1>5, <1>7, <1>9 DEF ArchiveInv

\* ... and gives any other a name of its own.
LEMMA RotateFinalizesKeeps ==
  ASSUME ArchiveInv, Rotate, ~IsEmpty(Cut(part))
  PROVE  ArchiveInv'
<1> DEFINE file == Cut(part)
           n == NextName
<1> USE DEF Rotate
<1>1. /\ IsFile(part) /\ acked \subseteq Records /\ Finalize(file) /\ cur \in Records
      /\ UNCHANGED <<gz, tmp, then, cur, before, sweeping, appends, acked>> /\ pc = "rotate"
  BY DEF ArchiveInv, ArchiveTypeOK
<1>2. ~IsEmpty(part) /\ IsFile(file) /\ file.lines = part.lines /\ part.synced <= file.synced
  BY <1>1, CutFile
<1>3. n \in 1..(appends - Unwritten) /\ n \notin DOMAIN plain /\ n \notin DOMAIN gz
  BY <1>2, NextNameIsFree DEF Unused
<1>4. /\ plain' = Put(plain, n, file) /\ part' = EmptyFile /\ seq' = n /\ name' = n
      /\ IF Gzip THEN pc' = "gzip" /\ f' = FALSE ELSE Continue
  BY <1>1 DEF Finalize
<1> HIDE DEF file, n, Rotate
<1>5. IsFile(part') /\ IsEmpty(part') /\ ~part'.torn
  BY <1>4, EmptyIsFile
<1>6. /\ DOMAIN plain' = DOMAIN plain \union {n} /\ plain'[n] = file
      /\ \A m \in DOMAIN plain : m # n => plain'[m] = plain[m]
  <2>1. /\ DOMAIN Put(plain, n, file) = DOMAIN plain \union {n} /\ Put(plain, n, file)[n] = file
        /\ \A m \in DOMAIN plain : m # n => Put(plain, n, file)[m] = plain[m]
    BY DEF Put
  <2> QED BY <1>4, <2>1
<1>7. \A r : Durable(part, r) => Durable(plain'[n], r)
  BY <1>1, <1>2, <1>6, PrefixIsDurable
<1>8. \A m \in DOMAIN plain : plain'[m] = plain[m] /\ m \in DOMAIN plain'
  BY <1>3, <1>6
<1>9. /\ pc' \in {"gzip", "write", "ready", "closed", "sweep", "swept"}
      /\ pc' = "write" => f'
      /\ pc' \in {"sweep", "swept"} => then' # "append"
      /\ Unwritten' <= Unwritten
  <2>1. CASE Gzip
    <3>1. pc' = "gzip" /\ then' = then
      BY <1>1, <1>4, <2>1
    <3>2. Unwritten' = Unwritten /\ Unwritten \in {0, 1}
      BY <1>1, <3>1 DEF Unwritten
    <3> QED BY <3>1, <3>2
  <2>2. CASE ~Gzip
    BY <1>1, <1>4, <2>2, Continues
  <2> QED BY <2>1, <2>2
<1>10. AckedIsDurable'
  <2> SUFFICES ASSUME NEW r \in acked PROVE OnDisk(r)'
    BY <1>1 DEF AckedIsDurable
  <2>1. OnDisk(r)
    BY DEF ArchiveInv, AckedIsDurable
  <2> QED BY <1>1, <1>6, <1>7, <1>8, <2>1 DEF OnDisk
<1>11. CompressedIsWhole'
  <2> SUFFICES ASSUME NEW m \in DOMAIN plain' \intersect DOMAIN gz', NEW r \in Records,
                      Durable(plain'[m], r)
               PROVE  Durable(gz'[m], r)
    BY DEF CompressedIsWhole
  <2>1. m \in DOMAIN plain \intersect DOMAIN gz /\ plain'[m] = plain[m] /\ gz' = gz
    BY <1>1, <1>3, <1>6
  <2> QED BY <2>1 DEF ArchiveInv, CompressedIsWhole
<1>12. /\ appends \in Nat /\ Unwritten \in Nat /\ Unwritten' \in Nat /\ Open = 1 /\ Open' = 0
       /\ 1 + Unwritten <= appends
       /\ \A m \in DOMAIN plain \union DOMAIN gz : m \in 1..(appends - (1 + Unwritten))
  BY <1>2, <1>5, ArchiveAssumption DEF ArchiveInv, ArchiveTypeOK, NamesLeft, Open, Unwritten
<1>13. /\ 0 + Unwritten' <= appends
       /\ \A m \in 1..(appends - (1 + Unwritten)) : m \in 1..(appends - (0 + Unwritten'))
       /\ n \in Nat /\ n <= appends - (0 + Unwritten') /\ n \in 1..(appends - (0 + Unwritten'))
  <2>1. \A a, u, v \in Nat : v <= u /\ 1 + u <= a =>
            /\ 0 + v <= a
            /\ \A m \in 1..(a - (1 + u)) : m \in 1..(a - (0 + v))
            /\ \A m \in 1..(a - u) : m \in Nat /\ m <= a - (0 + v) /\ m \in 1..(a - (0 + v))
    OBVIOUS
  <2>2. /\ 0 + Unwritten' <= appends
        /\ \A m \in 1..(appends - (1 + Unwritten)) : m \in 1..(appends - (0 + Unwritten'))
        /\ \A m \in 1..(appends - Unwritten) :
              m \in Nat /\ m <= appends - (0 + Unwritten') /\ m \in 1..(appends - (0 + Unwritten'))
    BY <1>9, <1>12, <2>1
  <2> QED BY <1>3, <2>2
<1>14. ArchiveTypeOK'
  <2>1. \A m \in DOMAIN plain' : IsFile(plain'[m])
    BY <1>2, <1>6, <1>8 DEF ArchiveInv, ArchiveTypeOK
  <2> QED BY <1>1, <1>4, <1>5, <1>13, <2>1 DEF ArchiveInv, ArchiveTypeOK
<1>15. NeverGlued' /\ WrittenNotSynced'
  BY <1>5, <1>9 DEF NeverGlued, WrittenNotSynced
<1>16. CompressingExists'
  BY <1>1, <1>3, <1>4, <1>6, <1>9 DEF CompressingExists, ArchiveInv
<1>17. NamesLeft'
  <2>1. \A m \in DOMAIN plain' \union DOMAIN gz' : m \in 1..(appends - (0 + Unwritten'))
    BY <1>1, <1>6, <1>12, <1>13
  <2> QED BY <1>1, <1>4, <1>9, <1>12, <1>13, <2>1 DEF NamesLeft
<1> QED BY <1>10, <1>11, <1>14, <1>15, <1>16, <1>17 DEF ArchiveInv

LEMMA RotateFailsKeeps ==
  ASSUME ArchiveInv, RotateFails
  PROVE  ArchiveInv'
<1> USE DEF RotateFails
<1>1. IsFile(part) /\ acked \subseteq Records
  BY DEF ArchiveInv, ArchiveTypeOK
<1>2. /\ IsFile(part') /\ part'.lines = part.lines /\ part.synced <= part'.synced
      /\ IsEmpty(part) => IsEmpty(part')
  <2>1. part.synced <= part.synced
    BY <1>1 DEF IsFile
  <2> QED BY <1>1, <2>1, CutFile
<1>3. \A r : Durable(part, r) => Durable(part', r)
  BY <1>1, <1>2, PrefixIsDurable
<1>4. ArchiveTypeOK' /\ AckedIsDurable' /\ CompressedIsWhole'
  BY <1>1, <1>2, <1>3, PartUpdated
<1>5. pc' \in {"ready", "closed", "down"} /\ ~f'
  OBVIOUS
<1>6. NeverGlued' /\ WrittenNotSynced' /\ CompressingExists'
  BY <1>5 DEF NeverGlued, WrittenNotSynced, CompressingExists, ArchiveInv
<1>7. Unwritten' <= Unwritten /\ Open' <= Open
  BY <1>2, <1>5 DEF Unwritten, Open
<1>8. NamesLeft'
  BY <1>5, <1>7, NothingNamed
<1> QED BY <1>4, <1>6, <1>8 DEF ArchiveInv

LEMMA WriteGzipKeeps ==
  ASSUME ArchiveInv, WriteGzip
  PROVE  ArchiveInv'
<1> USE DEF WriteGzip
<1>1. ArchiveTypeOK' /\ AckedIsDurable' /\ CompressedIsWhole' /\ Open' = Open
  BY FilesUntouched DEF ArchiveInv, ArchiveTypeOK
<1>2. pc' \in {"unlink", "swap"}
  OBVIOUS
<1>3. NeverGlued' /\ WrittenNotSynced' /\ CompressingExists'
  BY <1>2 DEF NeverGlued, WrittenNotSynced, CompressingExists, ArchiveInv
<1>4. Unwritten' <= Unwritten /\ Open' <= Open
  BY <1>2 DEF Unwritten, Open
<1>5. NamesLeft'
  BY <1>2, <1>4, NothingNamed
<1> QED BY <1>1, <1>3, <1>5 DEF ArchiveInv

\* The compressed file has every line of the plain one.
LEMMA SwapGzipKeeps ==
  ASSUME ArchiveInv, SwapGzip
  PROVE  ArchiveInv'
<1> DEFINE g == [plain[name] EXCEPT !.synced = Len(plain[name].lines)]
<1>1. /\ pc = "swap" /\ pc' = "unlink" /\ gz' = Put(gz, name, g)
      /\ UNCHANGED <<part, plain, then, cur, before, name, sweeping, f, aged, seq, appends, acked>>
  BY DEF SwapGzip
<1>2. /\ name \in DOMAIN plain /\ name \notin DOMAIN gz /\ name \notin sweeping
      /\ IsFile(plain[name]) /\ ~part.torn
  BY <1>1 DEF ArchiveInv, CompressingExists, ArchiveTypeOK, NeverGlued
<1>3. IsFile(g) /\ g.lines = plain[name].lines /\ g.synced = Len(plain[name].lines)
  BY <1>2, AllSynced
<1> HIDE DEF g
<1>4. \A r : Durable(plain[name], r) => Durable(g, r)
  <2>1. plain[name].synced <= g.synced
    BY <1>2, <1>3 DEF IsFile
  <2> QED BY <1>2, <1>3, <2>1, PrefixIsDurable
<1>5. /\ DOMAIN gz' = DOMAIN gz \union {name} /\ gz'[name] = g
      /\ \A m \in DOMAIN gz : gz'[m] = gz[m]
  <2>1. /\ DOMAIN Put(gz, name, g) = DOMAIN gz \union {name} /\ Put(gz, name, g)[name] = g
        /\ \A m \in DOMAIN gz : m # name => Put(gz, name, g)[m] = gz[m]
    BY DEF Put
  <2> QED BY <1>1, <1>2, <2>1
<1>6. ArchiveTypeOK'
  <2>1. \A m \in DOMAIN gz' : IsFile(gz'[m])
    BY <1>3, <1>5 DEF ArchiveInv, ArchiveTypeOK
  <2> QED BY <1>1, <2>1 DEF ArchiveInv, ArchiveTypeOK
<1>7. AckedIsDurable'
  <2> SUFFICES ASSUME NEW r \in acked PROVE OnDisk(r)'
    BY <1>1 DEF AckedIsDurable
  <2>1. OnDisk(r)
    BY DEF ArchiveInv, AckedIsDurable
  <2> QED BY <1>1, <1>5, <2>1 DEF OnDisk
<1>8. CompressedIsWhole'
  <2> SUFFICES ASSUME NEW m \in DOMAIN plain' \intersect DOMAIN gz', NEW r \in Records,
                      Durable(plain'[m], r)
               PROVE  Durable(gz'[m], r)
    BY DEF CompressedIsWhole
  <2>1. CASE m = name
    BY <1>1, <1>4, <1>5, <2>1
  <2>2. CASE m # name
    <3>1. m \in DOMAIN plain \intersect DOMAIN gz /\ gz'[m] = gz[m] /\ plain' = plain
      BY <1>1, <1>5, <2>2
    <3> QED BY <3>1 DEF ArchiveInv, CompressedIsWhole
  <2> QED BY <2>1, <2>2
<1>9. NeverGlued' /\ WrittenNotSynced' /\ CompressingExists'
  BY <1>1, <1>2, <1>5 DEF NeverGlued, WrittenNotSynced, CompressingExists, ArchiveInv
<1>10. Unwritten' <= Unwritten /\ Open' <= Open
  BY <1>1 DEF Unwritten, Open
<1>11. NamesLeft'
  BY <1>1, <1>2, <1>5, <1>10, NothingNamed
<1> QED BY <1>6, <1>7, <1>8, <1>9, <1>11 DEF ArchiveInv

\* The plain file goes only where the compressed one has its durable lines.
LEMMA UnlinkPlainKeeps ==
  ASSUME ArchiveInv, UnlinkPlain
  PROVE  ArchiveInv'
<1>1. /\ pc = "unlink" /\ plain' = Drop(plain, name) /\ Continue
      /\ UNCHANGED <<part, gz, tmp, then, cur, before, name, sweeping, aged, seq, appends, acked>>
  BY DEF UnlinkPlain
<1>2. name \in DOMAIN plain /\ name \in DOMAIN gz /\ name \notin sweeping /\ ~part.torn
  BY <1>1 DEF ArchiveInv, CompressingExists, NeverGlued
<1>3. /\ DOMAIN plain' = DOMAIN plain \ {name}
      /\ \A m \in DOMAIN plain : m # name => plain'[m] = plain[m]
  BY <1>1, DropFile
<1>4. ArchiveTypeOK'
  <2>1. \A m \in DOMAIN plain' : IsFile(plain'[m])
    BY <1>3 DEF ArchiveInv, ArchiveTypeOK
  <2> QED BY <1>1, <2>1 DEF ArchiveInv, ArchiveTypeOK
<1>5. AckedIsDurable'
  <2> SUFFICES ASSUME NEW r \in acked PROVE OnDisk(r)'
    BY <1>1 DEF AckedIsDurable
  <2>1. OnDisk(r) /\ r \in Records
    BY DEF ArchiveInv, AckedIsDurable, ArchiveTypeOK
  <2>2. Durable(plain[name], r) => Durable(gz[name], r)
    BY <1>2, <2>1 DEF ArchiveInv, CompressedIsWhole
  <2> QED BY <1>1, <1>2, <1>3, <2>1, <2>2 DEF OnDisk
<1>6. CompressedIsWhole'
  BY <1>1, <1>3 DEF ArchiveInv, CompressedIsWhole
<1>7. /\ pc' \in {"write", "ready", "closed", "sweep", "swept"}
      /\ pc' = "write" => f'
      /\ pc' \in {"sweep", "swept"} => then' # "append"
      /\ Unwritten' <= Unwritten
  BY <1>1, Continues
<1>8. NeverGlued' /\ WrittenNotSynced' /\ CompressingExists'
  BY <1>1, <1>2, <1>3, <1>7 DEF NeverGlued, WrittenNotSynced, CompressingExists, ArchiveInv
<1>9. Open' <= Open
  BY <1>1 DEF Open
<1>10. NamesLeft'
  BY <1>1, <1>3, <1>7, <1>9, NothingNamed
<1> QED BY <1>4, <1>5, <1>6, <1>8, <1>10 DEF ArchiveInv

LEMMA CompressFailsKeeps ==
  ASSUME ArchiveInv, CompressFails
  PROVE  ArchiveInv'
<1>1. /\ pc \in {"gzip", "swap", "unlink"} /\ Continue
      /\ UNCHANGED <<part, plain, gz, then, cur, before, name, sweeping, aged, seq, appends, acked>>
  BY DEF CompressFails
<1>2. ArchiveTypeOK' /\ AckedIsDurable' /\ CompressedIsWhole' /\ Open' = Open
  BY <1>1, FilesUntouched DEF ArchiveInv, ArchiveTypeOK
<1>3. /\ pc' \in {"write", "ready", "closed", "sweep", "swept"}
      /\ pc' = "write" => f'
      /\ pc' \in {"sweep", "swept"} => then' # "append"
      /\ Unwritten' <= Unwritten
  BY <1>1, Continues
<1>4. NeverGlued' /\ WrittenNotSynced' /\ CompressingExists'
  BY <1>1, <1>3 DEF NeverGlued, WrittenNotSynced, CompressingExists, ArchiveInv
<1>5. Open' <= Open
  BY <1>1 DEF Open
<1>6. NamesLeft'
  BY <1>1, <1>3, <1>5, NothingNamed
<1> QED BY <1>2, <1>4, <1>6 DEF ArchiveInv

\* Close and the steps of OpenStore leave the files to rotate and compress.
LEMMA QuietKeeps ==
  ASSUME ArchiveInv, CloseBegins \/ OpenStore \/ Sweep \/ SweepNext
  PROVE  ArchiveInv'
<1>1. UNCHANGED <<part, plain, gz, cur, before, f, aged, seq, appends, acked>>
  BY DEF CloseBegins, OpenStore, Sweep, SweepNext, disk
<1>2. ArchiveTypeOK' /\ AckedIsDurable' /\ CompressedIsWhole' /\ Open' = Open
  BY <1>1, FilesUntouched DEF ArchiveInv, ArchiveTypeOK
<1>3. /\ pc' \in {"rotate", "closed", "sweep", "swept", "gzip", "ready"}
      /\ pc \in {"ready", "down", "sweep", "swept"}
      /\ part.torn => pc' \in {"rotate", "closed", "ready"}
      /\ part.torn /\ f => pc' = "rotate"
      /\ pc' \in {"rotate", "sweep", "swept", "gzip"} => then' # "append"
  <2>1. CASE CloseBegins
    BY <2>1 DEF CloseBegins
  <2>2. CASE OpenStore
    BY <2>2 DEF OpenStore, IsEmpty, ArchiveInv, NeverGlued
  <2>3. CASE Sweep
    BY <2>3 DEF Sweep, ArchiveInv, NeverGlued
  <2>4. CASE SweepNext
    BY <2>4 DEF SweepNext, ArchiveInv, NeverGlued, NamesLeft
  <2> QED BY <2>1, <2>2, <2>3, <2>4
<1>4. NeverGlued' /\ WrittenNotSynced'
  BY <1>1, <1>3 DEF NeverGlued, WrittenNotSynced
<1>5. CompressingExists'
  <2>1. sweeping \subseteq DOMAIN plain
    BY DEF ArchiveInv, CompressingExists
  <2>2. CASE CloseBegins \/ OpenStore
    BY <2>1, <2>2 DEF CloseBegins, OpenStore, disk, CompressingExists
  <2>3. CASE Sweep
    BY <2>3 DEF Sweep, CompressingExists
  <2>4. CASE SweepNext
    BY <2>1, <2>4 DEF SweepNext, disk, CompressingExists
  <2> QED BY <2>2, <2>3, <2>4
<1>6. Open' <= Open /\ Unwritten' <= Unwritten
  <2>1. Unwritten' = 0
    BY <1>3 DEF Unwritten
  <2> QED BY <1>1, <2>1 DEF Open, Unwritten
<1>7. NamesLeft'
  BY <1>1, <1>3, <1>6, NothingNamed
<1> QED BY <1>2, <1>4, <1>5, <1>7 DEF ArchiveInv

\* A power loss takes nothing an fsync has covered.
LEMMA CrashKeeps ==
  ASSUME ArchiveInv, Crash
  PROVE  ArchiveInv'
<1>1. /\ part' \in AfterLoss(part) /\ pc' = "down" /\ ~f' /\ seq' = 0 /\ sweeping' = {}
      /\ UNCHANGED <<gz, tmp, then, cur, before, name, appends, acked>>
  BY DEF Crash
<1>2. DOMAIN plain' = DOMAIN plain /\ \A n \in DOMAIN plain : plain'[n] \in AfterLoss(plain[n])
  BY DEF Crash
<1>3. /\ IsFile(part) /\ IsFile(part') /\ (IsEmpty(part) => IsEmpty(part'))
      /\ \A r : Durable(part, r) => Durable(part', r)
  <2>1. IsFile(part)
    BY DEF ArchiveInv, ArchiveTypeOK
  <2>2. /\ IsFile(part') /\ part'.synced = part.synced /\ (IsEmpty(part) => IsEmpty(part'))
        /\ \A i \in 1..part.synced : part'.lines[i] = part.lines[i]
    BY <1>1, <2>1, LossKeepsDurable
  <2>3. part.synced <= part'.synced
    BY <2>1, <2>2 DEF IsFile
  <2> QED BY <2>1, <2>2, <2>3, PrefixIsDurable
<1>4. ASSUME NEW n \in DOMAIN plain
      PROVE  IsFile(plain'[n]) /\ \A r : Durable(plain[n], r) <=> Durable(plain'[n], r)
  <2>1. IsFile(plain[n]) /\ plain'[n] \in AfterLoss(plain[n])
    BY <1>2 DEF ArchiveInv, ArchiveTypeOK
  <2>2. /\ IsFile(plain'[n]) /\ plain'[n].synced = plain[n].synced
        /\ \A i \in 1..plain[n].synced : plain'[n].lines[i] = plain[n].lines[i]
    BY <2>1, LossKeepsDurable
  <2>3. plain[n].synced <= plain'[n].synced /\ plain'[n].synced <= plain[n].synced
    BY <2>1, <2>2 DEF IsFile
  <2>4. \A r : Durable(plain[n], r) => Durable(plain'[n], r)
    BY <2>1, <2>2, <2>3, PrefixIsDurable
  <2>5. \A r : Durable(plain'[n], r) => Durable(plain[n], r)
    BY <2>1, <2>2, <2>3, PrefixIsDurable
  <2> QED BY <2>2, <2>4, <2>5
<1>5. ArchiveTypeOK'
  BY <1>1, <1>2, <1>3, <1>4 DEF ArchiveInv, ArchiveTypeOK
<1>6. AckedIsDurable'
  <2> SUFFICES ASSUME NEW r \in acked PROVE OnDisk(r)'
    BY <1>1 DEF AckedIsDurable
  <2>1. OnDisk(r)
    BY DEF ArchiveInv, AckedIsDurable
  <2> QED BY <1>1, <1>2, <1>3, <1>4, <2>1 DEF OnDisk
<1>7. CompressedIsWhole'
  <2> SUFFICES ASSUME NEW m \in DOMAIN plain' \intersect DOMAIN gz', NEW r \in Records,
                      Durable(plain'[m], r)
               PROVE  Durable(gz'[m], r)
    BY DEF CompressedIsWhole
  <2>1. m \in DOMAIN plain \intersect DOMAIN gz /\ gz' = gz /\ Durable(plain[m], r)
    BY <1>1, <1>2, <1>4
  <2> QED BY <2>1 DEF ArchiveInv, CompressedIsWhole
<1>8. NeverGlued' /\ WrittenNotSynced' /\ CompressingExists'
  BY <1>1 DEF NeverGlued, WrittenNotSynced, CompressingExists
<1>9. Unwritten' <= Unwritten /\ Open' <= Open
  BY <1>1, <1>3 DEF Unwritten, Open
<1>10. NamesLeft'
  <2>1. seq' \in Nat /\ seq' <= seq
    BY <1>1 DEF ArchiveInv, ArchiveTypeOK
  <2> QED BY <1>1, <1>2, <1>9, <2>1, NothingSpent
<1> QED BY <1>5, <1>6, <1>7, <1>8, <1>10 DEF ArchiveInv

-----------------------------------------------------------------------------

LEMMA ArchiveInit == Init => ArchiveInv
<1> SUFFICES ASSUME Init PROVE ArchiveInv
  OBVIOUS
<1> USE DEF Init
<1>1. IsFile(part) /\ IsEmpty(part) /\ ~part.torn /\ DOMAIN plain = {} /\ DOMAIN gz = {}
  BY EmptyIsFile
<1>2. ArchiveTypeOK /\ AckedIsDurable /\ CompressedIsWhole
  BY <1>1, ArchiveAssumption DEF ArchiveTypeOK, AckedIsDurable, CompressedIsWhole
<1>3. CompressingExists /\ NeverGlued /\ WrittenNotSynced
  BY <1>1 DEF CompressingExists, NeverGlued, WrittenNotSynced
<1>4. Open = 0 /\ Unwritten = 0
  BY <1>1 DEF Open, Unwritten
<1>5. NamesLeft
  BY <1>1, <1>4 DEF NamesLeft
<1> QED BY <1>2, <1>3, <1>5 DEF ArchiveInv

LEMMA ArchiveStep == RotateEvery /\ ArchiveInv /\ [Next]_vars => ArchiveInv'
<1> SUFFICES ASSUME RotateEvery, ArchiveInv, [Next]_vars PROVE ArchiveInv'
  OBVIOUS
<1>1. CASE \E r \in Records : AppendBegins(r)
  BY <1>1, AppendBeginsKeeps
<1>2. CASE Write
  BY <1>2, WriteKeeps
<1>3. CASE WriteFails
  BY <1>3, WriteFailsKeeps
<1>4. CASE Sync
  BY <1>4, SyncKeeps
<1>5. CASE SyncFails
  BY <1>5, SyncFailsKeeps
<1>6. CASE Rotate
  BY <1>6, RotateEmptyKeeps, RotateFinalizesKeeps
<1>7. CASE RotateFails
  BY <1>7, RotateFailsKeeps
<1>8. CASE WriteGzip
  BY <1>8, WriteGzipKeeps
<1>9. CASE SwapGzip
  BY <1>9, SwapGzipKeeps
<1>10. CASE UnlinkPlain
  BY <1>10, UnlinkPlainKeeps
<1>11. CASE CompressFails
  BY <1>11, CompressFailsKeeps
<1>12. CASE CloseBegins \/ OpenStore \/ Sweep \/ SweepNext
  BY <1>12, QuietKeeps
<1>13. CASE Crash
  BY <1>13, CrashKeeps
<1>14. CASE UNCHANGED vars
  <2>1. UNCHANGED <<part, plain, gz, pc, then, cur, before, name, sweeping, f, seq, appends, acked>>
    BY <1>14 DEF vars, disk, memory
  <2>2. ArchiveTypeOK' /\ AckedIsDurable' /\ CompressedIsWhole'
    BY <2>1, FilesUntouched DEF ArchiveInv, ArchiveTypeOK
  <2>3. CompressingExists' /\ NeverGlued' /\ WrittenNotSynced'
    BY <2>1 DEF ArchiveInv, CompressingExists, NeverGlued, WrittenNotSynced
  <2>4. NamesLeft'
    BY <2>1 DEF ArchiveInv, NamesLeft, Open, Unwritten
  <2> QED BY <2>2, <2>3, <2>4 DEF ArchiveInv
<1> QED BY <1>1, <1>2, <1>3, <1>4, <1>5, <1>6, <1>7, <1>8, <1>9, <1>10, <1>11, <1>12, <1>13, <1>14
        DEF Next

LEMMA DurableIsReadable == ArchiveInv => AckedIsReadable
<1> SUFFICES ASSUME ArchiveInv, NEW r \in acked
             PROVE  \E file \in {part} \union FilesOf(plain) \union FilesOf(gz) : Holds(file, r)
  BY DEF AckedIsReadable
<1>1. ASSUME NEW file, IsFile(file), Durable(file, r) PROVE Holds(file, r)
  BY <1>1 DEF IsFile, Durable, Holds
<1>2. OnDisk(r)
  BY DEF ArchiveInv, AckedIsDurable
<1> QED BY <1>1, <1>2 DEF OnDisk, FilesOf, ArchiveInv, ArchiveTypeOK

\* "An acked event is on disk": with time rotation, a record whose Append
\* returned nil stays readable through failed writes, syncs, truncations,
\* rotations and compressions, through power losses and restarts, for any
\* records, with or without compression and size rotation, and any number of
\* appends.  Time rotation is what makes Append rotate a file that it finds torn.
THEOREM AckedStaysReadable == RotateEvery => (Spec => []AckedIsReadable)
<1>1. RotateEvery /\ ArchiveInv /\ [Next]_vars => ArchiveInv'
  BY ArchiveStep
<1> SUFFICES ASSUME RotateEvery PROVE Spec => []AckedIsReadable
  OBVIOUS
<1> QED BY ArchiveInit, <1>1, DurableIsReadable, PTL DEF Spec
=============================================================================
