---------------------------- MODULE ArchiveStore ----------------------------
(***************************************************************************)
(* The JSONL store of the archive sink, on a disk that may refuse any      *)
(* operation and a machine that may stop at any step.  The mutex makes     *)
(* Append and Close whole; their steps are separate actions because a      *)
(* crash or an error can fall between any two.                             *)
(*                                                                         *)
(* A file is its lines, whether bytes follow the last newline (torn), and  *)
(* how many lines an fsync has made durable.  A line written after torn    *)
(* bytes is glued to them and unreadable (Bad).  Directory operations are  *)
(* atomic and survive in the order they were made (a journaled file        *)
(* system).  All records share one timestamp, the case in which only the   *)
(* sequence number keeps finalized names apart.                            *)
(***************************************************************************)
EXTENDS Naturals, Sequences, Functions

CONSTANTS Records,        \* envelopes; the bus may deliver one several times
          Gzip,           \* compress is gzip
          RotateSize,     \* size rotation is enabled
          RotateEvery,    \* time rotation is enabled
          MaxAppends      \* bound: calls of Append

ASSUME ArchiveAssumption ==
    /\ {Gzip, RotateSize, RotateEvery} \subseteq BOOLEAN
    /\ MaxAppends \in Nat

VARIABLES part,      \* disk: the current file
          plain,     \* disk: finalized plain files by sequence number
          gz,        \* disk: finalized compressed files, likewise
          tmp,       \* disk: temporary compressed files
          pc,        \* what the holder of the mutex is doing
          then,      \* what follows a rotation: "append", "close", "recover"
          cur,       \* the record being appended
          before,    \* the current file before the write (Store.size)
          name,      \* the finalized file being compressed
          sweeping,  \* recover: plain files still to compress
          f,         \* Store.f is open
          aged,      \* Store.openedAt is zero: rotate soon
          seq,       \* Store.seq
          appends,   \* calls of Append so far
          acked      \* history: records whose Append returned nil

disk == <<part, plain, gz, tmp>>
memory == <<pc, then, cur, before, name, sweeping, f, aged, seq>>
vars == <<disk, memory, appends, acked>>

Bad == "bad"
Names == 1..MaxAppends
EmptyFile == [lines |-> <<>>, torn |-> FALSE, synced |-> 0]
IsEmpty(file) == file.lines = <<>> /\ ~file.torn

Put(files, n, file) == [m \in DOMAIN files \union {n} |-> IF m = n THEN file ELSE files[m]]
Drop(files, n) == Restrict(files, DOMAIN files \ {n})

Init ==
    /\ part = EmptyFile
    /\ plain = <<>> /\ gz = <<>> /\ tmp = <<>>
    /\ pc = "down"
    /\ then = "recover"
    /\ cur \in Records
    /\ before = EmptyFile
    /\ name = 0
    /\ sweeping = {}
    /\ f = FALSE
    /\ aged = FALSE
    /\ seq = 0
    /\ appends = 0
    /\ acked = {}

-----------------------------------------------------------------------------
(* Append.                                                                 *)

\* open: a file that has content is rotated at the next opportunity.
OpenedAged == IF f THEN aged ELSE ~IsEmpty(part)

\* shouldRotate, with the line's size and the clock left open.
ShouldRotate ==
    CASE IsEmpty(part) -> {FALSE}
      [] ~IsEmpty(part) /\ RotateEvery /\ OpenedAged -> {TRUE}
      [] OTHER -> IF RotateEvery \/ RotateSize THEN {TRUE, FALSE} ELSE {FALSE}

\* Append takes the mutex, opens the file if need be and decides on rotation.
AppendBegins(r) ==
    /\ pc = "ready"
    /\ appends < MaxAppends
    /\ appends' = appends + 1
    /\ cur' = r
    /\ f' = TRUE
    /\ aged' = OpenedAged
    /\ \E rotate \in ShouldRotate : pc' = IF rotate THEN "rotate" ELSE "write"
    /\ then' = "append"
    /\ UNCHANGED <<disk, before, name, sweeping, seq, acked>>

Line(file, r) ==
    [file EXCEPT !.lines = Append(@, IF file.torn THEN Bad ELSE r), !.torn = FALSE]

Write ==
    /\ pc = "write"
    /\ before' = part
    /\ part' = Line(part, cur)
    /\ pc' = "sync"
    /\ UNCHANGED <<plain, gz, tmp, then, cur, name, sweeping, f, aged, seq, appends, acked>>

Sync ==
    /\ pc = "sync"
    /\ part' = [part EXCEPT !.synced = Len(part.lines)]
    /\ acked' = acked \union {cur}
    /\ pc' = "ready"
    /\ UNCHANGED <<plain, gz, tmp, then, cur, before, name, sweeping, f, aged, seq, appends>>

\* abandon: cut what landed, or leave it where Truncate fails; drop the file.
Abandon(whole, landed) ==
    /\ part' \in {whole, landed}
    /\ f' = FALSE
    /\ aged' = FALSE
    /\ pc' = "ready"
    /\ UNCHANGED <<plain, gz, tmp, then, cur, before, name, sweeping, seq, appends, acked>>

WriteFails == pc = "write" /\ Abandon(part, [part EXCEPT !.torn = TRUE])

SyncFails == pc = "sync" /\ Abandon(before, part)

-----------------------------------------------------------------------------
(* rotate, finalize, compress.                                             *)

\* cutPartialLine: truncates and fsyncs a file that does not end in a newline.
Cut(file) ==
    IF file.torn THEN [file EXCEPT !.torn = FALSE, !.synced = Len(file.lines)] ELSE file

Unused(n) == n \notin DOMAIN plain /\ n \notin DOMAIN gz

NextName == CHOOSE n \in Names : /\ n > seq /\ Unused(n)
                                 /\ \A m \in Names : m > seq /\ Unused(m) => n <= m

\* After a rotation: the append opens a new file, which may fail, Close
\* returns, OpenStore goes on to sweep.
Continue ==
    \/ then = "append" /\ pc' = "write" /\ f' = TRUE
    \/ then = "append" /\ pc' = "ready" /\ f' = FALSE
    \/ then = "close" /\ pc' = "closed" /\ f' = FALSE
    \/ then = "recover" /\ pc' = "sweep" /\ f' = FALSE
    \/ then = "sweep" /\ pc' = "swept" /\ f' = FALSE

Finalize(file) ==
    /\ plain' = Put(plain, NextName, file)
    /\ part' = EmptyFile
    /\ seq' = NextName
    /\ name' = NextName
    /\ IF Gzip THEN pc' = "gzip" /\ f' = FALSE ELSE Continue

\* rotate: close, cut, and finalize, or remove a file without a whole line.
Rotate ==
    /\ pc = "rotate"
    /\ aged' = FALSE
    /\ LET file == Cut(part) IN
          IF IsEmpty(file) THEN part' = EmptyFile /\ Continue /\ UNCHANGED <<plain, seq, name>>
                           ELSE Finalize(file)
    /\ UNCHANGED <<gz, tmp, then, cur, before, sweeping, appends, acked>>

\* A step of rotate fails: the file stays, cut or not, and is no longer open.
RotateFails ==
    /\ pc = "rotate"
    /\ part' \in {part, Cut(part)}
    /\ pc' = CASE then = "append" -> "ready" [] then = "close" -> "closed" [] OTHER -> "down"
    /\ f' = FALSE
    /\ aged' = FALSE
    /\ UNCHANGED <<plain, gz, tmp, then, cur, before, name, sweeping, seq, appends, acked>>

\* Mutant of WriteGzip: the final name is written without a temporary file.
WriteGzipInPlace ==
    /\ pc = "gzip"
    /\ IF name \in DOMAIN gz THEN pc' = "unlink" /\ UNCHANGED gz
                             ELSE pc' = "swap" /\ gz' = Put(gz, name, EmptyFile)
    /\ UNCHANGED <<part, plain, tmp, then, cur, before, name, sweeping, f, aged, seq, appends, acked>>

\* writeGzip begins, unless the compressed file exists already.
WriteGzip ==
    /\ pc = "gzip"
    /\ IF name \in DOMAIN gz THEN pc' = "unlink" /\ UNCHANGED tmp
                             ELSE pc' = "swap" /\ tmp' = Put(tmp, name, "partial")
    /\ UNCHANGED <<part, plain, gz, then, cur, before, name, sweeping, f, aged, seq, appends, acked>>

\* writeGzip has fsynced the temporary file; it is renamed into place.
SwapGzip ==
    /\ pc = "swap"
    /\ tmp' = Drop(tmp, name)
    /\ gz' = Put(gz, name, [plain[name] EXCEPT !.synced = Len(plain[name].lines)])
    /\ pc' = "unlink"
    /\ UNCHANGED <<part, plain, then, cur, before, name, sweeping, f, aged, seq, appends, acked>>

UnlinkPlain ==
    /\ pc = "unlink"
    /\ plain' = Drop(plain, name)
    /\ Continue
    /\ UNCHANGED <<part, gz, tmp, then, cur, before, name, sweeping, aged, seq, appends, acked>>

\* compress fails: the plain file is kept, the temporary one removed if that
\* is possible.
CompressFails ==
    /\ pc \in {"gzip", "swap", "unlink"}
    /\ tmp' \in {tmp, Drop(tmp, name)}
    /\ Continue
    /\ UNCHANGED <<part, plain, gz, then, cur, before, name, sweeping, aged, seq, appends, acked>>

-----------------------------------------------------------------------------
(* Close, OpenStore, crash.                                                *)

CloseBegins ==
    /\ pc = "ready"
    /\ then' = "close"
    /\ pc' = IF f THEN "rotate" ELSE "closed"
    /\ UNCHANGED <<disk, cur, before, name, sweeping, f, aged, seq, appends, acked>>

\* OpenStore, recover: the file left by the previous run is finalized first.
OpenStore ==
    /\ pc = "down"
    /\ then' = "recover"
    /\ pc' = IF IsEmpty(part) THEN "sweep" ELSE "rotate"
    /\ UNCHANGED <<disk, cur, before, name, sweeping, f, aged, seq, appends, acked>>

\* sweep: temporary files are removed, plain files collected.
Sweep ==
    /\ pc = "sweep"
    /\ tmp' = <<>>
    /\ sweeping' = IF Gzip THEN DOMAIN plain ELSE {}
    /\ then' = "sweep"
    /\ pc' = "swept"
    /\ UNCHANGED <<part, plain, gz, cur, before, name, f, aged, seq, appends, acked>>

SweepNext ==
    /\ pc = "swept"
    /\ \/ /\ sweeping # {}
          /\ \E n \in sweeping : name' = n /\ sweeping' = sweeping \ {n}
          /\ pc' = "gzip"
       \/ /\ sweeping = {}
          /\ pc' = "ready"
          /\ UNCHANGED <<name, sweeping>>
    /\ UNCHANGED <<disk, then, cur, before, f, aged, seq, appends, acked>>

\* What a power loss may leave of a file: everything an fsync covered, some of
\* what came later, and possibly half a line.
Survives(file) ==
    {[lines |-> SubSeq(file.lines, 1, m), torn |-> t, synced |-> file.synced] :
        m \in file.synced..Len(file.lines), t \in BOOLEAN}

AfterLoss(file) ==
    {g \in Survives(file) : g.torn => file.torn \/ Len(g.lines) < Len(file.lines)}

\* The process ends in any state; what was not fsynced may be lost with it.
Crash ==
    /\ pc # "down"
    /\ part' \in AfterLoss(part)
    /\ \E g \in [DOMAIN plain -> UNION {AfterLoss(plain[n]) : n \in DOMAIN plain}] :
          /\ \A n \in DOMAIN plain : g[n] \in AfterLoss(plain[n])
          /\ plain' = g
    /\ pc' = "down"
    /\ f' = FALSE
    /\ aged' = FALSE
    /\ seq' = 0
    /\ sweeping' = {}
    /\ UNCHANGED <<gz, tmp, then, cur, before, name, appends, acked>>

-----------------------------------------------------------------------------
Next ==
    \/ \E r \in Records : AppendBegins(r)
    \/ Write \/ WriteFails \/ Sync \/ SyncFails
    \/ Rotate \/ RotateFails
    \/ WriteGzip \/ SwapGzip \/ UnlinkPlain \/ CompressFails
    \/ CloseBegins \/ OpenStore \/ Sweep \/ SweepNext
    \/ Crash

Spec == Init /\ [][Next]_vars

-----------------------------------------------------------------------------
(* Properties.                                                             *)

FilesOf(files) == {files[n] : n \in DOMAIN files}

Holds(file, r) == \E i \in DOMAIN file.lines : file.lines[i] = r

\* "An acked event is on disk": every record whose Append returned nil can be
\* read back from the current file or a finalized one, after any sequence of
\* failed writes, rotations, compressions, crashes and restarts.
AckedIsReadable ==
    \A r \in acked : \E file \in {part} \union FilesOf(plain) \union FilesOf(gz) : Holds(file, r)
=============================================================================
