----------------------------- MODULE LogWriter ------------------------------
(***************************************************************************)
(* The structured logger's way to the disk (core/src/log.rs): the sampler, *)
(* the bounded queue of a non-blocking logger and its writer thread, and   *)
(* RotatingFile with its three forms of rotation, gzip and retention.      *)
(* Every call to the file system is a step that may fail and a point where *)
(* the process may crash; the files survive, the queue does not.  A record *)
(* is its number, and one byte long.                                       *)
(***************************************************************************)
EXTENDS Integers, Sequences, FiniteSets, SequencesExt

CONSTANTS
  Capacity,                \* of the non-blocking queue
  MaxBytes, MaxBackups,    \* RotationPolicy::Size
  RetentionDays,
  First, Thereafter,       \* LogSampler
  MaxRecords, MaxDaily, MaxDays, MaxFails, MaxCrashes   \* bounds

VARIABLES
  policy,      \* "size", "stamped" (max_backups = 0) or "daily"
  compress, non_blocking,   \* of the configuration
  today,       \* the UTC day
  files,       \* path -> content, the directory
  file,        \* the handle is open
  active_day, bytes_written,
  pc, idx, src, todo,   \* where the write under way is
  rec,         \* {} or the record being written
  queue, seen, calls, dropped,
  written,     \* history: the records whose write succeeded, with their day
  fails, crashes, torn, backwards   \* history

vars == <<policy, compress, non_blocking, today, files, file, active_day, bytes_written, pc, idx,
          src, todo, rec, queue, seen, calls, dropped, written, fails, crashes, torn, backwards>>
config == <<policy, compress, non_blocking>>
front == <<queue, seen, calls, dropped>>
past == <<written, fails, crashes, torn, backwards>>

Path(kind, n) == [kind |-> kind, n |-> n, gz |-> FALSE]
gzip_path(p) == [p EXCEPT !.gz = TRUE]
exists(p) == p \in DOMAIN files
Partial == <<0>>     \* a gzip file that was not finished

log_path(day) == IF policy = "daily" THEN Path("day", day) ELSE Path("active", 0)
active_path == log_path(active_day)
backup_path(i) == Path("backup", i)
existing_backup(i) ==
  IF exists(backup_path(i)) THEN {backup_path(i)}
  ELSE {gzip_path(backup_path(i))} \cap DOMAIN files

Without(paths) == [p \in DOMAIN files \ paths |-> files[p]]
With(p, content) == [q \in DOMAIN files \cup {p} |-> IF q = p THEN content ELSE files[q]]
rename(from, to) == [q \in (DOMAIN files \ {from}) \cup {to} |-> IF q = to THEN files[from] ELSE files[q]]
\* Fault: a file that is opened again counts as empty.
length_forgotten(fs, p) == 0

length(fs, p) == Len(fs[p])      \* file.metadata().len()
append_file(p) == IF exists(p) THEN files ELSE With(p, <<>>)

TypeOK ==
  /\ \A p \in DOMAIN files : p.kind \in {"active", "backup", "stamp", "day"} /\ p.gz \in BOOLEAN
  /\ pc \in {"idle", "rotate", "shift", "backup", "gzip", "finish", "unlink", "open",
             "reopen", "maintain", "write"}
  /\ Len(queue) <= Capacity /\ Cardinality(rec) <= 1
  /\ file \in BOOLEAN /\ bytes_written \in Nat /\ today \in 0..MaxDays

Init ==
  /\ policy \in {"size", "stamped", "daily"} /\ compress \in BOOLEAN /\ non_blocking \in BOOLEAN
  /\ non_blocking => policy = "size" /\ ~compress   \* the queue is the same before every file
  /\ today = 0 /\ active_day = 0
  /\ files = [p \in {log_path(0)} |-> <<>>]
  /\ file = TRUE /\ bytes_written = 0
  /\ pc = "idle" /\ idx = 0 /\ src = Path("active", 0) /\ todo = {} /\ rec = {}
  /\ queue = <<>> /\ seen = 0 /\ calls = 0 /\ dropped = 0
  /\ written = <<>> /\ fails = 0 /\ crashes = 0 /\ torn = FALSE /\ backwards = FALSE

-----------------------------------------------------------------------------
(* the callers                                                             *)

allow == seen < First \/ (seen - First) % Thereafter = 0

\* Sink::write_all of a blocking logger: the caller holds the mutex and writes.
write_blocking ==
  /\ pc = "idle"
  /\ rec' = {calls + 1} /\ pc' = "rotate"
  /\ UNCHANGED <<queue, dropped>>

\* Fault: a record that finds the queue full is not counted.
try_write_uncounted ==
  /\ queue' = IF Len(queue) < Capacity THEN Append(queue, calls + 1) ELSE queue
  /\ UNCHANGED <<dropped, rec, pc>>

\* AsyncSink::try_write
try_write ==
  /\ IF Len(queue) < Capacity
     THEN queue' = Append(queue, calls + 1) /\ UNCHANGED dropped
     ELSE dropped' = dropped + 1 /\ UNCHANGED queue
  /\ UNCHANGED <<rec, pc>>

log ==
  /\ ~non_blocking /\ calls < IF policy = "daily" THEN MaxDaily ELSE MaxRecords
  /\ calls' = calls + 1
  /\ write_blocking
  /\ UNCHANGED <<config, today, files, file, active_day, bytes_written, idx, src, todo, seen, past>>

log_sampled ==
  /\ non_blocking /\ calls < MaxRecords
  /\ seen' = seen + 1
  /\ IF allow THEN calls' = calls + 1 /\ try_write
     ELSE UNCHANGED <<calls, queue, dropped, rec, pc>>
  /\ UNCHANGED <<config, today, files, file, active_day, bytes_written, idx, src, todo, past>>

\* the writer thread
Take ==
  /\ non_blocking /\ pc = "idle" /\ queue # <<>>
  /\ rec' = {Head(queue)} /\ queue' = Tail(queue)
  /\ pc' = "rotate"
  /\ UNCHANGED <<config, today, files, file, active_day, bytes_written, idx, src, todo, seen, calls,
                 dropped, past>>

-----------------------------------------------------------------------------
(* RotatingFile                                                            *)

rest == <<config, today, rec, front, past>>

\* RotatingFile::write_all decides whether to rotate.
Decide ==
  /\ pc = "rotate"
  /\ \/ /\ policy = "daily" /\ today # active_day
        /\ file' = FALSE /\ active_day' = today
        /\ src' = active_path
        /\ pc' = "reopen" /\ UNCHANGED idx
     \/ /\ policy # "daily" /\ bytes_written > 0 /\ bytes_written + 1 > MaxBytes
        /\ file' = FALSE
        /\ idx' = MaxBackups
        /\ pc' = IF policy = "stamped" THEN "backup" ELSE "shift"
        /\ UNCHANGED <<active_day, src>>
     \/ /\ IF policy = "daily" THEN today = active_day
           ELSE bytes_written = 0 \/ bytes_written + 1 <= MaxBytes
        /\ pc' = "write" /\ UNCHANGED <<file, active_day, src, idx>>
  /\ UNCHANGED <<rest, files, bytes_written, todo>>

\* rotate_size: the oldest backup is removed, then each moves up one number.
shift ==
  IF idx = MaxBackups THEN Without({backup_path(idx), gzip_path(backup_path(idx))})
  ELSE IF existing_backup(idx) = {} THEN files
       ELSE LET from == CHOOSE p \in existing_backup(idx) : TRUE
            IN  rename(from, [from EXCEPT !.n = idx + 1])

Shift ==
  /\ pc = "shift"
  /\ files' = shift
  /\ idx' = idx - 1
  /\ pc' = IF idx = 1 THEN "backup" ELSE "shift"
  /\ UNCHANGED <<rest, file, active_day, bytes_written, src, todo>>

\* the active file becomes backup 1, or a backup named after the time
Backup ==
  /\ pc = "backup"
  /\ LET to == IF policy = "stamped" THEN Path("stamp", CHOOSE r \in rec : TRUE) ELSE backup_path(1) IN
     IF policy = "stamped" \/ exists(active_path)
     THEN /\ exists(active_path)
          /\ files' = rename(active_path, to)
          /\ src' = to
          /\ pc' = IF compress THEN "gzip" ELSE "open"
     ELSE pc' = "open" /\ UNCHANGED <<files, src>>
  /\ UNCHANGED <<rest, file, active_day, bytes_written, idx, todo>>

\* Fault: the length of the old file is kept.
OpenKeepingLength ==
  /\ pc = "open"
  /\ files' = append_file(active_path)
  /\ file' = TRUE
  /\ pc' = "write"
  /\ UNCHANGED <<rest, active_day, bytes_written, idx, src, todo>>

Open ==
  /\ pc = "open"
  /\ files' = append_file(active_path)
  /\ file' = TRUE /\ bytes_written' = 0
  /\ pc' = "write"
  /\ UNCHANGED <<rest, active_day, idx, src, todo>>

\* compress_file: create, copy and finish, remove
Gzip ==
  /\ pc = "gzip" /\ files' = With(gzip_path(src), Partial) /\ pc' = "finish"
  /\ UNCHANGED <<rest, file, active_day, bytes_written, idx, src, todo>>
Finish ==
  /\ pc = "finish" /\ files' = With(gzip_path(src), files[src]) /\ pc' = "unlink"
  /\ UNCHANGED <<rest, file, active_day, bytes_written, idx, src, todo>>
Unlink ==
  /\ pc = "unlink" /\ files' = Without({src})
  /\ pc' = IF policy = "daily" THEN "maintain" ELSE "open"
  /\ todo' = IF policy = "daily" /\ todo = {} THEN DOMAIN files' ELSE todo
  /\ UNCHANGED <<rest, file, active_day, bytes_written, idx, src>>

\* rotate_daily: open the new day's file, then compress the old one
Reopen ==
  /\ pc = "reopen"
  /\ files' = append_file(active_path)
  /\ file' = TRUE /\ bytes_written' = length(files', active_path)
  /\ IF compress /\ exists(src)
     THEN pc' = "gzip" /\ UNCHANGED todo
     ELSE pc' = "maintain" /\ todo' = DOMAIN files'
  /\ UNCHANGED <<rest, active_day, idx, src>>

\* Fault: the retention is counted from the day after.
cutoff_late == active_day - RetentionDays + 2

cutoff == active_day - (RetentionDays - 1)

\* maintain_daily_files, one entry of the directory at a time, in any order
Maintain ==
  /\ pc = "maintain"
  /\ IF todo = {} THEN pc' = (IF rec = {} THEN "idle" ELSE "write") /\ UNCHANGED <<files, src, todo>>
     ELSE \E p \in todo :
       IF p.n < active_day /\ compress /\ ~p.gz /\ exists(p)
       THEN src' = p /\ pc' = "gzip" /\ UNCHANGED <<files, todo>>
       ELSE /\ files' = IF p.n < cutoff THEN Without({p, gzip_path(p)}) ELSE files
            /\ todo' = todo \ {p}
            /\ UNCHANGED <<src, pc>>
  /\ UNCHANGED <<rest, file, active_day, bytes_written, idx>>

Write ==
  /\ pc = "write" /\ file
  /\ \E r \in rec : /\ files' = With(active_path, Append(files[active_path], r))
                    /\ written' = Append(written, [r |-> r, day |-> active_day])
  /\ bytes_written' = bytes_written + 1
  /\ rec' = {} /\ pc' = "idle"
  /\ UNCHANGED <<config, today, file, active_day, idx, src, todo, front, fails, crashes, torn, backwards>>

-----------------------------------------------------------------------------
(* failures                                                                *)

\* The caller gets the error, the writer thread counts the record.
Lose ==
  /\ rec' = {} /\ pc' = "idle" /\ todo' = {}
  /\ dropped' = IF non_blocking THEN dropped + 1 ELSE dropped
  /\ UNCHANGED <<config, today, active_day, bytes_written, idx, src, queue, seen, calls, written,
                 crashes, backwards>>

\* A file operation of a rotation fails and the active file is reopened, if it can be.
FailRotation ==
  /\ \/ fails < MaxFails /\ fails' = fails + 1
     \/ pc = "backup" /\ policy = "stamped" /\ ~exists(active_path) /\ UNCHANGED fails
  /\ pc \in {"shift", "backup", "gzip", "finish", "unlink", "open", "reopen", "maintain"} /\ rec # {}
  /\ IF file THEN UNCHANGED <<file, files>>
     ELSE \/ file' = TRUE /\ files' = append_file(active_path)
          \/ UNCHANGED <<file, files>>
  /\ Lose /\ UNCHANGED torn

\* A write fails, and may leave a part of the record; a closed file is no
\* new failure (nothing but a rotation opens it again).
FailWrite ==
  /\ pc = "write"
  /\ \/ ~file /\ UNCHANGED <<files, torn, fails>>
     \/ /\ file /\ fails < MaxFails /\ fails' = fails + 1
        /\ \/ UNCHANGED <<files, torn>>
           \/ files' = With(active_path, Append(files[active_path], 0)) /\ torn' = TRUE
  /\ Lose /\ UNCHANGED file

\* The process dies and is started again: RotatingFile::new.
Restart ==
  /\ crashes < MaxCrashes /\ crashes' = crashes + 1
  /\ queue' = <<>> /\ rec' = {} /\ seen' = 0 /\ dropped' = 0
  /\ today' \in today .. (IF policy = "daily" /\ today < MaxDays THEN today + 1 ELSE today)
  /\ active_day' = today'
  /\ files' = append_file(log_path(today'))
  /\ file' = TRUE /\ bytes_written' = length(files', log_path(today'))
  /\ todo' = IF policy = "daily" THEN DOMAIN files' ELSE {}
  /\ pc' = IF policy = "daily" THEN "maintain" ELSE "idle"
  /\ UNCHANGED <<config, idx, src, calls, written, fails, torn, backwards>>

\* The day changes, which a write under way does not look at; the clock may
\* be set back.
Midnight ==
  /\ policy = "daily" /\ pc = "idle"
  /\ \/ today < MaxDays /\ today' = today + 1 /\ UNCHANGED backwards
     \/ today > 0 /\ ~backwards /\ today' = today - 1 /\ backwards' = TRUE
  /\ UNCHANGED <<config, files, file, active_day, bytes_written, pc, idx, src, todo, rec, front,
                 written, fails, crashes, torn>>

Next ==
  \/ log \/ log_sampled \/ Take \/ Decide \/ Shift \/ Backup \/ Open \/ Gzip \/ Finish \/ Unlink
  \/ Reopen \/ Maintain \/ Write \/ FailRotation \/ FailWrite \/ Restart \/ Midnight

Spec == Init /\ [][Next]_vars

-----------------------------------------------------------------------------

Content(paths) ==       \* of a file that may be compressed already
  IF paths = {} THEN <<>> ELSE SelectSeq(files[CHOOSE p \in paths : TRUE], LAMBDA r : r # 0)
Raw(p) == IF exists(p) THEN {p} ELSE {gzip_path(p)} \cap DOMAIN files
Backups ==              \* oldest first
  IF policy = "stamped"
  THEN FlattenSeq([n \in 1..MaxRecords |-> Content(Raw(Path("stamp", n)))])
  ELSE FlattenSeq([n \in 1..MaxBackups |-> Content(existing_backup(MaxBackups + 1 - n))])
Kept == Backups \o Content(Raw(active_path))
Written == [i \in DOMAIN written |-> written[i].r]

\* What the size-rotated files hold is the end of what was written, without a
\* gap, wherever a rotation or a compression fails or the process dies (a
\* record may be there twice, compressed and not); a logger that keeps all its
\* backups has lost nothing, and one that keeps MaxBackups of them has so many
\* full files behind the active one unless an operation failed or the process
\* died ("only that many numbered backups are retained").
LogKept ==
  policy # "daily" =>
    /\ \E n \in 0..Len(Written) : Range(Kept) = Range(SubSeq(Written, n + 1, Len(Written)))
    /\ policy = "stamped" => Range(Kept) = Range(Written)
    /\ fails = 0 /\ crashes = 0 /\ pc = "idle" =>
         Kept = Written \/ (IsSuffix(Kept, Written) /\ Len(Kept) >= MaxBackups * MaxBytes)

\* "Rolls the active file before it would exceed max_bytes", also after a
\* failed rotation or a restart, as long as no write has stopped halfway.
ActiveWithinLimit ==
  policy # "daily" /\ ~torn /\ exists(active_path) => Len(files[active_path]) <= MaxBytes

\* A daily log keeps every record of the last RetentionDays days, "including
\* the active day", wherever a compression or the clean-up fails or the process
\* dies; the clock has not been set back.
DaysKept ==
  policy = "daily" /\ ~backwards =>
    \A i \in DOMAIN written :
      written[i].day > active_day - RetentionDays =>
        \E p \in Raw(Path("day", written[i].day)) : written[i].r \in Range(files[p])

\* Every record a non-blocking logger was handed is written, queued, in its
\* writer's hands or counted by dropped_records; and the sampler has let the
\* first records and then every Thereafter-th through.
RecordsAccounted ==
  crashes = 0 =>
    /\ non_blocking => calls = Len(written) + Len(queue) + Cardinality(rec) + dropped
    /\ non_blocking => calls = IF seen <= First THEN seen ELSE First + (seen - First - 1) \div Thereafter + 1
=============================================================================
