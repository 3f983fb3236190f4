---------------------------- MODULE ErrorLogger ----------------------------
(***************************************************************************)
(* The error logger of source/ErrorLogger.c: threads log into one file and *)
(* change the logger's path meanwhile.  A log call polls the mutex until   *)
(* its time is over; the setters wait for it.  A file is the sequence of   *)
(* its entries (a json object and a newline), an entry its number and its  *)
(* length in bytes.                                                        *)
(***************************************************************************)
EXTENDS SequencesExt, Integers

CONSTANTS
  Thread,     \* the threads that use the logger
  Path,       \* names of log files
  MaxSize,    \* logger->max_file_size
  Lengths,    \* lengths of entries
  MaxLog,     \* bound: entries logged
  MaxTries,   \* the largest timeout set, in milliseconds
  Careful     \* TRUE: the file can be opened, the timeout is not 0, and a
              \* new name, which loses the path, is set while nobody logs
              \* and followed by a new path before anyone does

(* Assumed: the last entry of a file that is to be halved lies in its      *)
(* second half.                                                            *)
LengthsOK ==
  Lengths \subseteq Nat \ {0} /\ \A n \in Lengths : 2 * n <= MaxSize

NULL == "null"
None == "none"

VARIABLES
  file_path,  \* logger->file_path
  file,       \* logger->file: the path it was opened with, or NULL
  timeout,    \* logger->timeout
  mutex,      \* the thread that holds logger->mutex
  disk,       \* the entries of each file
  left,       \* the local 'timeout' of each thread's log call
  pc,         \* where each thread is
  log_count,  \* logger->log_count
  written,    \* history: how many entries were written to each file
  crashed     \* a stream was used that is not open

vars == <<file_path, file, timeout, mutex, disk, left, pc, log_count, written, crashed>>
loggerVars == <<file_path, file, timeout, disk, log_count, written, crashed>>

Goto(t, to) == pc' = [pc EXCEPT ![t] = to]
Lock(t) == mutex = None /\ mutex' = t
Unlock == mutex' = None
MayCall(t) == pc[t] = "idle" /\ ~crashed

file_size(entries) == FoldSeq(LAMBDA e, sum : e.len + sum, 0, entries)

-----------------------------------------------------------------------------
(* ErrorLogger_default_truncate_size.  Reading starts in the middle of the *)
(* file, rounded up, and what is kept starts at the first '{' from there   *)
(* on, or after the first '}': at the first entry that begins there.       *)

Kept(entries) ==
  {i \in DOMAIN entries : file_size(SubSeq(entries, 1, i - 1)) >= (file_size(entries) + 1) \div 2}

ErrorLogger_default_truncate_size(entries) ==
  SubSeq(entries, Min(Kept(entries)), Len(entries))

ErrorLogger_default_truncate_size_ready(entries) == file_size(entries) >= MaxSize

-----------------------------------------------------------------------------
(* ErrorLogger_log_error.                                                  *)

ErrorLogger_log_error(t) ==
  /\ MayCall(t)
  /\ log_count + Cardinality({u \in Thread : pc[u] \notin {"idle", "path", "switch", "name"}}) < MaxLog
  /\ Careful => file_path # NULL /\ \A u \in Thread : pc[u] # "name"
  /\ left' = [left EXCEPT ![t] = timeout]
  /\ Goto(t, "try")
  /\ UNCHANGED <<loggerVars, mutex>>

(* Mutant: a call whose time is over logs all the same.                    *)
TryLock_goesOn(t) ==
  /\ pc[t] = "try"
  /\ \/ Lock(t) /\ Goto(t, "open") /\ UNCHANGED left
     \/ /\ mutex # None
        /\ left' = [left EXCEPT ![t] = @ - 1]
        /\ Goto(t, IF left'[t] = 0 THEN "open" ELSE "try")
        /\ UNCHANGED mutex
  /\ UNCHANGED loggerVars

(* pthread_mutex_trylock, each millisecond.  A time of 0 is over at once,  *)
(* with the mutex locked; a negative one never ends.                       *)
TryLock(t) ==
  /\ pc[t] = "try"
  /\ \/ Lock(t) /\ Goto(t, IF left[t] = 0 THEN "idle" ELSE "open") /\ UNCHANGED left
     \/ /\ mutex # None
        /\ left' = [left EXCEPT ![t] = IF @ <= 0 THEN -1 ELSE @ - 1]
        /\ Goto(t, IF left'[t] = 0 THEN "idle" ELSE "try")
        /\ UNCHANGED mutex
  /\ UNCHANGED loggerVars

(* fopen, whose failure leaves the mutex locked.                           *)
OpenFile(t) ==
  /\ pc[t] = "open"
  /\ \/ /\ file_path = NULL \/ ~Careful
        /\ file' = NULL /\ Goto(t, "idle")
     \/ file_path # NULL /\ file' = file_path /\ Goto(t, "truncate")
  /\ UNCHANGED <<file_path, timeout, mutex, disk, left, log_count, written, crashed>>

(* The truncation has a stream of its own on the logger's path, which it   *)
(* may fail to open or to read.                                            *)
TruncateIfReady(t) ==
  /\ pc[t] = "truncate"
  /\ LET ready == file # NULL /\ ErrorLogger_default_truncate_size_ready(disk[file])
     IN \/ ready /\ disk' = [disk EXCEPT ![file_path] = ErrorLogger_default_truncate_size(@)]
        \/ (ready => ~Careful) /\ UNCHANGED disk
  /\ Goto(t, "write")
  /\ UNCHANGED <<file_path, file, timeout, mutex, left, log_count, written, crashed>>

WriteEntry(t) ==
  /\ pc[t] = "write"
  /\ IF file = NULL THEN crashed' = TRUE /\ UNCHANGED <<disk, written>>
     ELSE \E n \in Lengths :
            /\ written' = [written EXCEPT ![file] = @ + 1]
            /\ disk' = [disk EXCEPT ![file] = Append(@, [no |-> written'[file], len |-> n])]
            /\ UNCHANGED crashed
  /\ Goto(t, "close")
  /\ UNCHANGED <<file_path, file, timeout, mutex, left, log_count>>

CloseFile(t) ==
  /\ pc[t] = "close"
  /\ file' = NULL
  /\ log_count' = log_count + 1
  /\ Unlock
  /\ Goto(t, "idle")
  /\ UNCHANGED <<file_path, timeout, disk, left, written, crashed>>

-----------------------------------------------------------------------------
(* ErrorLogger_set_file_path: the old path is taken away before it is      *)
(* freed, then the new one is copied.                                      *)
ErrorLogger_set_file_path(t) ==
  /\ MayCall(t) /\ Goto(t, "path")
  /\ UNCHANGED <<loggerVars, mutex, left>>

SwitchPath(t) ==
  /\ \/ pc[t] = "path" /\ Lock(t) /\ file_path' = NULL /\ Goto(t, "switch")
     \/ pc[t] = "switch" /\ Unlock /\ file_path' \in Path /\ Goto(t, "idle")
  /\ UNCHANGED <<file, timeout, disk, left, log_count, written, crashed>>

(* ErrorLogger_set_app_name takes the path away and replaces the name.     *)
ErrorLogger_set_app_name(t) ==
  /\ MayCall(t)
  /\ Careful => \A u \in Thread : pc[u] \in {"idle", "path", "switch"}
  /\ Goto(t, "name") /\ UNCHANGED <<loggerVars, mutex, left>>

SwitchName(t) ==
  /\ pc[t] = "name" /\ mutex = None
  /\ file_path' = NULL /\ Goto(t, "idle")
  /\ UNCHANGED <<file, timeout, mutex, disk, left, log_count, written, crashed>>

(* ErrorLogger_set_timeout, without the mutex.                             *)
ErrorLogger_set_timeout ==
  /\ ~crashed
  /\ timeout' \in -1..MaxTries
  /\ Careful => timeout' > 0
  /\ UNCHANGED <<file_path, file, mutex, disk, left, pc, log_count, written, crashed>>

-----------------------------------------------------------------------------
(* newErrorLogger, with a name.                                            *)
Init ==
  /\ file_path \in Path
  /\ file = NULL
  /\ timeout = MaxTries
  /\ mutex = None
  /\ disk = [p \in Path |-> <<>>]
  /\ left = [t \in Thread |-> 0]
  /\ pc = [t \in Thread |-> "idle"]
  /\ log_count = 0
  /\ written = [p \in Path |-> 0]
  /\ crashed = FALSE

Running(t) ==
  \/ TryLock(t) \/ OpenFile(t) \/ TruncateIfReady(t) \/ WriteEntry(t) \/ CloseFile(t)
  \/ SwitchPath(t) \/ SwitchName(t)

Next ==
  \/ \E t \in Thread :
       \/ ErrorLogger_log_error(t) \/ ErrorLogger_set_file_path(t) \/ ErrorLogger_set_app_name(t)
       \/ Running(t)
  \/ ErrorLogger_set_timeout

(* A thread that is in a call runs on, and gets a mutex that others give   *)
(* up again and again.                                                     *)
Fairness == \A t \in Thread : SF_vars(Running(t))

Spec == Init /\ [][Next]_vars /\ Fairness

-----------------------------------------------------------------------------
(* However the threads' log calls, timeouts and changes of the path        *)
(* interleave: nobody writes to a stream another one closed; a file holds  *)
(* the newest of the entries written to it, at least one, whole and in     *)
(* order; it never outgrows max_file_size by more than one entry; and      *)
(* log_count counts the entries that are complete.                         *)
LogIsWhole ==
  /\ ~crashed
  /\ \A p \in Path :
       /\ \A i \in DOMAIN disk[p] : disk[p][i].no = written[p] - Len(disk[p]) + i
       /\ written[p] > 0 => disk[p] # <<>>
       /\ file_size(disk[p]) < MaxSize + Max(Lengths)
  /\ FoldFunction(+, 0, written) = log_count + Cardinality({t \in Thread : pc[t] = "close"})

(* Every call returns: a log call after its time at the latest, a setter   *)
(* when the mutex is free.                                                 *)
CallsReturn == \A t \in Thread : pc[t] # "idle" ~> pc[t] = "idle"
=============================================================================
