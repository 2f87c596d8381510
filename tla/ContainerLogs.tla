--------------------------- MODULE ContainerLogs ---------------------------
(***************************************************************************)
(* The log files of a container: ContainerLogManager writes to the file    *)
(* with the highest number and rotates when it is full.  The lines of a    *)
(* log are their lengths.                                                  *)
(***************************************************************************)
EXTENDS Integers, FiniteSets

CONSTANTS
  MaxSize,      \* containerLogMaxSize, in units of a short line
  MaxFiles,     \* containerLogMaxFiles
  LineSizes,    \* lengths of the lines
  MaxIndex      \* bound: the highest file number

ASSUME LogAssumption == MaxFiles \in Nat \ {0}

VARIABLES
  logFiles,     \* the files of the directory: the size of each number that exists
  logIndex,     \* current_index
  logSize,      \* current_size
  logOpen,      \* a file is open
  logUp,        \* there is a manager
  leftOver      \* history: numbers whose removal failed

logVars == <<logFiles, logIndex, logSize, logOpen, logUp, leftOver>>


LogTypeOK ==
  /\ DOMAIN logFiles \subseteq 0 .. MaxIndex
  /\ logIndex \in 0 .. MaxIndex
  /\ logSize \in Nat
  /\ logOpen \in BOOLEAN
  /\ logUp \in BOOLEAN
  /\ leftOver \subseteq 0 .. MaxIndex

LogInit ==
  /\ logFiles = [n \in {} |-> 0]
  /\ logIndex = 0
  /\ logSize = 0
  /\ logOpen = FALSE
  /\ logUp = FALSE
  /\ leftOver = {}

With(f, n, size) == [k \in DOMAIN f \cup {n} |-> IF k = n THEN size ELSE f[k]]
Without(f, n) == [k \in DOMAIN f \ {n} |-> f[k]]

\* find_current_index
HighestIndex == IF DOMAIN logFiles = {} THEN 0
                ELSE CHOOSE n \in DOMAIN logFiles : \A k \in DOMAIN logFiles : k <= n

\* new: append to the file with the highest number.
NewLogManager ==
  /\ ~logUp
  /\ logUp' = TRUE
  /\ logIndex' = HighestIndex
  /\ logSize' = IF HighestIndex \in DOMAIN logFiles THEN logFiles[HighestIndex] ELSE 0
  /\ logFiles' = With(logFiles, HighestIndex, logSize')
  /\ logOpen' = TRUE
  /\ UNCHANGED leftOver

\* Mutant of Oldest: one file more is kept.
OldestLate(index) == index - MaxFiles - 1

\* The number that a rotation to index drops.
Oldest(index) == index - MaxFiles

\* rotate to the next number: the file beyond max_files is removed, an error of
\* which is ignored; a new file that cannot be opened leaves none open.
Rotated(index, files, opened, removed) ==
  LET kept == IF removed THEN Without(files, Oldest(index)) ELSE files
  IN IF opened THEN With(kept, index, 0) ELSE kept

\* write: rotate first if the line does not fit.  A line longer than a file gets
\* a file of its own; with no file open the line is lost and write says Ok.
WriteLine(len) ==
  /\ logUp
  /\ IF logSize + len > MaxSize
     THEN /\ logIndex < MaxIndex
          /\ logIndex' = logIndex + 1
          /\ \E opened, removed \in BOOLEAN :
               LET files == Rotated(logIndex', logFiles, opened, removed) IN
               /\ logOpen' = opened
               /\ logFiles' = IF opened THEN With(files, logIndex', len) ELSE files
               /\ logSize' = IF opened THEN len ELSE 0
               /\ leftOver' = IF ~removed /\ Oldest(logIndex') \in DOMAIN logFiles
                              THEN leftOver \cup {Oldest(logIndex')} ELSE leftOver
     ELSE /\ logFiles' = IF logOpen /\ logIndex \in DOMAIN logFiles THEN With(logFiles, logIndex, logSize + len) ELSE logFiles
          /\ logSize' = IF logOpen THEN logSize + len ELSE logSize
          /\ UNCHANGED <<logIndex, logOpen, leftOver>>
  /\ UNCHANGED logUp

\* The kubelet ends; the files stay.
LogManagerGone ==
  /\ logUp
  /\ logUp' = FALSE
  /\ logOpen' = FALSE
  /\ UNCHANGED <<logFiles, logIndex, logSize, leftOver>>

\* remove_pod_logs: the directory goes, also under a manager that has a file open.
RemovePodLogs ==
  /\ DOMAIN logFiles # {}
  /\ logFiles' = [n \in {} |-> 0]
  /\ leftOver' = {}
  /\ UNCHANGED <<logIndex, logSize, logOpen, logUp>>

LogNext ==
  \/ NewLogManager \/ LogManagerGone \/ RemovePodLogs
  \/ \E len \in LineSizes : WriteLine(len)

----------------------------------------------------------------------------
\* Rotation keeps at most max_files files, through restarts and removals of the
\* directory: only files whose removal failed once stay beyond that, because a
\* rotation looks at one number and never again.
LogFilesBounded == Cardinality(DOMAIN logFiles \ leftOver) <= MaxFiles
=============================================================================
