------------------------------ MODULE IndexFile ------------------------------
(***************************************************************************)
(* The index file between its writer (writeIndex of cmd/preprocess) and    *)
(* its reader (ivf.Load of a starting API server).                         *)
(*                                                                         *)
(* A file is a sequence of words, one per number of any width; an absent   *)
(* file is the empty one (Load fails at once on both).  The writer         *)
(* truncates the file, then sends section after section through a buffer   *)
(* of BufSize words; an error or a kill at any moment leaves whatever      *)
(* prefix had reached the file.  The reader never runs beside the writer:  *)
(* the image of the server is built from a finished file.                  *)
(***************************************************************************)
EXTENDS Integers, Sequences

CONSTANTS
  D, K,                \* dimensions, clusters
  Magic, FixScale,     \* first and last word of the header
  Scales,              \* words Load takes for FixScale: 0.01 off at most, or NaN
  BufSize,             \* size of the writer's buffer
  Chunk,               \* vectors the reader transposes at a time
  Indexes,             \* the indexes preprocess may build
  Foreign,             \* other contents the path may have before
  None                 \* no index

\* Numbers of any width are words.  Arrays lie as they do in writeIndex: the
\* vectors one after the other.
Arrays == [n : Nat \ {0}, centroids : Seq(Int), mn : Seq(Int), mx : Seq(Int),
           offsets : Seq(Int), vec : Seq(Int), label : Seq(Int), id : Seq(Int)]

\* The index in memory: the vectors by columns, dims[j][i].
Loadable == [n : Nat, centroids : Seq(Int), mn : Seq(Int), mx : Seq(Int),
             offsets : Seq(Int), dims : Seq(Seq(Int)), label : Seq(Int), id : Seq(Int)]

ASSUME IndexFileAssumption ==
  /\ D \in Nat \ {0} /\ K \in Nat \ {0} /\ BufSize \in Nat \ {0} /\ Chunk \in Nat \ {0}
  /\ Magic \in Int /\ FixScale \in Int /\ FixScale \in Scales
  /\ \A x \in Indexes :
       /\ x \in Arrays
       /\ Len(x.centroids) = K * D /\ Len(x.mn) = K * D /\ Len(x.mx) = K * D
       /\ Len(x.offsets) = K + 1 /\ Len(x.vec) = x.n * D
       /\ Len(x.label) = x.n /\ Len(x.id) = x.n
  /\ \A d \in Foreign : d \in Seq(Int) /\ (Len(d) >= 2 => d[2] \in Nat)
  /\ None \notin Loadable

VARIABLES
  disk,                       \* the words of the file
  writing,                    \* is preprocess writing?
  target,                     \* the index it writes or wrote last
  next, buf,                  \* section to write next, buffered words
  exit,                       \* how the last preprocess ended
  phase,                      \* what the server does with the file
  pos, done,                  \* words read, vectors transposed
  mem                         \* the index read so far

writer == <<writing, target, next, buf, exit>>
reader == <<phase, pos, done, mem>>
vars   == <<disk, writer, reader>>

\* What writeIndex passes to its buffered writer, one call after the other.
Sections(x) ==
  << <<Magic>>, <<x.n>>, <<K>>, <<D>>, <<D>>, <<FixScale>>, x.centroids, x.mn, x.mx,
     x.offsets, x.vec, x.label, x.id >>

Written == 13   \* the last section

Encode(x) ==
  <<Magic, x.n, K, D, D, FixScale>> \o x.centroids \o x.mn \o x.mx \o x.offsets
    \o x.vec \o x.label \o x.id

Blank(n) == [n |-> n, centroids |-> <<>>, mn |-> <<>>, mx |-> <<>>, offsets |-> <<>>,
             dims |-> [j \in 1..D |-> [i \in 1..n |-> 0]], label |-> <<>>, id |-> <<>>]

InMemory(x) ==
  [n |-> x.n, centroids |-> x.centroids, mn |-> x.mn, mx |-> x.mx, offsets |-> x.offsets,
   dims |-> [j \in 1..D |-> [i \in 1..x.n |-> x.vec[(i - 1) * D + j]]],
   label |-> x.label, id |-> x.id]

Init ==
  /\ disk \in {Encode(x) : x \in Indexes} \cup Foreign \cup {<<>>}
  /\ writing = FALSE /\ target = None /\ next = 1 /\ buf = <<>> /\ exit = "none"
  /\ phase = "stopped" /\ pos = 0 /\ done = 0 /\ mem = Blank(0)

-----------------------------------------------------------------------------
(* The writer. *)

Idle == ~writing /\ phase \in {"stopped", "loaded", "failed"}

\* A mutant: the file is opened for appending.
CreateAppending ==
  /\ Idle
  /\ target' \in Indexes /\ next' = 1
  /\ writing' = TRUE /\ buf' = <<>> /\ exit' = "none"
  /\ UNCHANGED <<disk, reader>>

\* os.Create empties an existing file.
Create ==
  /\ Idle
  /\ target' \in Indexes /\ next' = 1
  /\ disk' = <<>>
  /\ writing' = TRUE /\ buf' = <<>> /\ exit' = "none"
  /\ UNCHANGED reader

\* os.Create fails: what the path holds is left as it is.
CreateFails ==
  /\ Idle
  /\ exit' = "failed"
  /\ UNCHANGED <<disk, writing, target, next, buf, reader>>

\* What Write(p) of a bufio.Writer sends on and keeps: a buffer that overflows
\* is filled up and sent; a rest larger than the buffer is sent directly.
Buffered(p) ==
  LET room == IF buf = <<>> THEN 0 ELSE BufSize - Len(buf)
      rest == SubSeq(p, room + 1, Len(p))
  IN  IF Len(buf) + Len(p) <= BufSize THEN [out |-> <<>>, keep |-> buf \o p]
      ELSE IF Len(rest) <= BufSize THEN [out |-> buf \o SubSeq(p, 1, room), keep |-> rest]
      ELSE [out |-> buf \o p, keep |-> <<>>]

WriteSection ==
  /\ writing /\ next <= Written
  /\ LET b == Buffered(Sections(target)[next]) IN disk' = disk \o b.out /\ buf' = b.keep
  /\ next' = next + 1
  /\ UNCHANGED <<writing, target, exit, reader>>

\* A mutant: writeIndex returns nil without a Flush.
FlushForgotten ==
  /\ writing /\ next > Written
  /\ writing' = FALSE /\ exit' = "ok"
  /\ UNCHANGED <<disk, target, next, buf, reader>>

Flush ==
  /\ writing /\ next > Written
  /\ disk' = disk \o buf /\ buf' = <<>>
  /\ writing' = FALSE /\ exit' = "ok"
  /\ UNCHANGED <<target, next, reader>>

\* A write fails, or the process is killed: any part of what was being sent
\* has reached the file.
Abort ==
  /\ writing
  /\ LET out == IF next > Written THEN buf ELSE Buffered(Sections(target)[next]).out
     IN  \E k \in 0..Len(out) : disk' = disk \o SubSeq(out, 1, k)
  /\ writing' = FALSE /\ exit' = "failed" /\ buf' = <<>>
  /\ UNCHANGED <<target, next, reader>>

-----------------------------------------------------------------------------
(* The reader. *)

\* The next words of the file, when they are all there.
Enough(m)         == pos + m <= Len(disk)
Part(d, after, m) == SubSeq(d, after + 1, after + m)
Word(after, m)    == Part(disk, pos + after, m)

Fail == phase' = "failed" /\ UNCHANGED <<pos, done, mem>>

\* A server process starts (in place of the one before, if any).
Open ==
  /\ Idle
  /\ phase' = "header" /\ pos' = 0 /\ done' = 0 /\ mem' = Blank(0)
  /\ UNCHANGED <<disk, writer>>

GoodHeader(h) == h[1] = Magic /\ h[3] = K /\ h[4] = D /\ h[5] = D /\ h[6] \in Scales

ReadHeader ==
  /\ phase = "header"
  /\ \/ /\ Enough(6) /\ GoodHeader(Word(0, 6))
        /\ mem' = Blank(disk[2]) /\ pos' = 6 /\ phase' = "sections"
        /\ UNCHANGED done
     \/ ~(Enough(6) /\ GoodHeader(Word(0, 6))) /\ Fail
  /\ UNCHANGED <<disk, writer>>

ReadSections ==
  /\ phase = "sections"
  /\ LET kd == K * D
     IN  \/ /\ Enough(3 * kd + K + 1)
            /\ mem' = [mem EXCEPT !.centroids = Word(0, kd), !.mn = Word(kd, kd),
                                  !.mx = Word(2 * kd, kd), !.offsets = Word(3 * kd, K + 1)]
            /\ pos' = pos + 3 * kd + K + 1 /\ phase' = "vectors"
            /\ UNCHANGED done
         \/ ~Enough(3 * kd + K + 1) /\ Fail
  /\ UNCHANGED <<disk, writer>>

\* The next vectors, transposed: the rows of the file become columns.
Columns(take) ==
  [j \in 1..D |-> [i \in 1..mem.n |->
     IF i \in (done + 1)..(done + take) THEN disk[pos + (i - done - 1) * D + j]
     ELSE mem.dims[j][i]]]

\* A mutant: the last chunk is read as a whole one.
TakeWhole == Chunk

Take == IF mem.n - done > Chunk THEN Chunk ELSE mem.n - done

ReadChunk ==
  /\ phase = "vectors" /\ done < mem.n
  /\ \/ /\ Enough(Take * D)
        /\ mem' = [mem EXCEPT !.dims = Columns(Take)]
        /\ done' = done + Take /\ pos' = pos + Take * D
        /\ UNCHANGED phase
     \/ ~Enough(Take * D) /\ Fail
  /\ UNCHANGED <<disk, writer>>

ReadTail ==
  /\ phase = "vectors" /\ done >= mem.n
  /\ \/ /\ Enough(2 * mem.n)
        /\ mem' = [mem EXCEPT !.label = Word(0, mem.n), !.id = Word(mem.n, mem.n)]
        /\ pos' = pos + 2 * mem.n /\ phase' = "loaded"
        /\ UNCHANGED done
     \/ ~Enough(2 * mem.n) /\ Fail
  /\ UNCHANGED <<disk, writer>>

Next ==
  \/ Create \/ CreateFails \/ WriteSection \/ Flush \/ Abort
  \/ Open \/ ReadHeader \/ ReadSections \/ ReadChunk \/ ReadTail

Spec == Init /\ [][Next]_vars

-----------------------------------------------------------------------------
(* Properties. *)

\* The buffer holds at most BufSize words, and the reader never reads past the
\* end of the file nor transposes more vectors than the header announces.
TypeOK ==
  /\ writing \in BOOLEAN /\ exit \in {"none", "ok", "failed"}
  /\ target \in Indexes \cup {None}
  /\ Len(buf) <= BufSize /\ next \in 1..(Written + 1)
  /\ phase \in {"stopped", "header", "sections", "vectors", "loaded", "failed"}
  /\ (phase \in {"header", "sections", "vectors"} => pos <= Len(disk)) /\ done <= mem.n

\* The format of the file: where the vectors begin, where the file of n vectors
\* ends, and the index it holds.  Words after it are never looked at.
VectorsAfter == 6 + 3 * (K * D) + K + 1

EndAfter(n) == VectorsAfter + n * D + 2 * n

HoldsIndex(d) == Len(d) >= 6 /\ GoodHeader(d) /\ Len(d) >= EndAfter(d[2])

StoredIn(d) ==
  LET n  == d[2]
      kd == K * D
      rows == VectorsAfter + n * D
  IN  IF ~HoldsIndex(d) THEN None ELSE
      [n |-> n, centroids |-> Part(d, 6, kd), mn |-> Part(d, 6 + kd, kd),
       mx |-> Part(d, 6 + 2 * kd, kd), offsets |-> Part(d, 6 + 3 * kd, K + 1),
       dims |-> [j \in 1..D |-> [i \in 1..n |-> d[VectorsAfter + (i - 1) * D + j]]],
       label |-> Part(d, rows, n), id |-> Part(d, rows + n, n)]

Store == INSTANCE IndexStore WITH
  Indexes <- Loadable,
  stored  <- StoredIn(disk),
  being   <- IF writing THEN InMemory(target) ELSE None,
  served  <- IF phase = "loaded" THEN mem ELSE None

\* A server has in memory, column by column, exactly an index that preprocess
\* wrote to its last word, or it does not start: never a part of one, nor a
\* new one mixed with the one before, wherever the writer was stopped.
ImplementsIndexStore == Store!Spec

\* When preprocess exits with 0 its index can be loaded.
SuccessMeansStored == exit = "ok" => StoredIn(disk) = InMemory(target)

\* Load refuses no file that holds an index.
LoadAcceptsEveryIndex ==
  [][phase # "failed" /\ phase' = "failed" => StoredIn(disk) = None]_vars
=============================================================================
