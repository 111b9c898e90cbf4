------------------------------ MODULE AuditSink ------------------------------
(***************************************************************************)
(* The audit file of the daemon (daemon/audit-sink.ts) and its reader      *)
(* (audit-reader.ts): lines appended to one file that is synchronised once *)
(* an interval, rotated when it is full and pruned when it is old, by a    *)
(* process that may be killed or lose its power and is started again.      *)
(*                                                                         *)
(* One tick of the clock is one interval of the flush timer.  Names of     *)
(* rotated files hold milliseconds: they tell the runs of the process      *)
(* apart, not what one run does within an instant.  A line is a record's   *)
(* number, and whether the line holds that record and nothing else.        *)
(***************************************************************************)
EXTENDS Naturals, Sequences, FiniteSets, SequencesExt, FiniteSetsExt

CONSTANTS
  MaxLines,     \* maxBytes, in lines
  Retention,    \* retentionMs, in intervals
  MaxRecords, MaxClock, MaxRuns   \* bounds: records, intervals, starts

ASSUME AuditAssumption ==
  /\ MaxLines \in Nat \ {0} /\ Retention \in Nat
  /\ MaxRecords \in Nat /\ MaxClock \in Nat /\ MaxRuns \in Nat

VARIABLES
  clock,
  at,        \* history: when each record was appended
  active,    \* the lines of the active file
  synced,    \* how many of them a loss of power leaves
  torn,      \* whether the last of them has no newline
  rotated,   \* the rotated files: [name, lines, synced, written]
  sink,      \* the process: [up, bytes, dirty, seq, open, run]
  exposed,   \* history: records a killed process left unsynchronised
  excused    \* history: records the durability model gives up

auditVars == <<clock, at, active, synced, torn, rotated, sink, exposed, excused>>

AuditInit ==
  /\ clock = 0 /\ at = <<>> /\ active = <<>> /\ synced = 0 /\ torn = FALSE
  /\ rotated = {} /\ exposed = {} /\ excused = {}
  /\ sink = [up |-> FALSE, bytes |-> 0, dirty |-> FALSE, seq |-> 0, open |-> FALSE, run |-> 0]

ThisInterval == {n \in DOMAIN at : at[n] = clock}

(* _prune(): a file is as old as its newest record; one that is being      *)
(* written has no age.                                                     *)
Expired(f) == f.written \in DOMAIN at /\ at[f.written] + Retention < clock
Pruned(files) == {f \in files : ~Expired(f)}

(* The constructor: the size is seeded from the file, nothing is dirty.    *)
Started ==
  /\ ~sink.up /\ sink.run < MaxRuns
  /\ sink' = [up |-> TRUE, bytes |-> Len(active), dirty |-> FALSE, seq |-> 0,
              open |-> TRUE, run |-> sink.run + 1]
  /\ rotated' = Pruned(rotated)
  /\ UNCHANGED <<clock, at, active, synced, torn, exposed, excused>>

\* Mutant: the file is renamed as it is.
FlushedNever(lines) == synced
\* _rotate() flushes before it closes and renames.
FlushedFirst(lines) == Len(lines)

RotatedName == <<clock, sink.run, sink.seq>>

(* _rotate(): closed, renamed over whatever has that name, opened anew.    *)
Renamed(n, lines) ==
  {f \in rotated : f.name # RotatedName}
    \cup {[name |-> RotatedName, lines |-> lines, synced |-> FlushedFirst(lines), written |-> n]}
Rotated(n, lines) ==
  /\ rotated' = Pruned(Renamed(n, lines)) /\ active' = <<>> /\ synced' = 0
  /\ sink' = [sink EXCEPT !.bytes = 0, !.dirty = FALSE, !.seq = @ + 1]
(* ... or the renaming or the opening throws, and the file stays closed.   *)
RotationFails(n, lines) ==
  /\ \/ active' = lines /\ synced' = Len(lines) /\ UNCHANGED rotated
     \/ active' = <<>> /\ synced' = 0 /\ rotated' = Renamed(n, lines)
  /\ sink' = [sink EXCEPT !.bytes = @ + 1, !.dirty = FALSE, !.seq = @ + 1, !.open = FALSE]

(* append(): a line goes to the end of the file, be it the middle of a     *)
(* torn line; a full file is rotated at once.                              *)
Appends ==
  LET n == Len(at) + 1
      lines == IF torn THEN [active EXCEPT ![Len(active)] = [of |-> n, whole |-> FALSE]]
               ELSE Append(active, [of |-> n, whole |-> TRUE])
      full == sink.bytes + 1 >= MaxLines IN
  /\ sink.up /\ sink.open /\ n <= MaxRecords /\ at' = Append(at, clock)
  /\ torn' = FALSE /\ excused' = IF torn THEN excused \cup {n} ELSE excused
  /\ \/ ~full /\ active' = lines
        /\ sink' = [sink EXCEPT !.bytes = @ + 1, !.dirty = TRUE]
        /\ UNCHANGED <<synced, rotated, exposed>>
     \/ full /\ exposed' = {} /\ (Rotated(n, lines) \/ RotationFails(n, lines))
  /\ UNCHANGED clock
(* ... to a closed file it throws, and the caller logs that.               *)
AppendFails ==
  /\ sink.up /\ ~sink.open /\ Len(at) < MaxRecords
  /\ at' = Append(at, clock) /\ excused' = excused \cup {Len(at) + 1}
  /\ UNCHANGED <<clock, active, synced, torn, rotated, sink, exposed>>

(* _flush()                                                                *)
Flushed == /\ synced' = IF sink.dirty THEN Len(active) ELSE synced
           /\ exposed' = IF sink.dirty THEN {} ELSE exposed

(* An interval passes, and the flush timer fires.                          *)
Tick ==
  /\ clock < MaxClock /\ clock' = clock + 1
  /\ IF sink.up THEN Flushed /\ sink' = [sink EXCEPT !.dirty = FALSE]
     ELSE UNCHANGED <<synced, exposed, sink>>
  /\ UNCHANGED <<at, active, torn, rotated, excused>>

(* close()                                                                 *)
Closes ==
  /\ sink.up /\ Flushed /\ sink' = [sink EXCEPT !.up = FALSE, !.dirty = FALSE, !.open = FALSE]
  /\ UNCHANGED <<clock, at, active, torn, rotated, excused>>

(* The process dies: what it wrote is in the system's cache ...            *)
Killed ==
  /\ sink.up /\ sink' = [sink EXCEPT !.up = FALSE, !.dirty = FALSE, !.open = FALSE]
  /\ exposed' = IF sink.dirty THEN exposed \cup ThisInterval ELSE exposed
  /\ UNCHANGED <<clock, at, active, synced, torn, rotated, excused>>

(* ... or the power fails: of what was not synchronised any beginning is   *)
(* left, which may end in the middle of a line.                            *)
PowerLost ==
  \E k \in synced..Len(active), broken \in BOOLEAN :
    /\ at # <<>> /\ sink.run < MaxRuns /\ (broken => k < Len(active))
    /\ active' = SubSeq(active, 1, k)
         \o (IF broken THEN <<[of |-> active[k + 1].of, whole |-> FALSE]>> ELSE <<>>)
    /\ synced' = Len(active') /\ torn' = (broken \/ (torn /\ k = Len(active)))
    /\ rotated' = {[f EXCEPT !.lines = SubSeq(@, 1, f.synced)] : f \in rotated}
    /\ sink' = [sink EXCEPT !.up = FALSE, !.dirty = FALSE, !.open = FALSE]
    /\ excused' = excused \cup exposed \cup ThisInterval /\ exposed' = {}
    /\ UNCHANGED <<clock, at>>

AuditNext == Started \/ Appends \/ AppendFails \/ Tick \/ Closes \/ Killed \/ PowerLost
AuditSpec == AuditInit /\ [][AuditNext]_auditVars

-----------------------------------------------------------------------------
(* AuditReader: the active file, then the rotated ones by their times, the *)
(* newest first, until enough lines are read.                              *)
Sources ==
  <<active>> \o [i \in 1..Cardinality(rotated) |->
                   SetToSortSeq(rotated, LAMBDA f, g : f.written > g.written)[i].lines]
Whole(lines) ==
  LET whole == SelectSeq(lines, LAMBDA l : l.whole) IN [i \in DOMAIN whole |-> whole[i].of]
LastOf(seq, limit) == SubSeq(seq, IF Len(seq) > limit THEN Len(seq) - limit + 1 ELSE 1, Len(seq))
tail(limit) ==
  LET upTo(k) == FlattenSeq([i \in 1..k |-> Whole(Sources[k + 1 - i])])
      enough == {k \in DOMAIN Sources : Len(upTo(k)) >= limit}
  IN LastOf(upTo(IF enough = {} THEN Len(Sources) ELSE Min(enough)), limit)

(* What is in the files, in whatever order they are read.                  *)
Readable ==
  {n \in DOMAIN at : \E lines \in {active} \cup {f.lines : f \in rotated} :
     [of |-> n, whole |-> TRUE] \in ToSet(lines)}

AuditTypes ==
  /\ clock \in 0..MaxClock /\ at \in Seq(0..MaxClock) /\ synced \in 0..Len(active)
  /\ exposed \subseteq DOMAIN at /\ excused \subseteq DOMAIN at
  /\ sink.bytes \in 0..MaxRecords /\ sink.seq \in 0..MaxRecords

(* "power loss costs at most one interval of records" and nothing younger  *)
(* than the retention window is deleted: a record that is neither, nor was *)
(* given to a file the sink had lost or to a torn line, can be read.       *)
NothingForgotten ==
  \A n \in DOMAIN at : n \in Readable \cup excused \/ at[n] + Retention < clock

(* tail() returns the most recent records that can be read, oldest first.  *)
TailIsLatest ==
  \A limit \in 1..MaxRecords :
    tail(limit) = LastOf(SetToSortSeq(Readable, <), limit)
=============================================================================
