-------------------------- MODULE ConfigSyncProofs --------------------------
(***************************************************************************)
(* For any number of instances, writes, operations and faults: what counts *)
(* as applied is served, no part of a view loses a write, no stage goes    *)
(* back, and answers are served.                                           *)
(*                                                                         *)
(* The argument is about the holder of each write lock.  What it is to     *)
(* publish was read when the view held no more (Covers), because nobody    *)
(* else publishes at that instance meanwhile; so a publication only adds.  *)
(* A reload read every write up to its revision (Reads), so that revision  *)
(* may count as applied once both parts are published.  The stage it knows *)
(* of an operation is never ahead of the row and at most one behind the    *)
(* stage it runs (Stages), so a failed swap means that the row is at least *)
(* there; and its own operation is in the parts it has passed (Owns).      *)
(***************************************************************************)
EXTENDS ConfigSync, TLAPS


Plain == [job : Jobs, id : Writes \cup {"-"}, known : 0..Completed,
          pc : {"-", "pending", "barrier", "commit", "prices", "snapshot", "reprice",
                "republish", "run", "own"},
          seen : SUBSET Writes, got : Nat, todo : SUBSET (Operations \X (1..(Completed - 1))),
          cur : Operations \cup {"-"}, stage : 0..Completed, next : 0..Completed]

Types ==
    /\ rev \in Nat
    /\ at \in [Writes -> Nat]
    /\ row \in [Operations -> 0..Completed]
    /\ view \in [Instances -> [Parts -> SUBSET Writes]]
    /\ applied \in [Instances -> Nat]
    /\ run \in [Instances -> Plain]
    /\ answer \in [Operations -> [Instances -> {"-", "done", "replayed"}]]

\* An operation has a row only if it was committed.
Rows == \A o \in Operations : row[o] > 0 => at[o] > 0

\* No revision was applied or read that was not committed.
Bounds(i) == applied[i] <= rev /\ run[i].got <= rev

\* What is served was committed.
Stored(i) == \A p \in Parts : view[i][p] \subseteq Done

\* What the lock's holder is to publish is no less than what is served.
Covers(i) ==
    /\ run[i].pc = "commit" =>
         /\ run[i].id \in Writes /\ run[i].known = 0
         /\ run[i].id \notin Operations =>
              /\ run[i].seen \subseteq Done \cup {run[i].id}
              /\ \A p \in Parts : view[i][p] \subseteq run[i].seen
    /\ run[i].pc = "prices" => view[i]["prices"] \subseteq run[i].seen
    /\ run[i].pc \in {"prices", "snapshot", "reprice", "republish"} =>
         /\ view[i]["snapshot"] \subseteq run[i].seen
         /\ run[i].seen \subseteq Done

\* A reload has read every write up to its revision.
Reads(i) ==
    /\ run[i].got > 0 => run[i].job = "reload" /\ run[i].pc \in {"prices", "snapshot"}
    /\ \A w \in Writes : at[w] \in 1..run[i].got =>
         /\ w \in run[i].seen
         /\ run[i].pc = "snapshot" => w \in view[i]["prices"]

\* The rows it has read were not ahead of what they are.
Listed(i) == \A t \in run[i].todo : t[2] <= row[t[1]]

\* What the lock's holder knows of the operation it recovers.
Stages(i) ==
    run[i].pc \in {"run", "own"} =>
        /\ run[i].cur \in Operations /\ run[i].next \in 2..Completed
        /\ run[i].stage > 0 /\ run[i].stage + 1 >= run[i].next
        /\ run[i].stage <= row[run[i].cur]

\* What the lock's holder knows of the operation it was asked for.
Owns(i) ==
    /\ run[i].known > 0 =>
         run[i].id \in Operations /\ run[i].known <= row[run[i].id]
    /\ run[i].pc = "own" =>
         /\ run[i].cur = run[i].id
         /\ run[i].known = 0 =>
              /\ run[i].next > 2 => run[i].cur \in view[i]["prices"]
              /\ run[i].next > 3 => run[i].cur \in view[i]["snapshot"]

\* AppliedIsServed and AnswersAreServed at one instance.
Applied(i) ==
    \A p \in Parts, w \in Writes : at[w] \in 1..applied[i] => w \in view[i][p]
Answers(i) ==
    \A o \in Operations :
        /\ answer[o][i] # "-" => row[o] = Completed
        /\ answer[o][i] = "done" => \A p \in Parts : o \in view[i][p]

Local(i) ==
    /\ Bounds(i) /\ Stored(i) /\ Covers(i) /\ Reads(i) /\ Listed(i) /\ Stages(i) /\ Owns(i)
    /\ Applied(i) /\ Answers(i)

Inv == Types /\ Rows /\ \A i \in Instances : Local(i)

-----------------------------------------------------------------------------
(* What a step changes. *)

USE DEF Parts, Completed, Jobs, db, loops

LEMMA FreeType == Free \in Plain
  BY DEF Free, Plain

LEMMA FreeFields ==
  /\ Free.pc = "-" /\ Free.got = 0 /\ Free.known = 0 /\ Free.todo = {}
  BY DEF Free

\* Becomes sets the record of one instance.
LEMMA BecomesSets ==
  ASSUME Types, NEW i \in Instances, NEW r \in Plain, Becomes(i, r)
  PROVE  /\ run' \in [Instances -> Plain]
         /\ run'[i] = r
         /\ \A j \in Instances \ {i} : run'[j] = run[j]
  BY DEF Types, Becomes

\* Serve sets one part of one view.
LEMMA ServeSets ==
  ASSUME Types, NEW i \in Instances, NEW p \in Parts, NEW c \in SUBSET Writes, Serve(i, p, c)
  PROVE  /\ view' \in [Instances -> [Parts -> SUBSET Writes]]
         /\ view'[i][p] = c
         /\ \A q \in Parts : q # p => view'[i][q] = view[i][q]
         /\ \A j \in Instances \ {i} : view'[j] = view[j]
  BY Zenon DEF Types, Serve

\* What the database holds grows, and a commit has a new revision.
Grows ==
    /\ rev' >= rev
    /\ \A w \in Writes : at'[w] = at[w] \/ at'[w] > rev
    /\ \A o \in Operations : row'[o] >= row[o]

\* The other instances are not touched.
Alone(i) ==
    \A j \in Instances \ {i} :
        /\ view'[j] = view[j] /\ run'[j] = run[j] /\ applied'[j] = applied[j]
        /\ \A o \in Operations : answer'[o][j] = answer[o][j]

LEMMA DoneGrows ==
  ASSUME Types, Types', Grows
  PROVE  Done \subseteq Done' /\ Done' \subseteq Writes
<1>1. rev \in Nat /\ \A w \in Writes : at[w] \in Nat /\ at'[w] \in Nat
  BY Zenon DEF Types
<1>2. ASSUME NEW w \in Writes, at[w] > 0 PROVE at'[w] > 0
  <2>1. at'[w] = at[w] \/ at'[w] > rev
    BY Zenon DEF Grows
  <2> QED
    BY <1>1, <1>2, <2>1
<1> QED
  BY <1>2, Zenon DEF Done

LEMMA Fields ==
  ASSUME NEW r \in Plain
  PROVE  /\ r.id \in Writes \cup {"-"} /\ r.seen \in SUBSET Writes /\ r.got \in Nat
         /\ r.known \in 0..Completed /\ r.stage \in 0..Completed /\ r.next \in 0..Completed
         /\ \A t \in r.todo : t[1] \in Operations /\ t[2] \in 1..(Completed - 1)
  BY DEF Plain

\* Types of the database, in both states.
LEMMA DataTypes ==
  ASSUME Types, Types'
  PROVE  /\ rev \in Nat /\ rev' \in Nat
         /\ \A w \in Writes : at[w] \in Nat /\ at'[w] \in Nat
         /\ \A o \in Operations : row[o] \in 0..Completed /\ row'[o] \in 0..Completed
         /\ \A i \in Instances : applied[i] \in Nat /\ run[i] \in Plain /\ run'[i] \in Plain
  BY Zenon DEF Types

\* Writes up to a revision that was committed before the step.
LEMMA OldWrites ==
  ASSUME Types, Types', Grows, NEW n \in Nat, n <= rev, NEW w \in Writes, at'[w] \in 1..n
  PROVE  at[w] \in 1..n
<1>1. rev \in Nat /\ at[w] \in Nat /\ at'[w] \in Nat
  BY DataTypes
<1>2. at'[w] = at[w] \/ at'[w] > rev
  BY DEF Grows
<1> QED
  BY <1>1, <1>2

\* An instance that is not touched keeps its part of the invariant.
LEMMA OthersKeep ==
  ASSUME Types, Types', Grows, NEW i \in Instances, Alone(i), NEW j \in Instances \ {i}, Local(j)
  PROVE  Local(j)'
<1>1. view'[j] = view[j] /\ run'[j] = run[j] /\ applied'[j] = applied[j]
  BY DEF Alone
<1>2. \A o \in Operations : answer'[o][j] = answer[o][j]
  BY DEF Alone
<1>3. Done \subseteq Done'
  BY DoneGrows
<1>4. Bounds(j) /\ Stored(j) /\ Covers(j) /\ Reads(j) /\ Listed(j) /\ Stages(j) /\ Owns(j)
      /\ Applied(j) /\ Answers(j)
  BY DEF Local
<1>5. /\ run[j].id \in Writes \cup {"-"} /\ run[j].got \in Nat /\ run[j].known \in 0..Completed
      /\ run[j].stage \in 0..Completed /\ applied[j] \in Nat
      /\ \A t \in run[j].todo : t[1] \in Operations /\ t[2] \in 1..(Completed - 1)
  BY DataTypes, Fields, Zenon
<1>6. /\ rev \in Nat /\ rev' \in Nat /\ rev' >= rev
      /\ \A o \in Operations : row[o] \in 0..Completed /\ row'[o] \in 0..Completed /\ row'[o] >= row[o]
  BY DataTypes, Zenon DEF Grows
<1>7. Bounds(j)'
  BY <1>1, <1>4, <1>5, <1>6 DEF Bounds
<1>8. Stored(j)'
  BY <1>1, <1>3, <1>4, Zenon DEF Stored
<1>9. Covers(j)'
  BY <1>1, <1>3, <1>4, Zenon DEF Covers
<1>10. Reads(j)'
  <2>1. \A w \in Writes : at'[w] \in 1..run[j].got => at[w] \in 1..run[j].got
    BY OldWrites, <1>4, <1>5, Zenon DEF Bounds
  <2> QED
    BY <1>1, <1>4, <2>1, Zenon DEF Reads
<1>15. Listed(j)'
  BY <1>1, <1>4, <1>5, <1>6 DEF Listed
<1>11. Stages(j)'
  BY <1>1, <1>4, <1>5, <1>6 DEF Stages
<1>12. Owns(j)'
  BY <1>1, <1>4, <1>5, <1>6 DEF Owns
<1>13. Applied(j)'
  <2>1. \A w \in Writes : at'[w] \in 1..applied[j] => at[w] \in 1..applied[j]
    BY OldWrites, <1>4, <1>5, Zenon DEF Bounds
  <2> QED
    BY <1>1, <1>4, <2>1, Zenon DEF Applied
<1>14. Answers(j)'
  BY <1>1, <1>2, <1>4, <1>6 DEF Answers
<1> QED
  BY <1>7, <1>8, <1>9, <1>10, <1>11, <1>12, <1>13, <1>14, <1>15, Zenon DEF Local

\* What does not depend on the lock's holder, at the instance that moves.
LEMMA SelfKeeps ==
  ASSUME Types, Types', Grows, NEW i \in Instances, Local(i),
         \A p \in Parts : view[i][p] \subseteq view'[i][p] /\ view'[i][p] \subseteq Done',
         applied'[i] = applied[i]
  PROVE  Stored(i)' /\ Applied(i)' /\ applied'[i] <= rev'
<1>1. \A w \in Writes : at'[w] \in 1..applied[i] => at[w] \in 1..applied[i]
  BY OldWrites, DataTypes, Zenon DEF Local, Bounds
<1>2. Applied(i)'
  BY <1>1, Zenon DEF Local, Applied
<1>3. applied'[i] <= rev'
  BY DataTypes DEF Local, Bounds, Grows
<1> QED
  BY <1>2, <1>3, Zenon DEF Stored

\* Answers stay true while no answer is given.
LEMMA AnswersKeep ==
  ASSUME Types, Types', Grows, NEW i \in Instances, Local(i),
         \A p \in Parts : view[i][p] \subseteq view'[i][p],
         \A o \in Operations : answer'[o][i] = answer[o][i]
  PROVE  Answers(i)'
<1>1. \A o \in Operations : row[o] \in 0..Completed /\ row'[o] \in 0..Completed /\ row'[o] >= row[o]
  BY DataTypes, Zenon DEF Grows
<1> QED
  BY <1>1 DEF Local, Answers

\* A holder that gives the lock back leaves nothing to keep.
LEMMA FreeKeeps ==
  ASSUME Types', Grows, NEW i \in Instances, run'[i] = Free
  PROVE  run'[i].got <= rev' /\ Covers(i)' /\ Reads(i)' /\ Listed(i)' /\ Stages(i)' /\ Owns(i)'
<1>1. rev' \in Nat /\ \A w \in Writes : at'[w] \in Nat
  BY DEF Types
<1> QED
  BY <1>1, FreeFields DEF Covers, Reads, Listed, Stages, Owns

-----------------------------------------------------------------------------
(* Kinds of steps. *)

\* No part of the view of i loses a write.
Widens(i) == \A p \in Parts : view[i][p] \subseteq view'[i][p]

\* What a step at i keeps, besides what depends on the lock's holder.
Base(i) ==
    /\ Types' /\ Grows /\ Alone(i) /\ Rows' /\ Widens(i)
    /\ Stored(i)' /\ Applied(i)' /\ applied'[i] <= rev'

Good(i) == Base(i) /\ Local(i)'

\* The holder's part of the invariant, and the answers.
Rest(i) ==
    /\ run[i].got <= rev /\ Covers(i) /\ Reads(i) /\ Listed(i) /\ Stages(i) /\ Owns(i)
    /\ Answers(i)

LEMMA GoodParts ==
  ASSUME NEW i \in Instances, Base(i), Rest(i)'
  PROVE  Good(i)
  BY DEF Good, Base, Rest, Local, Bounds

LEMMA LocalParts ==
  ASSUME NEW i \in Instances, Local(i)
  PROVE  /\ Bounds(i) /\ Stored(i) /\ Covers(i) /\ Reads(i) /\ Listed(i) /\ Stages(i)
         /\ Owns(i) /\ Applied(i) /\ Answers(i)
  BY DEF Local

LEMMA BaseTypes ==
  ASSUME NEW i \in Instances, Base(i)
  PROVE  Types' /\ Grows
  BY DEF Base

LEMMA RestParts ==
  ASSUME NEW i \in Instances, run'[i].got <= rev', Covers(i)', Reads(i)', Listed(i)',
         Stages(i)', Owns(i)', Answers(i)'
  PROVE  Rest(i)'
  BY DEF Rest

\* A holder that is not publishing for a reload has no revision to apply.
LEMMA NoRevision ==
  ASSUME Types, NEW i \in Instances, Local(i),
         run[i].job # "reload" \/ run[i].pc \notin {"prices", "snapshot"}
  PROVE  run[i].got = 0
<1>1. run[i].got \in Nat
  <2>1. run[i] \in Plain
    BY DEF Types
  <2> QED
    BY <2>1, Fields, Zenon
<1>2. Reads(i)
  BY LocalParts
<1>3. run[i].got > 0 => run[i].job = "reload" /\ run[i].pc \in {"prices", "snapshot"}
  BY <1>2, Zenon DEF Reads
<1> QED
  BY <1>1, <1>3

LEMMA NothingRead ==
  ASSUME Types', NEW i \in Instances, run'[i].got = 0
  PROVE  Reads(i)' /\ run'[i].got <= rev'
<1>1. rev' \in Nat /\ \A w \in Writes : at'[w] \notin 1..0
  BY DEF Types
<1> QED
  BY <1>1 DEF Reads

\* The rows read before are no further ahead of what they are now.
LEMMA ListedKeeps ==
  ASSUME Types, Types', Grows, NEW i \in Instances, Local(i), run'[i].todo \subseteq run[i].todo
  PROVE  Listed(i)'
<1>1. run[i] \in Plain
  BY Zenon DEF Types
<1>2. Listed(i)
  BY LocalParts
<1> SUFFICES ASSUME NEW t \in run'[i].todo
             PROVE  t[2] <= row'[t[1]]
  BY DEF Listed
<1>3. t[1] \in Operations /\ t[2] \in 1..(Completed - 1)
  BY <1>1, Fields, Zenon
<1>4. t[2] <= row[t[1]]
  BY <1>2, Zenon DEF Listed
<1>5. row[t[1]] \in 0..Completed /\ row'[t[1]] \in 0..Completed
  BY <1>3, DataTypes, Zenon
<1>6. row'[t[1]] >= row[t[1]]
  BY <1>3, Zenon DEF Grows
<1> QED
  BY <1>3, <1>4, <1>5, <1>6

\* The stage known of the holder's own operation is no further ahead either.
LEMMA OwnsKeeps ==
  ASSUME Types, Types', Grows, NEW i \in Instances, Local(i), run'[i].pc # "own",
         run'[i].known = run[i].known, run'[i].id = run[i].id
  PROVE  Owns(i)'
<1>1. run[i] \in Plain
  BY Zenon DEF Types
<1>2. run[i].known \in 0..Completed
  BY <1>1, Fields, Zenon
<1>3. Owns(i)
  BY LocalParts, Zenon
<1>4. ASSUME run[i].known > 0
      PROVE  run[i].id \in Operations /\ run[i].known <= row'[run[i].id]
  <2>1. run[i].id \in Operations /\ run[i].known <= row[run[i].id]
    BY <1>3, <1>4, Zenon DEF Owns
  <2>2. row[run[i].id] \in 0..Completed /\ row'[run[i].id] \in 0..Completed
    BY <2>1, DataTypes, Zenon
  <2>3. row'[run[i].id] >= row[run[i].id]
    BY <2>1, Zenon DEF Grows
  <2> QED
    BY <1>2, <2>1, <2>2, <2>3
<1> QED
  BY <1>4, Zenon DEF Owns

\* Only the holder's record changes.
LEMMA QuietStep ==
  ASSUME Inv, NEW i \in Instances, NEW r \in Plain, Becomes(i, r),
         UNCHANGED <<rev, at, row, view, applied, answer>>
  PROVE  Base(i) /\ Answers(i)' /\ run'[i] = r
<1>1. Types /\ Local(i) /\ Rows
  BY DEF Inv
<1>2. run' \in [Instances -> Plain] /\ run'[i] = r /\ \A j \in Instances \ {i} : run'[j] = run[j]
  BY <1>1, BecomesSets, Zenon
<1>3. Types'
  BY <1>1, <1>2, Zenon DEF Types
<1>4. Grows
  BY <1>1, DataTypes, <1>3 DEF Grows
<1>5. Alone(i)
  BY <1>2 DEF Alone
<1>6. Done' = Done
  BY DEF Done
<1>7. Stored(i)' /\ Applied(i)' /\ applied'[i] <= rev'
  BY <1>1, <1>6, Zenon DEF Local, Stored, Applied, Bounds
<1>8. Rows' /\ Widens(i) /\ Answers(i)'
  BY <1>1, Zenon DEF Rows, Widens, Local, Answers
<1> QED
  BY <1>2, <1>3, <1>4, <1>5, <1>7, <1>8, Zenon DEF Base

\* The holder gives the lock back and nothing else changes.
LEMMA QuietEnd ==
  ASSUME Inv, NEW i \in Instances, Becomes(i, Free),
         UNCHANGED <<rev, at, row, view, applied, answer>>
  PROVE  Good(i)
<1>1. Base(i) /\ Answers(i)' /\ run'[i] = Free
  BY QuietStep, FreeType, Zenon
<1>2. Rest(i)'
  BY <1>1, FreeKeeps, Zenon DEF Base, Rest
<1> QED
  BY <1>1, <1>2, GoodParts, Zenon

\* One part is published: it is no less than what was served, and committed.
LEMMA ServeStep ==
  ASSUME Inv, NEW i \in Instances, NEW r \in Plain, Becomes(i, r),
         NEW p \in Parts, NEW c \in SUBSET Writes, Serve(i, p, c),
         view[i][p] \subseteq c, c \subseteq Done,
         UNCHANGED <<rev, at, row, applied, answer>>
  PROVE  /\ Base(i) /\ Answers(i)' /\ run'[i] = r
         /\ view'[i][p] = c /\ \A q \in Parts : q # p => view'[i][q] = view[i][q]
<1>1. Types /\ Local(i) /\ Rows
  BY DEF Inv
<1>2. run' \in [Instances -> Plain] /\ run'[i] = r /\ \A j \in Instances \ {i} : run'[j] = run[j]
  BY <1>1, BecomesSets, Zenon
<1>3. /\ view' \in [Instances -> [Parts -> SUBSET Writes]]
      /\ view'[i][p] = c
      /\ \A q \in Parts : q # p => view'[i][q] = view[i][q]
      /\ \A j \in Instances \ {i} : view'[j] = view[j]
  BY <1>1, ServeSets
<1>4. Types'
  BY <1>1, <1>2, <1>3, Zenon DEF Types
<1>5. Grows
  BY <1>1, DataTypes, <1>4 DEF Grows
<1>6. Alone(i)
  BY <1>2, <1>3, Zenon DEF Alone
<1>7. Done' = Done
  BY DEF Done
<1>8. \A q \in Parts : view[i][q] \subseteq view'[i][q] /\ view'[i][q] \subseteq Done'
  BY <1>1, <1>3, <1>7, Zenon DEF Local, Stored
<1>9. Stored(i)' /\ Applied(i)' /\ applied'[i] <= rev' /\ Answers(i)'
  BY <1>1, <1>4, <1>5, <1>8, SelfKeeps, AnswersKeep, Zenon
<1>10. Rows' /\ Widens(i)
  BY <1>1, <1>8, Zenon DEF Rows, Widens
<1> QED
  BY <1>2, <1>3, <1>4, <1>5, <1>6, <1>9, <1>10, Zenon DEF Base

\* One write is committed.
LEMMA CommitStep ==
  ASSUME Inv, NEW i \in Instances, NEW w \in Writes, w \in Operations => row[w] = 0, Committed(w),
         run' \in [Instances -> Plain], \A j \in Instances \ {i} : run'[j] = run[j],
         UNCHANGED <<view, applied, answer>>
  PROVE  /\ Base(i) /\ Answers(i)' /\ Done' = Done \cup {w} /\ rev' = rev + 1
         /\ w \in Operations => row'[w] = 1
<1>1. Types /\ Local(i) /\ Rows
  BY DEF Inv
<1>2. /\ rev \in Nat /\ rev' = rev + 1 /\ at \in [Writes -> Nat]
      /\ at' = [at EXCEPT ![w] = rev + 1] /\ row \in [Operations -> 0..Completed]
      /\ row' = IF w \in Operations THEN [row EXCEPT ![w] = 1] ELSE row
  BY <1>1, Zenon DEF Types, Committed
<1>3. Types'
  BY <1>1, <1>2 DEF Types
<1>4. Grows
  BY <1>2 DEF Grows
<1>5. Alone(i)
  BY DEF Alone
<1>6. Done' = Done \cup {w}
  BY <1>2 DEF Done
<1>7. Rows'
  BY <1>1, <1>2 DEF Rows
<1>8. \A p \in Parts : view[i][p] \subseteq view'[i][p] /\ view'[i][p] \subseteq Done'
  BY <1>1, <1>6, Zenon DEF Local, Stored
<1>9. Stored(i)' /\ Applied(i)' /\ applied'[i] <= rev' /\ Answers(i)'
  BY <1>1, <1>3, <1>4, <1>8, SelfKeeps, AnswersKeep, Zenon
<1> QED
  BY <1>2, <1>3, <1>4, <1>5, <1>6, <1>7, <1>8, <1>9, Zenon DEF Base, Widens

-----------------------------------------------------------------------------
(* The actions. *)

LEMMA PendingSteps ==
  ASSUME Inv, NEW i \in Instances, ReadPending(i) \/ StartDrain(i) \/ EndDrain(i)
  PROVE  Good(i)
<1>1. Types /\ Local(i) /\ run[i] \in Plain
  BY Zenon DEF Inv, Types
<1>2. CASE ReadPending(i)
  <2>0. PICK t \in Earlier(i) : Becomes(i, [run[i] EXCEPT !.pc = "barrier", !.todo = t])
    BY <1>2, Zenon DEF ReadPending
  <2> DEFINE r == [run[i] EXCEPT !.pc = "barrier", !.todo = t]
  <2>1. t \subseteq Pending /\ t \in SUBSET (Operations \X (1..(Completed - 1)))
    <3>1. t \subseteq Pending
      BY Zenon DEF Earlier
    <3>2. Pending \subseteq Operations \X (1..(Completed - 1))
      BY DEF Pending
    <3> QED
      BY <3>1, <3>2, Zenon
  <2>2. /\ r \in Plain /\ r.pc = "barrier" /\ r.got = run[i].got
        /\ r.known = run[i].known /\ r.id = run[i].id /\ r.todo = t
    BY <1>1, <2>1, Zenon DEF Plain
  <2>3. Becomes(i, r) /\ UNCHANGED <<rev, at, row, view, applied, answer>> /\ run[i].pc = "pending"
    BY <1>2, <2>0, Zenon DEF ReadPending, At
  <2> HIDE DEF r
  <2>4. Base(i) /\ Answers(i)' /\ run'[i] = r
    BY <2>2, <2>3, QuietStep, Zenon
  <2>5. r.got = 0
    BY <1>1, <2>2, <2>3, NoRevision, Zenon
  <2>6. Listed(i)'
    <3>1. \A x \in t : x[1] \in Operations /\ x[2] = row[x[1]] /\ row[x[1]] \in 0..Completed
      BY <2>1 DEF Pending
    <3>2. row' = row
      BY <2>3
    <3> QED
      BY <2>2, <2>4, <3>1, <3>2 DEF Listed
  <2>7. Reads(i)' /\ run'[i].got <= rev' /\ Owns(i)'
    BY <1>1, <2>2, <2>4, <2>5, BaseTypes, NothingRead, OwnsKeeps, Zenon
  <2>8. Covers(i)' /\ Stages(i)'
    BY <2>2, <2>4, Zenon DEF Covers, Stages
  <2>9. Rest(i)'
    BY <2>4, <2>6, <2>7, <2>8, RestParts, Zenon
  <2> QED
    BY <2>4, <2>9, GoodParts, Zenon
<1>3. CASE StartDrain(i)
  <2> DEFINE r == [Free EXCEPT !.job = "drain", !.pc = "pending"]
  <2>1. r \in Plain /\ r.pc = "pending" /\ r.got = 0 /\ r.known = 0 /\ r.todo = {}
    BY FreeType, Zenon DEF Free, Plain
  <2>2. Becomes(i, r) /\ UNCHANGED <<rev, at, row, view, applied, answer>>
    BY <1>3 DEF StartDrain
  <2> HIDE DEF r
  <2>3. Base(i) /\ Answers(i)' /\ run'[i] = r
    BY <2>1, <2>2, QuietStep, Zenon
  <2>4. Rest(i)'
    BY <2>1, <2>3 DEF Rest, Covers, Reads, Listed, Stages, Owns, Base, Types
  <2> QED
    BY <2>3, <2>4, GoodParts, Zenon
<1>4. CASE EndDrain(i)
  BY <1>4, QuietEnd, Zenon DEF EndDrain
<1> QED
  BY <1>2, <1>3, <1>4, Zenon

LEMMA StartRecoveryStep ==
  ASSUME Inv, NEW i \in Instances, StartRecovery(i)
  PROVE  Good(i)
<1>1. Types /\ Local(i) /\ run[i] \in Plain
  BY Zenon DEF Inv, Types
<1>2. PICK t \in run[i].todo :
         Becomes(i, Recovering([run[i] EXCEPT !.todo = run[i].todo \ {t}], "run", t[1], t[2]))
  BY Zenon DEF StartRecovery
<1> DEFINE r == Recovering([run[i] EXCEPT !.todo = run[i].todo \ {t}], "run", t[1], t[2])
<1>3. t[1] \in Operations /\ t[2] \in 1..(Completed - 1) /\ t[2] <= row[t[1]]
  BY <1>1, Fields, Zenon DEF Local, Listed
<1>4. /\ r \in Plain /\ r.pc = "run" /\ r.got = run[i].got /\ r.known = run[i].known
      /\ r.id = run[i].id /\ r.todo = run[i].todo \ {t}
      /\ r.cur = t[1] /\ r.stage = t[2] /\ r.next = t[2] + 1
  <2> DEFINE o == t[1]
             n == t[2]
             m == t[2] + 1
  <2>1. o \in Operations /\ n \in 0..Completed /\ m \in 0..Completed
    BY <1>3
  <2>2. r = [run[i] EXCEPT !.todo = run[i].todo \ {t}, !.pc = "run", !.cur = o,
                           !.stage = n, !.next = m]
    BY <1>1, Zenon DEF Recovering, Plain
  <2> HIDE DEF o, n, m, r
  <2>3. /\ r \in Plain /\ r.pc = "run" /\ r.got = run[i].got /\ r.known = run[i].known
        /\ r.id = run[i].id /\ r.todo = run[i].todo \ {t} /\ r.cur = o /\ r.stage = n /\ r.next = m
    BY <1>1, <2>1, <2>2, Zenon DEF Plain
  <2> QED
    BY <2>3, Zenon DEF o, n, m
<1> HIDE DEF r
<1>5. UNCHANGED <<rev, at, row, view, applied, answer>> /\ run[i].pc = "barrier"
  BY Zenon DEF StartRecovery, At
<1>6. Base(i) /\ Answers(i)' /\ run'[i] = r
  BY <1>2, <1>4, <1>5, QuietStep, Zenon DEF r
<1>7. r.got = 0
  BY <1>1, <1>4, <1>5, NoRevision, Zenon
<1>8. /\ Reads(i)' /\ run'[i].got <= rev'
      /\ Listed(i)' /\ Owns(i)'
  BY <1>1, <1>4, <1>6, <1>7, BaseTypes, NothingRead, ListedKeeps, OwnsKeeps, Zenon
<1>9. Covers(i)' /\ Stages(i)'
  BY <1>3, <1>4, <1>5, <1>6 DEF Covers, Stages
<1>10. Rest(i)'
  BY <1>6, <1>8, <1>9, RestParts, Zenon
<1> QED
  BY <1>6, <1>10, GoodParts, Zenon

LEMMA StartWriteStep ==
  ASSUME Inv, NEW i \in Instances, NEW w \in Writes, StartWrite(i, w)
  PROVE  Good(i)
<1> DEFINE k == IF w \in Operations THEN row[w] ELSE 0
           r == [Free EXCEPT !.job = "write", !.id = w, !.pc = "pending", !.known = k]
<1>1. k \in 0..Completed /\ (k > 0 => w \in Operations /\ k <= row[w])
  BY DEF Inv, Types
<1>2. Becomes(i, r) /\ UNCHANGED <<rev, at, row, view, applied, answer>>
  BY DEF StartWrite
<1> HIDE DEF k
<1>3. /\ r \in Plain /\ r.pc = "pending" /\ r.got = 0 /\ r.todo = {} /\ r.known = k /\ r.id = w
  BY <1>1, FreeType, Zenon DEF Free, Plain
<1> HIDE DEF r
<1>4. Base(i) /\ Answers(i)' /\ run'[i] = r
  BY <1>2, <1>3, QuietStep, Zenon
<1>5. Rest(i)'
  BY <1>1, <1>2, <1>3, <1>4 DEF Rest, Covers, Reads, Listed, Stages, Owns, Base, Types
<1> QED
  BY <1>4, <1>5, GoodParts, Zenon

LEMMA BuildStep ==
  ASSUME Inv, NEW i \in Instances, Build(i)
  PROVE  Good(i)
<1>1. Types /\ Local(i) /\ run[i] \in Plain /\ run[i].id \in Writes
  BY Fields, Zenon DEF Inv, Types, Build
<1> DEFINE c == IF run[i].id \in Operations THEN {} ELSE Built(i)
           r == [run[i] EXCEPT !.pc = "commit", !.seen = c]
<1>2. c \in SUBSET Writes /\ (run[i].id \notin Operations => c = Done \cup {run[i].id})
  BY <1>1, Zenon DEF Built, Done
<1>3. /\ Becomes(i, r) /\ UNCHANGED <<rev, at, row, view, applied, answer>>
      /\ run[i].pc = "barrier" /\ run[i].known = 0 /\ run[i].todo = {}
  BY DEF Build, Passed, At
<1> HIDE DEF c
<1>4. /\ r \in Plain /\ r.pc = "commit" /\ r.got = run[i].got /\ r.todo = run[i].todo
      /\ r.known = run[i].known /\ r.id = run[i].id /\ r.seen = c
  BY <1>1, <1>2, Zenon DEF Plain
<1> HIDE DEF r
<1>5. Base(i) /\ Answers(i)' /\ run'[i] = r
  BY <1>3, <1>4, QuietStep, Zenon
<1>6. r.got = 0
  BY <1>1, <1>3, <1>4, Fields DEF Local, Reads
<1>7. Done' = Done /\ view' = view
  BY <1>3, Zenon DEF Done
<1>8. Covers(i)'
  BY <1>1, <1>2, <1>3, <1>4, <1>5, <1>7, Zenon DEF Covers, Local, Stored
<1>9. Rest(i)'
  BY <1>3, <1>4, <1>5, <1>6, <1>8 DEF Rest, Reads, Listed, Stages, Owns, Base, Types
<1> QED
  BY <1>5, <1>9, GoodParts, Zenon

\* A row that is complete is the answer; another is recovered.
LEMMA ReplayStep ==
  ASSUME Inv, NEW i \in Instances, NEW n \in 1..Completed, Replay(i, n),
         run[i].id \in Operations, n <= row[run[i].id], run[i].pc \in {"barrier", "commit"}
  PROVE  Good(i)
<1>1. Types /\ Local(i) /\ run[i] \in Plain /\ row[run[i].id] \in 0..Completed
  BY Zenon DEF Inv, Types
<1>2. CASE n = Completed
  <2> DEFINE w == run[i].id
  <2>1. /\ Becomes(i, Free) /\ UNCHANGED <<rev, at, row, view, applied>>
        /\ answer' = [answer EXCEPT ![w][i] = "replayed"] /\ row[w] = Completed
    BY <1>1, <1>2 DEF Replay
  <2> HIDE DEF w
  <2>2. /\ run' \in [Instances -> Plain] /\ run'[i] = Free
        /\ \A j \in Instances \ {i} : run'[j] = run[j]
    BY <1>1, <2>1, FreeType, BecomesSets, Zenon
  <2>3. /\ answer' \in [Operations -> [Instances -> {"-", "done", "replayed"}]]
        /\ \A o \in Operations, j \in Instances :
             answer'[o][j] = IF o = w /\ j = i THEN "replayed" ELSE answer[o][j]
    BY <1>1, <2>1, Zenon DEF Types, w
  <2>4. Types'
    BY <1>1, <2>1, <2>2, <2>3, Zenon DEF Types
  <2>5. Grows
    BY <1>1, <2>1, <2>4, DataTypes DEF Grows
  <2>6. Alone(i)
    BY <2>1, <2>2 DEF Alone
  <2>7. Done' = Done
    BY <2>1, Zenon DEF Done
  <2>8. Base(i)
    <3>1. Rows'
      BY <2>1, Zenon DEF Inv, Rows
    <3>2. Stored(i)' /\ Applied(i)' /\ applied'[i] <= rev' /\ Widens(i)
      BY <1>1, <2>1, <2>7, Zenon DEF Local, Stored, Applied, Bounds, Widens
    <3> QED
      BY <2>4, <2>5, <2>6, <3>1, <3>2, Zenon DEF Base
  <2>9. Answers(i)'
    BY <1>1, <2>1 DEF Answers, Local
  <2>10. Rest(i)'
    BY <2>2, <2>4, <2>5, <2>9, FreeKeeps, Zenon DEF Rest
  <2> QED
    BY <2>8, <2>10, GoodParts, Zenon
<1>3. CASE n # Completed
  <2> DEFINE k == 1
             l == n
             m == n + 1
             w == run[i].id
             r == Recovering([run[i] EXCEPT !.known = 1], "own", run[i].id, n)
  <2>1. k \in 0..Completed /\ l \in 0..Completed /\ m \in 0..Completed /\ w \in Operations
    BY <1>3
  <2>2. /\ Becomes(i, r) /\ UNCHANGED <<rev, at, row, view, applied, answer>>
    BY <1>3, Zenon DEF Replay
  <2>3. r = [run[i] EXCEPT !.known = k, !.pc = "own", !.cur = w, !.stage = l, !.next = m]
    BY <1>1, Zenon DEF Recovering, Plain
  <2> HIDE DEF k, l, m, w, r
  <2>4. /\ r \in Plain /\ r.pc = "own" /\ r.got = run[i].got /\ r.known = k
        /\ r.id = run[i].id /\ r.todo = run[i].todo /\ r.cur = w /\ r.stage = l /\ r.next = m
    BY <1>1, <2>1, <2>3, Zenon DEF Plain
  <2>5. Base(i) /\ Answers(i)' /\ run'[i] = r
    BY <2>2, <2>4, QuietStep, Zenon
  <2>6. r.got = 0
    BY <1>1, <2>4, Fields DEF Local, Reads
  <2>7. Listed(i)'
    BY <1>1, <2>2, <2>4, <2>5, Zenon DEF Listed, Local
  <2>8. Stages(i)'
    BY <2>1, <2>2, <2>4, <2>5 DEF Stages, l, m, w
  <2>9. Owns(i)'
    BY <1>1, <2>2, <2>4, <2>5 DEF Owns, k, w
  <2>10. Rest(i)'
    <3>1. Covers(i)'
      BY <2>4, <2>5, Zenon DEF Covers
    <3>2. Reads(i)' /\ run'[i].got <= rev'
      BY <2>5, <2>6, BaseTypes, NothingRead, Zenon
    <3> QED
      BY <2>5, <2>7, <2>8, <2>9, <3>1, <3>2, RestParts, Zenon
  <2> QED
    BY <2>5, <2>10, GoodParts, Zenon
<1> QED
  BY <1>2, <1>3, Zenon

LEMMA ReplaySteps ==
  ASSUME Inv, NEW i \in Instances, ReplayKnown(i) \/ ReplayFound(i)
  PROVE  Good(i)
<1>1. Types /\ Local(i) /\ run[i] \in Plain
  BY Zenon DEF Inv, Types
<1>2. CASE ReplayKnown(i)
  <2>1. /\ run[i].known \in 1..Completed /\ run[i].id \in Operations
        /\ run[i].known <= row[run[i].id] /\ run[i].pc = "barrier"
    <3>1. run[i].known > 0 /\ run[i].pc = "barrier" /\ run[i].known \in 0..Completed
      BY <1>1, <1>2, Fields, Zenon DEF ReplayKnown, Passed, At
    <3>2. run[i].id \in Operations /\ run[i].known <= row[run[i].id]
      BY <1>1, <3>1, Zenon DEF Local, Owns
    <3>3. run[i].known \in 1..Completed
      BY <3>1
    <3> QED
      BY <3>1, <3>2, <3>3, Zenon
  <2> QED
    BY <1>2, <2>1, ReplayStep, Zenon DEF ReplayKnown
<1>3. CASE ReplayFound(i)
  <2>1. /\ run[i].id \in Operations /\ row[run[i].id] \in 1..Completed
        /\ row[run[i].id] <= row[run[i].id] /\ run[i].pc = "commit"
    BY <1>1, <1>3 DEF ReplayFound, HasRow, At, Types
  <2> QED
    BY <1>3, <2>1, ReplayStep, Zenon DEF ReplayFound
<1> QED
  BY <1>2, <1>3, Zenon

\* A transaction that finds no row of its operation.
LEMMA CommitReady ==
  ASSUME Inv, NEW i \in Instances, At(i, "commit"), ~HasRow(run[i].id)
  PROVE  /\ run[i].id \in Writes /\ run[i].pc = "commit" /\ run[i].known = 0
         /\ run[i].id \in Operations => row[run[i].id] = 0
<1>1. Types /\ Local(i)
  BY DEF Inv
<1>2. run[i].pc = "commit"
  BY DEF At
<1>3. run[i].id \in Writes /\ run[i].known = 0
  BY <1>1, <1>2, Zenon DEF Local, Covers
<1>4. run[i].id \in Operations => row[run[i].id] \in 0..Completed
  BY <1>1, Zenon DEF Types
<1> QED
  BY <1>2, <1>3, <1>4 DEF HasRow

LEMMA CommitActionStep ==
  ASSUME Inv, NEW i \in Instances, Commit(i)
  PROVE  Good(i)
<1> DEFINE w == run[i].id
<1>1. Types /\ Local(i) /\ run[i] \in Plain
  BY Zenon DEF Inv, Types
<1>2. /\ w \in Writes /\ run[i].pc = "commit" /\ run[i].known = 0
      /\ w \in Operations => row[w] = 0
  BY <1>1, CommitReady, Zenon DEF Commit
<1>3. Committed(w) /\ UNCHANGED <<view, applied, answer>>
  <2>1. applied' = [applied EXCEPT ![i] = applied[i]]
    BY DEF Commit, Commits, Credited
  <2>2. applied' = applied
    BY <1>1, <2>1, Zenon DEF Types
  <2> QED
    BY <2>2, Zenon DEF Commit, Commits
<1>4. run[i].got = 0
  BY <1>1, <1>2, NoRevision, Zenon
<1>5. CASE w \in Operations
  <2> DEFINE l == 1
             m == l + 1
             r == Recovering(run[i], "own", run[i].id, 1)
  <2>1. Becomes(i, r)
    BY <1>5, Zenon DEF Commit
  <2>2. l \in 0..Completed /\ m \in 0..Completed
    OBVIOUS
  <2>3. r = [run[i] EXCEPT !.pc = "own", !.cur = w, !.stage = l, !.next = m]
    BY DEF Recovering
  <2> HIDE DEF l, m, r
  <2>4. /\ r \in Plain /\ r.pc = "own" /\ r.got = run[i].got /\ r.known = run[i].known
        /\ r.id = w /\ r.todo = run[i].todo /\ r.cur = w /\ r.stage = l /\ r.next = m
    BY <1>1, <1>5, <2>2, <2>3, Zenon DEF Plain
  <2>5. /\ run' \in [Instances -> Plain] /\ run'[i] = r
        /\ \A j \in Instances \ {i} : run'[j] = run[j]
    BY <1>1, <2>1, <2>4, BecomesSets, Zenon
  <2> HIDE DEF w
  <2>6. Base(i) /\ Answers(i)' /\ row'[w] = 1
    BY <1>2, <1>3, <1>5, <2>5, CommitStep, Zenon
  <2>7. Listed(i)'
    <3>1. \A t \in run[i].todo : t[1] \in Operations /\ t[2] \in 1..(Completed - 1)
      BY <1>1, Fields, Zenon
    <3>2. \A t \in run[i].todo : t[2] <= row[t[1]] /\ row[t[1]] <= row'[t[1]]
      BY <1>1, <2>6, <3>1, Zenon DEF Local, Listed, Base, Grows
    <3>3. \A o \in Operations : row[o] \in 0..Completed /\ row'[o] \in 0..Completed
      BY <1>1, <2>6, DataTypes, Zenon DEF Base
    <3> QED
      BY <2>4, <2>5, <3>1, <3>2, <3>3 DEF Listed
  <2>8. Stages(i)' /\ Owns(i)'
    BY <1>2, <1>5, <2>4, <2>5, <2>6 DEF Stages, Owns, l, m
  <2>9. Reads(i)' /\ run'[i].got <= rev' /\ Covers(i)'
    <3>1. Reads(i)' /\ run'[i].got <= rev'
      BY <1>4, <2>4, <2>5, <2>6, BaseTypes, NothingRead, Zenon
    <3>2. Covers(i)'
      BY <2>4, <2>5, Zenon DEF Covers
    <3> QED
      BY <3>1, <3>2, Zenon
  <2>10. Rest(i)'
    BY <2>6, <2>7, <2>8, <2>9, RestParts, Zenon
  <2> QED
    BY <2>6, <2>10, GoodParts, Zenon
<1>6. CASE w \notin Operations
  <2>1. PICK jb \in {"group", "config"}, c \in {"prices", "snapshot"} :
           Becomes(i, [run[i] EXCEPT !.job = jb, !.pc = c])
    BY <1>6, Zenon DEF Commit
  <2> DEFINE r == [run[i] EXCEPT !.job = jb, !.pc = c]
  <2>2. /\ r \in Plain /\ r.pc = c /\ r.got = run[i].got /\ r.known = run[i].known
        /\ r.todo = run[i].todo /\ r.seen = run[i].seen
    BY <1>1, Zenon DEF Plain
  <2>3. /\ run' \in [Instances -> Plain] /\ run'[i] = r
        /\ \A j \in Instances \ {i} : run'[j] = run[j]
    BY <1>1, <2>1, <2>2, BecomesSets, Zenon
  <2> HIDE DEF r
  <2>4. Base(i) /\ Answers(i)' /\ Done' = Done \cup {w}
    BY <1>2, <1>3, <2>3, CommitStep, Zenon
  <2>5. Covers(i)'
    <3>1. run[i].seen \subseteq Done \cup {w} /\ \A p \in Parts : view[i][p] \subseteq run[i].seen
      BY <1>1, <1>2, <1>6, Zenon DEF Local, Covers
    <3> QED
      BY <1>3, <2>2, <2>3, <2>4, <3>1, Zenon DEF Covers
  <2>6. Listed(i)'
    BY <1>1, <1>3, <1>6, <2>2, <2>3, Zenon DEF Listed, Local, Committed
  <2>7. Rest(i)'
    <3>1. Reads(i)' /\ run'[i].got <= rev'
      BY <1>4, <2>2, <2>3, <2>4, BaseTypes, NothingRead, Zenon
    <3>2. run'[i].pc \notin {"run", "own"} /\ run'[i].known = 0
      BY <1>2, <2>2, <2>3, Zenon
    <3>3. Stages(i)' /\ Owns(i)'
      <4>1. ~(0 > 0)
        OBVIOUS
      <4> QED
        BY <3>2, <4>1, Zenon DEF Stages, Owns
    <3> QED
      BY <2>4, <2>5, <2>6, <3>1, <3>3, RestParts, Zenon
  <2> QED
    BY <2>4, <2>7, GoodParts, Zenon
<1> QED
  BY <1>5, <1>6, Zenon

\* A commit without a publication: by a refresh, or reported as failed.  An
\* instance that is not at its end of a transaction keeps its record.
LEMMA UntouchedHolder ==
  ASSUME Types, NEW i \in Instances, Local(i), Base(i), run'[i] = run[i], view' = view
  PROVE  /\ run'[i].got <= rev' /\ Covers(i)' /\ Reads(i)' /\ Listed(i)' /\ Stages(i)' /\ Owns(i)'
<1>1. Types' /\ Grows /\ Done \subseteq Done'
  BY DoneGrows, Zenon DEF Base
<1>2. /\ run[i].id \in Writes \cup {"-"} /\ run[i].got \in Nat /\ run[i].known \in 0..Completed
      /\ run[i].stage \in 0..Completed
      /\ \A t \in run[i].todo : t[1] \in Operations /\ t[2] \in 1..(Completed - 1)
  BY <1>1, DataTypes, Fields, Zenon
<1>3. /\ rev \in Nat /\ rev' \in Nat /\ rev' >= rev
      /\ \A o \in Operations : row[o] \in 0..Completed /\ row'[o] \in 0..Completed /\ row'[o] >= row[o]
  BY <1>1, DataTypes, Zenon DEF Grows
<1>4. run'[i].got <= rev'
  BY <1>2, <1>3 DEF Local, Bounds
<1>5. Covers(i)'
  BY <1>1, Zenon DEF Local, Covers
<1>6. Reads(i)'
  <2>1. \A w \in Writes : at'[w] \in 1..run[i].got => at[w] \in 1..run[i].got
    BY <1>1, <1>2, OldWrites, Zenon DEF Local, Bounds
  <2> QED
    BY <2>1, Zenon DEF Local, Reads
<1>7. Listed(i)'
  BY <1>1, ListedKeeps, Zenon
<1>8. Stages(i)'
  <2>1. Stages(i)
    BY LocalParts, Zenon
  <2> QED
    BY <1>2, <1>3, <2>1 DEF Stages
<1>9. Owns(i)'
  <2>1. Owns(i)
    BY LocalParts, Zenon
  <2> QED
    BY <1>2, <1>3, <2>1 DEF Owns
<1> QED
  BY <1>4, <1>5, <1>6, <1>7, <1>8, <1>9, Zenon

LEMMA CommitCredentialStep ==
  ASSUME Inv, NEW i \in Instances, NEW w \in Writes, CommitCredential(i, w)
  PROVE  Good(i)
<1>1. Types /\ Local(i)
  BY DEF Inv
<1>2. Committed(w) /\ w \notin Operations /\ UNCHANGED <<view, run, answer>>
  BY DEF CommitCredential, Commits
<1>3. applied' = applied
  <2>1. applied' = [applied EXCEPT ![i] = applied[i]]
    BY DEF CommitCredential, Commits, Credited
  <2> QED
    BY <1>1, <2>1, Zenon DEF Types
<1>4. run' \in [Instances -> Plain] /\ \A j \in Instances \ {i} : run'[j] = run[j]
  BY <1>1, <1>2, Zenon DEF Types
<1>5. Base(i) /\ Answers(i)'
  BY <1>2, <1>3, <1>4, CommitStep, Zenon
<1>6. Rest(i)'
  BY <1>1, <1>2, <1>5, UntouchedHolder, Zenon DEF Rest
<1> QED
  BY <1>5, <1>6, GoodParts, Zenon

LEMMA CommitFailsStep ==
  ASSUME Inv, NEW i \in Instances, CommitFails(i) \/ LookupFails(i)
  PROVE  Good(i)
<1>1. Types /\ Local(i)
  BY DEF Inv
<1>2. CASE Becomes(i, Free) /\ UNCHANGED <<rev, at, row, view, applied, answer>>
  BY <1>2, QuietEnd, Zenon
<1>3. CASE CommitFails(i) /\ Committed(run[i].id) /\ (Becomes(i, Free) \/ UNCHANGED run)
  <2>1. /\ run[i].id \in Writes
        /\ run[i].id \in Operations => row[run[i].id] = 0
    BY <1>3, CommitReady, Zenon DEF CommitFails
  <2>2. UNCHANGED <<view, applied, answer>>
    BY <1>3, Zenon DEF CommitFails
  <2>3. /\ run' \in [Instances -> Plain] /\ \A j \in Instances \ {i} : run'[j] = run[j]
        /\ run'[i] \in {run[i], Free}
    <3>1. CASE UNCHANGED run
      BY <1>1, <3>1, Zenon DEF Types
    <3>2. CASE Becomes(i, Free)
      BY <1>1, <3>2, FreeType, BecomesSets, Zenon
    <3> QED
      BY <1>3, <3>1, <3>2, Zenon
  <2>4. Base(i) /\ Answers(i)'
    BY <1>3, <2>1, <2>2, <2>3, CommitStep, Zenon
  <2>5. CASE run'[i] = run[i]
    BY <1>1, <2>2, <2>4, <2>5, UntouchedHolder, GoodParts, Zenon DEF Rest
  <2>6. CASE run'[i] = Free
    BY <2>4, <2>6, FreeKeeps, GoodParts, Zenon DEF Rest, Base
  <2> QED
    BY <2>3, <2>5, <2>6, Zenon
<1> QED
  BY <1>2, <1>3, Zenon DEF CommitFails, LookupFails

-----------------------------------------------------------------------------
(* Publications, reloads and stages. *)

LEMMA PublishPricesStep ==
  ASSUME Inv, NEW i \in Instances, PublishPrices(i)
  PROVE  Good(i)
<1>1. Types /\ Local(i) /\ run[i] \in Plain
  BY Zenon DEF Inv, Types
<1> DEFINE r == [run[i] EXCEPT !.pc = "snapshot"]
           c == run[i].seen
<1>2. /\ Becomes(i, r) /\ Serve(i, "prices", c) /\ run[i].pc = "prices"
      /\ UNCHANGED <<rev, at, row, applied, answer>>
  BY DEF PublishPrices, Goto, At
<1>3. /\ r \in Plain /\ r.pc = "snapshot" /\ r.got = run[i].got /\ r.known = run[i].known
      /\ r.id = run[i].id /\ r.todo = run[i].todo /\ r.seen = c /\ r.job = run[i].job
  BY <1>1 DEF Plain
<1>4. /\ c \in SUBSET Writes /\ view[i]["prices"] \subseteq c /\ c \subseteq Done
      /\ view[i]["snapshot"] \subseteq c
  BY <1>1, <1>2, Fields, Zenon DEF Local, Covers
<1> HIDE DEF r, c
<1>5. /\ Base(i) /\ Answers(i)' /\ run'[i] = r
      /\ view'[i]["prices"] = c /\ view'[i]["snapshot"] = view[i]["snapshot"]
  BY <1>2, <1>3, <1>4, ServeStep
<1>6. Done' = Done
  BY <1>2, Zenon DEF Done
<1>7. Covers(i)'
  BY <1>3, <1>4, <1>5, <1>6, Zenon DEF Covers
<1>8. Reads(i)'
  BY <1>1, <1>2, <1>3, <1>5, Zenon DEF Reads, Local, c
<1>9. Listed(i)' /\ Owns(i)'
  BY <1>1, <1>2, <1>3, <1>5, Zenon DEF Listed, Owns, Local
<1>10. Rest(i)'
  BY <1>1, <1>2, <1>3, <1>5, <1>7, <1>8, <1>9, Zenon DEF Rest, Stages, Local, Bounds
<1> QED
  BY <1>5, <1>10, GoodParts, Zenon

\* Both parts hold what the reload read, so its revision counts as applied.
LEMMA PublishSnapshotStep ==
  ASSUME Inv, NEW i \in Instances, PublishSnapshot(i)
  PROVE  Good(i)
<1>1. Types /\ Local(i) /\ run[i] \in Plain /\ Rows
  BY Zenon DEF Inv, Types
<1> DEFINE c == run[i].seen
           g == run[i].got
<1>2. /\ Becomes(i, Free) /\ Serve(i, "snapshot", c) /\ run[i].pc = "snapshot"
      /\ UNCHANGED <<rev, at, row, answer>>
      /\ applied' = [applied EXCEPT ![i] = IF g > applied[i] THEN g ELSE applied[i]]
  BY Zenon DEF PublishSnapshot, At
<1>3. /\ c \in SUBSET Writes /\ c \subseteq Done /\ view[i]["snapshot"] \subseteq c
      /\ g \in Nat /\ g <= rev /\ applied[i] \in Nat /\ applied[i] <= rev
  BY <1>1, <1>2, Fields, Zenon DEF Local, Covers, Bounds, Types
<1>4. \A w \in Writes : at[w] \in 1..g => w \in c /\ w \in view[i]["prices"]
  BY <1>1, <1>2, Zenon DEF Local, Reads
<1> HIDE DEF c, g
<1>5. run' \in [Instances -> Plain] /\ run'[i] = Free /\ \A j \in Instances \ {i} : run'[j] = run[j]
  BY <1>1, <1>2, FreeType, BecomesSets, Zenon
<1>6. /\ view' \in [Instances -> [Parts -> SUBSET Writes]]
      /\ view'[i]["snapshot"] = c
      /\ view'[i]["prices"] = view[i]["prices"]
      /\ \A j \in Instances \ {i} : view'[j] = view[j]
  <2>1. "snapshot" \in Parts /\ "prices" \in Parts /\ "prices" # "snapshot"
    OBVIOUS
  <2> QED
    BY <1>1, <1>2, <1>3, <2>1, ServeSets, Zenon
<1>7. /\ applied' \in [Instances -> Nat] /\ applied'[i] = (IF g > applied[i] THEN g ELSE applied[i])
      /\ \A j \in Instances \ {i} : applied'[j] = applied[j]
  BY <1>1, <1>2, <1>3, Zenon DEF Types
<1>8. Types'
  BY <1>1, <1>2, <1>5, <1>6, <1>7, Zenon DEF Types
<1>9. Grows
  BY <1>1, <1>2, <1>8, DataTypes DEF Grows
<1>10. Alone(i)
  BY <1>2, <1>5, <1>6, <1>7, Zenon DEF Alone
<1>11. Done' = Done
  BY <1>2, Zenon DEF Done
<1>12. Widens(i) /\ Stored(i)'
  BY <1>1, <1>3, <1>6, <1>11, Zenon DEF Widens, Stored, Local
<1>13. applied'[i] <= rev'
  BY <1>2, <1>3, <1>7, Zenon
<1>14. Applied(i)'
  <2>1. \A w \in Writes : at'[w] \in 1..applied'[i] => at[w] \in 1..applied[i] \/ at[w] \in 1..g
    BY <1>2, <1>3, <1>7, Zenon
  <2>2. \A w \in Writes : at[w] \in 1..applied[i] => \A p \in Parts : w \in view'[i][p]
    BY <1>1, <1>12, Zenon DEF Local, Applied, Widens
  <2>3. \A w \in Writes : at[w] \in 1..g => \A p \in Parts : w \in view'[i][p]
    BY <1>4, <1>6, Zenon
  <2> QED
    BY <2>1, <2>2, <2>3, Zenon DEF Applied
<1>15. Rows'
  BY <1>1, <1>2, Zenon DEF Rows
<1>16. Base(i)
  BY <1>8, <1>9, <1>10, <1>12, <1>13, <1>14, <1>15, Zenon DEF Base
<1>17. Answers(i)'
  BY <1>1, <1>2, <1>8, <1>9, <1>12, AnswersKeep, Zenon DEF Widens
<1>18. Rest(i)'
  BY <1>5, <1>8, <1>9, <1>17, FreeKeeps, Zenon DEF Rest
<1> QED
  BY <1>16, <1>18, GoodParts, Zenon

LEMMA PublishFailsStep ==
  ASSUME Inv, NEW i \in Instances, PublishFails(i)
  PROVE  Good(i)
<1>1. Types /\ Local(i) /\ run[i] \in Plain
  BY Zenon DEF Inv, Types
<1> DEFINE c == Done
           q == IF run[i].job = "group" THEN "reprice" ELSE "republish"
           r == [run[i] EXCEPT !.seen = c, !.pc = q]
<1>2. /\ Becomes(i, r) /\ run[i].pc = "snapshot" /\ run[i].job # "reload"
      /\ UNCHANGED <<rev, at, row, view, applied, answer>>
  BY Zenon DEF PublishFails, At
<1>3. c \in SUBSET Writes /\ q \in {"reprice", "republish"} /\ c = Done
  BY DEF Done
<1> HIDE DEF c, q
<1>4. /\ r \in Plain /\ r.pc = q /\ r.got = run[i].got /\ r.known = run[i].known
      /\ r.id = run[i].id /\ r.todo = run[i].todo /\ r.seen = c
  <2>1. r \in Plain
    BY <1>1, <1>3, Zenon DEF Plain
  <2>2. /\ r.pc = q /\ r.got = run[i].got /\ r.known = run[i].known
        /\ r.id = run[i].id /\ r.todo = run[i].todo /\ r.seen = c
    BY <1>1, Zenon DEF Plain
  <2> QED
    BY <2>1, <2>2, Zenon
<1> HIDE DEF r
<1>5. Base(i) /\ Answers(i)' /\ run'[i] = r
  BY <1>2, <1>4, QuietStep, Zenon
<1>6. Done' = Done
  BY <1>2, Zenon DEF Done
<1>7. Covers(i)'
  BY <1>1, <1>2, <1>3, <1>4, <1>5, <1>6, Zenon DEF Covers, Local, Stored
<1>8. r.got = 0
  BY <1>1, <1>2, <1>4, NoRevision, Zenon
<1>9. /\ Reads(i)' /\ run'[i].got <= rev'
      /\ Listed(i)' /\ Owns(i)' /\ Stages(i)'
  <2>1. run'[i].pc \notin {"run", "own"} /\ run'[i].todo \subseteq run[i].todo
    BY <1>3, <1>4, <1>5, Zenon
  <2>2. Stages(i)'
    BY <2>1, Zenon DEF Stages
  <2> QED
    BY <1>1, <1>4, <1>5, <1>8, <2>1, <2>2, BaseTypes, NothingRead, ListedKeeps, OwnsKeeps, Zenon
<1>10. Rest(i)'
  BY <1>5, <1>7, <1>9, RestParts, Zenon
<1> QED
  BY <1>5, <1>10, GoodParts, Zenon

LEMMA RepublishSteps ==
  ASSUME Inv, NEW i \in Instances, Reprice(i) \/ Republish(i) \/ RecoverRuntimeFails(i)
  PROVE  Good(i)
<1>1. Types /\ Local(i) /\ run[i] \in Plain
  BY Zenon DEF Inv, Types
<1>2. CASE Reprice(i)
  <2> DEFINE r == [run[i] EXCEPT !.pc = "republish"]
             c == Done
  <2>1. /\ Becomes(i, r) /\ Serve(i, "prices", c) /\ run[i].pc = "reprice"
        /\ UNCHANGED <<rev, at, row, applied, answer>>
    BY <1>2, Zenon DEF Reprice, Goto, At
  <2>2. /\ r \in Plain /\ r.pc = "republish" /\ r.got = run[i].got /\ r.known = run[i].known
        /\ r.id = run[i].id /\ r.todo = run[i].todo /\ r.seen = run[i].seen
    BY <1>1 DEF Plain
  <2>3. /\ c \in SUBSET Writes /\ view[i]["prices"] \subseteq c /\ c \subseteq Done
    BY <1>1, Zenon DEF Local, Stored, Done
  <2> HIDE DEF r, c
  <2>4. /\ Base(i) /\ Answers(i)' /\ run'[i] = r
        /\ view'[i]["prices"] = c /\ view'[i]["snapshot"] = view[i]["snapshot"]
    BY <2>1, <2>2, <2>3, ServeStep, Zenon
  <2>5. Done' = Done
    BY <2>1, Zenon DEF Done
  <2>6. Covers(i)'
    BY <1>1, <2>1, <2>2, <2>4, <2>5, Zenon DEF Covers, Local
  <2>7. r.got = 0
    BY <1>1, <2>1, <2>2, NoRevision, Zenon
  <2>8. /\ Reads(i)' /\ run'[i].got <= rev'
        /\ Listed(i)' /\ Owns(i)' /\ Stages(i)'
    <3>1. run'[i].pc \notin {"run", "own"} /\ run'[i].todo \subseteq run[i].todo
      BY <2>2, <2>4, Zenon
    <3>2. Stages(i)'
      BY <3>1, Zenon DEF Stages
    <3> QED
      BY <1>1, <2>2, <2>4, <2>7, <3>1, <3>2, BaseTypes, NothingRead, ListedKeeps, OwnsKeeps, Zenon
  <2>9. Rest(i)'
    BY <2>4, <2>6, <2>8, RestParts, Zenon
  <2> QED
    BY <2>4, <2>9, GoodParts, Zenon
<1>3. CASE Republish(i)
  <2>1. /\ Becomes(i, Free) /\ Serve(i, "snapshot", run[i].seen) /\ run[i].pc = "republish"
        /\ UNCHANGED <<rev, at, row, applied, answer>>
    BY <1>3, Zenon DEF Republish, At
  <2>2. /\ run[i].seen \in SUBSET Writes /\ run[i].seen \subseteq Done
        /\ view[i]["snapshot"] \subseteq run[i].seen
    BY <1>1, <2>1, Fields, Zenon DEF Local, Covers
  <2>3. Base(i) /\ Answers(i)' /\ run'[i] = Free
    BY <2>1, <2>2, FreeType, ServeStep, Zenon
  <2>4. Rest(i)'
    BY <2>3, FreeKeeps, Zenon DEF Rest, Base
  <2> QED
    BY <2>3, <2>4, GoodParts, Zenon
<1>4. CASE RecoverRuntimeFails(i)
  BY <1>4, QuietEnd, Zenon DEF RecoverRuntimeFails
<1> QED
  BY <1>2, <1>3, <1>4, Zenon

LEMMA ReloadSteps ==
  ASSUME Inv, NEW i \in Instances, StartReload(i) \/ ReloadFails(i)
  PROVE  Good(i)
<1>1. Types /\ Local(i)
  BY DEF Inv
<1>2. CASE StartReload(i)
  <2> DEFINE c == Done
             g == rev
             r == [Free EXCEPT !.job = "reload", !.pc = "prices", !.seen = c, !.got = g]
  <2>1. Becomes(i, r) /\ UNCHANGED <<rev, at, row, view, applied, answer>>
    BY <1>2, Zenon DEF StartReload
  <2>2. c \in SUBSET Writes /\ g \in Nat /\ c = Done /\ g = rev
    BY <1>1, Zenon DEF Types, Done
  <2> HIDE DEF c, g
  <2>3. /\ r \in Plain /\ r.job = "reload" /\ r.pc = "prices" /\ r.got = g /\ r.known = 0
        /\ r.todo = {} /\ r.seen = c
    <3>1. r \in Plain
      BY <2>2, FreeType, Zenon DEF Plain
    <3>2. /\ r.job = "reload" /\ r.pc = "prices" /\ r.got = g /\ r.known = 0
          /\ r.todo = {} /\ r.seen = c
      BY Zenon DEF Free
    <3> QED
      BY <3>1, <3>2, Zenon
  <2> HIDE DEF r
  <2>4. Base(i) /\ Answers(i)' /\ run'[i] = r
    BY <2>1, <2>3, QuietStep, Zenon
  <2>5. Done' = Done
    BY <2>1, Zenon DEF Done
  <2>6. Covers(i)'
    BY <1>1, <2>1, <2>2, <2>3, <2>4, <2>5, Zenon DEF Covers, Local, Stored
  <2>7. Reads(i)'
    <3>1. \A w \in Writes : at'[w] \in 1..g => w \in c
      BY <2>1, <2>2 DEF Done
    <3> QED
      BY <2>3, <2>4, <3>1, Zenon DEF Reads
  <2>8. run'[i].got <= rev' /\ Listed(i)' /\ Stages(i)' /\ Owns(i)'
    <3>1. run'[i].got <= rev'
      BY <2>1, <2>2, <2>3, <2>4
    <3>2. Listed(i)'
      BY <2>3, <2>4, Zenon DEF Listed
    <3>3. Stages(i)' /\ Owns(i)'
      BY <2>3, <2>4 DEF Stages, Owns
    <3> QED
      BY <3>1, <3>2, <3>3, Zenon
  <2>9. Rest(i)'
    BY <2>4, <2>6, <2>7, <2>8, RestParts, Zenon
  <2> QED
    BY <2>4, <2>9, GoodParts, Zenon
<1>3. CASE ReloadFails(i)
  BY <1>3, QuietEnd, Zenon DEF ReloadFails
<1> QED
  BY <1>2, <1>3, Zenon

LEMMA RestartStep ==
  ASSUME Inv, NEW i \in Instances, Restart(i)
  PROVE  Good(i)
<1>1. Types /\ Local(i) /\ Rows
  BY DEF Inv
<1> DEFINE r == [Free EXCEPT !.job = "drain", !.pc = "pending"]
<1>2. /\ Becomes(i, r) /\ UNCHANGED <<rev, at, row, answer>>
      /\ view' = [view EXCEPT ![i] = [p \in Parts |-> Done]]
      /\ applied' = [applied EXCEPT ![i] = 0]
  BY DEF Restart
<1>3. r \in Plain /\ r.pc = "pending" /\ r.got = 0 /\ r.known = 0 /\ r.todo = {}
  BY FreeType, Zenon DEF Free, Plain
<1> HIDE DEF r
<1>4. run' \in [Instances -> Plain] /\ run'[i] = r /\ \A j \in Instances \ {i} : run'[j] = run[j]
  BY <1>1, <1>2, <1>3, BecomesSets, Zenon
<1>5. Done \in SUBSET Writes /\ Done' = Done
  BY <1>2, Zenon DEF Done
<1>6. /\ view' \in [Instances -> [Parts -> SUBSET Writes]]
      /\ \A p \in Parts : view'[i][p] = Done
      /\ \A j \in Instances \ {i} : view'[j] = view[j]
  BY <1>1, <1>2, <1>5, Zenon DEF Types
<1>7. /\ applied' \in [Instances -> Nat] /\ applied'[i] = 0
      /\ \A j \in Instances \ {i} : applied'[j] = applied[j]
  BY <1>1, <1>2, Zenon DEF Types
<1>8. Types'
  BY <1>1, <1>2, <1>4, <1>6, <1>7, Zenon DEF Types
<1>9. Grows
  BY <1>1, <1>2, <1>8, DataTypes DEF Grows
<1>10. Alone(i)
  BY <1>2, <1>4, <1>6, <1>7, Zenon DEF Alone
<1>11. Widens(i) /\ Stored(i)' /\ Rows'
  BY <1>1, <1>2, <1>5, <1>6, Zenon DEF Widens, Stored, Local, Rows
<1>12. Applied(i)' /\ applied'[i] <= rev'
  BY <1>1, <1>2 DEF Applied, Types
<1>13. Base(i)
  BY <1>8, <1>9, <1>10, <1>11, <1>12, Zenon DEF Base
<1>14. Answers(i)'
  BY <1>1, <1>2, <1>8, <1>9, <1>11, AnswersKeep, Zenon DEF Widens
<1>15. Rest(i)'
  BY <1>3, <1>4, <1>8, <1>14 DEF Rest, Covers, Reads, Listed, Stages, Owns, Types
<1> QED
  BY <1>13, <1>15, GoodParts, Zenon

\* A stage publishes what is committed.
LEMMA StageView ==
  ASSUME Inv, NEW i \in Instances, Recovers(i), Effect(i)
  PROVE  /\ view' \in [Instances -> [Parts -> SUBSET Writes]]
         /\ \A p \in Parts : view[i][p] \subseteq view'[i][p] /\ view'[i][p] \subseteq Done
         /\ \A j \in Instances \ {i} : view'[j] = view[j]
         /\ run[i].next = 2 => view'[i]["prices"] = Done
         /\ run[i].next = 3 => view'[i]["snapshot"] = Done
<1>1. Types /\ Local(i) /\ run[i].next \in 2..Completed
  BY Zenon DEF Inv, Local, Stages, Recovers
<1>2. Done \in SUBSET Writes /\ \A p \in Parts : view[i][p] \subseteq Done
  BY <1>1, Zenon DEF Done, Local, Stored
<1>3. CASE run[i].next = Completed
  BY <1>1, <1>2, <1>3 DEF Effect, Types
<1>4. CASE run[i].next = 2
  <2>1. Serve(i, "prices", Done)
    BY <1>4 DEF Effect, PartOf
  <2>2. "prices" \in Parts
    OBVIOUS
  <2>3. /\ view' \in [Instances -> [Parts -> SUBSET Writes]]
        /\ view'[i]["prices"] = Done
        /\ view'[i]["snapshot"] = view[i]["snapshot"]
        /\ \A j \in Instances \ {i} : view'[j] = view[j]
    BY <1>1, <1>2, <2>1, <2>2, ServeSets, Zenon
  <2> QED
    BY <1>2, <1>4, <2>3
<1>5. CASE run[i].next = 3
  <2>1. Serve(i, "snapshot", Done)
    BY <1>5 DEF Effect, PartOf
  <2>2. "snapshot" \in Parts
    OBVIOUS
  <2>3. /\ view' \in [Instances -> [Parts -> SUBSET Writes]]
        /\ view'[i]["snapshot"] = Done
        /\ view'[i]["prices"] = view[i]["prices"]
        /\ \A j \in Instances \ {i} : view'[j] = view[j]
    BY <1>1, <1>2, <2>1, <2>2, ServeSets, Zenon
  <2> QED
    BY <1>2, <1>5, <2>3
<1> QED
  BY <1>1, <1>3, <1>4, <1>5

\* The stage this instance knows after it has run one.
StageAfter(i) ==
    IF run[i].stage >= run[i].next THEN run[i].stage
    ELSE IF Swaps(i) THEN run[i].next ELSE row[run[i].cur]

\* The row does not go back, and it is at least at the stage that was run.
LEMMA StageRow ==
  ASSUME Inv, NEW i \in Instances, Recovers(i),
         row' = IF Swaps(i) THEN [row EXCEPT ![run[i].cur] = run[i].next] ELSE row
  PROVE  /\ row' \in [Operations -> 0..Completed]
         /\ \A o \in Operations : row'[o] >= row[o]
         /\ \A o \in Operations : row'[o] > 0 => row[o] > 0
         /\ StageAfter(i) \in run[i].next..Completed
         /\ StageAfter(i) <= row'[run[i].cur]
<1> DEFINE o == run[i].cur
           n == run[i].next
           t == run[i].stage
<1>1. /\ o \in Operations /\ n \in 2..Completed /\ t \in 1..Completed /\ t + 1 >= n /\ t <= row[o]
      /\ row \in [Operations -> 0..Completed]
  <2>1. Types /\ Local(i) /\ run[i] \in Plain
    BY Zenon DEF Inv, Types
  <2>2. Stages(i) /\ t \in 0..Completed
    BY <2>1, LocalParts, Fields, Zenon
  <2>3. row \in [Operations -> 0..Completed]
    BY <2>1, Zenon DEF Types
  <2> QED
    BY <2>2, <2>3 DEF Stages, Recovers
<1>2. Swaps(i) <=> t < n /\ row[o] = t
  BY Zenon DEF Swaps
<1>3. row' = IF Swaps(i) THEN [row EXCEPT ![o] = n] ELSE row
  OBVIOUS
<1>4. StageAfter(i) = IF t >= n THEN t ELSE IF Swaps(i) THEN n ELSE row[o]
  BY Zenon DEF StageAfter
<1> HIDE DEF o, n, t
<1>5. CASE Swaps(i)
  <2>1. row' = [row EXCEPT ![o] = n] /\ StageAfter(i) = n /\ row[o] < n
    <3>1. t < n /\ row[o] = t
      BY <1>2, <1>5, Zenon
    <3>2. ~(t >= n)
      BY <1>1, <3>1
    <3>3. StageAfter(i) = n
      BY <1>4, <1>5, <3>2, Zenon
    <3> QED
      BY <1>3, <1>5, <3>1, <3>3, Zenon
  <2> QED
    BY <1>1, <2>1
<1>6. CASE ~Swaps(i)
  <2>1. row' = row /\ StageAfter(i) = IF t >= n THEN t ELSE row[o]
    BY <1>3, <1>4, <1>6, Zenon
  <2>2. StageAfter(i) \in n..Completed /\ StageAfter(i) <= row[o]
    BY <1>1, <1>2, <1>6, <2>1
  <2> QED
    BY <1>1, <2>1, <2>2 DEF o, n
<1> QED
  BY <1>5, <1>6, Zenon

LEMMA StageFailsStep ==
  ASSUME Inv, NEW i \in Instances, StageFails(i)
  PROVE  Good(i)
<1>1. /\ Becomes(i, Free) /\ UNCHANGED <<rev, at, row, applied, answer>>
      /\ UNCHANGED view \/ (Recovers(i) /\ Effect(i))
  BY Zenon DEF StageFails
<1>2. CASE UNCHANGED view
  BY <1>1, <1>2, QuietEnd, Zenon
<1>3. CASE Recovers(i) /\ Effect(i)
  <2>1. Types /\ Local(i) /\ Rows
    BY DEF Inv
  <2>2. /\ view' \in [Instances -> [Parts -> SUBSET Writes]]
        /\ \A p \in Parts : view[i][p] \subseteq view'[i][p] /\ view'[i][p] \subseteq Done
        /\ \A j \in Instances \ {i} : view'[j] = view[j]
    BY <1>3, StageView, Zenon
  <2>3. run' \in [Instances -> Plain] /\ run'[i] = Free /\ \A j \in Instances \ {i} : run'[j] = run[j]
    BY <1>1, <2>1, FreeType, BecomesSets, Zenon
  <2>4. Types'
    BY <1>1, <2>1, <2>2, <2>3, Zenon DEF Types
  <2>5. Grows
    BY <1>1, <2>1, <2>4, DataTypes DEF Grows
  <2>6. Alone(i)
    BY <1>1, <2>2, <2>3, Zenon DEF Alone
  <2>7. Done' = Done
    BY <1>1, Zenon DEF Done
  <2>8. Stored(i)' /\ Applied(i)' /\ applied'[i] <= rev' /\ Answers(i)'
    BY <1>1, <2>1, <2>2, <2>4, <2>5, <2>7, SelfKeeps, AnswersKeep, Zenon
  <2>9. Rows' /\ Widens(i)
    BY <1>1, <2>1, <2>2, Zenon DEF Rows, Widens
  <2>10. Base(i)
    BY <2>4, <2>5, <2>6, <2>8, <2>9, Zenon DEF Base
  <2>11. Rest(i)'
    BY <2>3, <2>4, <2>5, <2>8, FreeKeeps, Zenon DEF Rest
  <2> QED
    BY <2>10, <2>11, GoodParts, Zenon
<1> QED
  BY <1>1, <1>2, <1>3, Zenon

\* What a stage changes besides the holder's record and the answers.
LEMMA StageBase ==
  ASSUME Inv, NEW i \in Instances, RunStage(i),
         run' \in [Instances -> Plain], \A j \in Instances \ {i} : run'[j] = run[j],
         answer' \in [Operations -> [Instances -> {"-", "done", "replayed"}]],
         \A j \in Instances \ {i} : \A o \in Operations : answer'[o][j] = answer[o][j]
  PROVE  Base(i)
<1>1. Types /\ Local(i) /\ Rows
  BY DEF Inv
<1>2. /\ Recovers(i) /\ Effect(i) /\ UNCHANGED <<rev, at, applied>>
      /\ row' = IF Swaps(i) THEN [row EXCEPT ![run[i].cur] = run[i].next] ELSE row
  BY Zenon DEF RunStage
<1>3. /\ view' \in [Instances -> [Parts -> SUBSET Writes]]
      /\ \A p \in Parts : view[i][p] \subseteq view'[i][p] /\ view'[i][p] \subseteq Done
      /\ \A j \in Instances \ {i} : view'[j] = view[j]
  BY <1>2, StageView, Zenon
<1>4. /\ row' \in [Operations -> 0..Completed]
      /\ \A o \in Operations : row'[o] >= row[o]
      /\ \A o \in Operations : row'[o] > 0 => row[o] > 0
  BY <1>2, StageRow, Zenon
<1>5. Types'
  BY <1>1, <1>2, <1>3, <1>4, Zenon DEF Types
<1>6. Grows
  BY <1>1, <1>2, <1>4, <1>5, DataTypes DEF Grows
<1>7. Alone(i)
  BY <1>2, <1>3, Zenon DEF Alone
<1>8. Done' = Done
  BY <1>2, Zenon DEF Done
<1>9. Stored(i)' /\ Applied(i)' /\ applied'[i] <= rev'
  BY <1>1, <1>2, <1>3, <1>5, <1>6, <1>8, SelfKeeps, Zenon
<1>10. Rows' /\ Widens(i)
  BY <1>1, <1>2, <1>3, <1>4, Zenon DEF Rows, Widens
<1> QED
  BY <1>5, <1>6, <1>7, <1>9, <1>10, Zenon DEF Base

LEMMA RunStageStep ==
  ASSUME Inv, NEW i \in Instances, RunStage(i)
  PROVE  Good(i)
<1>1. Types /\ Local(i) /\ run[i] \in Plain
  BY Zenon DEF Inv, Types
<1>2. /\ Recovers(i) /\ Effect(i) /\ UNCHANGED <<rev, at, applied>>
      /\ row' = IF Swaps(i) THEN [row EXCEPT ![run[i].cur] = run[i].next] ELSE row
  BY Zenon DEF RunStage
<1> DEFINE o == run[i].cur
           n == run[i].next
           m == n + 1
           t == StageAfter(i)
<1>3. /\ o \in Operations /\ n \in 2..Completed /\ row[o] > 0
      /\ run[i].pc = "own" => o = run[i].id
      /\ run[i].pc = "own" /\ run[i].known = 0 /\ n > 2 => o \in view[i]["prices"]
      /\ run[i].pc = "own" /\ run[i].known = 0 /\ n > 3 => o \in view[i]["snapshot"]
  <2>1. /\ o \in Operations /\ n \in 2..Completed
        /\ run[i].stage > 0 /\ run[i].stage <= row[o]
    BY <1>1, <1>2, Zenon DEF Local, Stages, Recovers
  <2>2. row[o] > 0
    <3>1. row[o] \in 0..Completed /\ run[i].stage \in 0..Completed
      BY <1>1, <2>1, Fields, Zenon DEF Types
    <3> QED
      BY <2>1, <3>1
  <2>3. Owns(i)
    BY <1>1, Zenon DEF Local
  <2> QED
    BY <2>1, <2>2, <2>3, Zenon DEF Owns
<1>4. IF m > Completed
        THEN Recovered(i)
        ELSE Becomes(i, [run[i] EXCEPT !.stage = t, !.next = m]) /\ UNCHANGED answer
  BY Zenon DEF RunStage, StageAfter, NextStage, Last
<1>5. /\ row' \in [Operations -> 0..Completed]
      /\ \A x \in Operations : row'[x] >= row[x]
      /\ t \in n..Completed /\ t <= row'[o]
  BY <1>2, StageRow, Zenon
<1>6. /\ \A p \in Parts : view[i][p] \subseteq view'[i][p]
      /\ n = 2 => view'[i]["prices"] = Done
      /\ n = 3 => view'[i]["snapshot"] = Done
  BY <1>2, StageView, Zenon
<1>7. o \in Done /\ Done' = Done
  BY <1>1, <1>2, <1>3, WritesAssumption, Zenon DEF Done, Inv, Rows
<1>8. run[i].got = 0
  <2>1. run[i].pc \notin {"prices", "snapshot"}
    BY <1>2, Zenon DEF Recovers
  <2> QED
    BY <1>1, <2>1, NoRevision, Zenon
<1>9. run[i].known > 0 => run[i].id \in Operations /\ run[i].known <= row[run[i].id]
  BY <1>1, Zenon DEF Local, Owns
<1>10. \A u \in run[i].todo : u[1] \in Operations /\ u[2] \in 1..(Completed - 1) /\ u[2] <= row[u[1]]
  BY <1>1, Fields, Zenon DEF Local, Listed
<1>11. row \in [Operations -> 0..Completed]
  BY <1>1, Zenon DEF Types
<1>12. m \in 3..(Completed + 1) /\ m = n + 1
  BY <1>3
<1> HIDE DEF o, n, m, t
<1>13. CASE ~(m > Completed)
  <2> DEFINE r == [run[i] EXCEPT !.stage = t, !.next = m]
  <2>1. t \in 0..Completed /\ m \in 0..Completed
    BY <1>3, <1>5, <1>12, <1>13
  <2>2. /\ r \in Plain /\ r.pc = run[i].pc /\ r.got = run[i].got /\ r.known = run[i].known
        /\ r.id = run[i].id /\ r.todo = run[i].todo /\ r.cur = o /\ r.stage = t /\ r.next = m
    BY <1>1, <2>1, Zenon DEF Plain, o
  <2>3. Becomes(i, r) /\ UNCHANGED answer
    BY <1>4, <1>13, Zenon
  <2> HIDE DEF r
  <2>4. run' \in [Instances -> Plain] /\ run'[i] = r /\ \A j \in Instances \ {i} : run'[j] = run[j]
    BY <1>1, <2>2, <2>3, BecomesSets, Zenon
  <2>5. Base(i)
    BY <1>1, <2>3, <2>4, StageBase, Zenon DEF Types
  <2>6. Answers(i)'
    BY <1>1, <2>3, <2>5, AnswersKeep, Zenon DEF Base, Widens
  <2>7. Covers(i)'
    BY <1>2, <2>2, <2>4, Zenon DEF Covers, Recovers
  <2>8. Reads(i)' /\ run'[i].got <= rev'
    BY <1>8, <2>2, <2>4, <2>5, BaseTypes, NothingRead, Zenon
  <2>9. Listed(i)'
    BY <1>5, <1>10, <1>11, <2>2, <2>4 DEF Listed
  <2>10. Stages(i)'
    BY <1>3, <1>5, <1>12, <1>13, <2>2, <2>4 DEF Stages
  <2>11. Owns(i)'
    <3>1. run[i].known > 0 => run[i].known <= row'[run[i].id]
      BY <1>1, <1>5, <1>9, <1>11, Fields
    <3>2. ASSUME run[i].pc = "own", run[i].known = 0
          PROVE  /\ m > 2 => o \in view'[i]["prices"]
                 /\ m > 3 => o \in view'[i]["snapshot"]
      <4>1. "prices" \in Parts /\ "snapshot" \in Parts
        OBVIOUS
      <4>2. o \in view'[i]["prices"]
        BY <1>3, <1>6, <1>7, <3>2
      <4>3. m > 3 => o \in view'[i]["snapshot"]
        BY <1>3, <1>6, <1>7, <1>12, <3>2, <4>1
      <4> QED
        BY <4>2, <4>3, Zenon
    <3> QED
      BY <1>3, <1>9, <2>2, <2>4, <3>1, <3>2, Zenon DEF Owns
  <2>12. Rest(i)'
    BY <2>6, <2>7, <2>8, <2>9, <2>10, <2>11, RestParts, Zenon
  <2> QED
    BY <2>5, <2>12, GoodParts, Zenon
<1>14. CASE m > Completed /\ run[i].pc # "own"
  <2> DEFINE z == 0
             r == [run[i] EXCEPT !.pc = "barrier", !.cur = "-", !.stage = z, !.next = z]
  <2>1. Becomes(i, r) /\ UNCHANGED answer
    BY <1>4, <1>14, Zenon DEF Recovered, At
  <2>2. z \in 0..Completed
    OBVIOUS
  <2> HIDE DEF z
  <2>3. /\ r \in Plain /\ r.pc = "barrier" /\ r.got = run[i].got /\ r.known = run[i].known
        /\ r.id = run[i].id /\ r.todo = run[i].todo
    BY <1>1, <2>2, Zenon DEF Plain
  <2> HIDE DEF r
  <2>4. run' \in [Instances -> Plain] /\ run'[i] = r /\ \A j \in Instances \ {i} : run'[j] = run[j]
    BY <1>1, <2>1, <2>3, BecomesSets, Zenon
  <2>5. Base(i)
    BY <1>1, <2>1, <2>4, StageBase, Zenon DEF Types
  <2>6. Answers(i)'
    BY <1>1, <2>1, <2>5, AnswersKeep, Zenon DEF Base, Widens
  <2>7. Covers(i)' /\ Stages(i)'
    BY <2>3, <2>4, Zenon DEF Covers, Stages
  <2>8. Reads(i)' /\ run'[i].got <= rev'
    BY <1>8, <2>3, <2>4, <2>5, BaseTypes, NothingRead, Zenon
  <2>9. Listed(i)'
    BY <1>5, <1>10, <1>11, <2>3, <2>4 DEF Listed
  <2>10. run[i].known > 0 => run[i].known <= row'[run[i].id]
    BY <1>1, <1>5, <1>9, <1>11, Fields
  <2>11. Owns(i)'
    BY <1>9, <2>3, <2>4, <2>10, Zenon DEF Owns
  <2>12. Rest(i)'
    BY <2>6, <2>7, <2>8, <2>9, <2>11, RestParts, Zenon
  <2> QED
    BY <2>5, <2>12, GoodParts, Zenon
<1>15. CASE m > Completed /\ run[i].pc = "own"
  <2> DEFINE a == IF run[i].known > 0 THEN "replayed" ELSE "done"
  <2>1. Becomes(i, Free) /\ answer' = [answer EXCEPT ![o][i] = a]
    BY <1>3, <1>4, <1>15, Zenon DEF Recovered, At
  <2>2. /\ a \in {"-", "done", "replayed"}
        /\ a = "done" => run[i].known = 0
    BY <1>1, Fields
  <2> HIDE DEF a
  <2>3. run' \in [Instances -> Plain] /\ run'[i] = Free /\ \A j \in Instances \ {i} : run'[j] = run[j]
    BY <1>1, <2>1, FreeType, BecomesSets, Zenon
  <2>4. /\ answer' \in [Operations -> [Instances -> {"-", "done", "replayed"}]]
        /\ \A j \in Instances \ {i} : \A x \in Operations : answer'[x][j] = answer[x][j]
        /\ answer'[o][i] = a /\ \A x \in Operations \ {o} : answer'[x][i] = answer[x][i]
    BY <1>1, <1>3, <2>1, <2>2, Zenon DEF Types
  <2>5. Base(i)
    BY <2>3, <2>4, StageBase, Zenon
  <2>6. n = Completed
    BY <1>3, <1>12, <1>15
  <2>7. row'[o] = Completed
    BY <1>3, <1>5, <2>6
  <2>8. a = "done" => \A p \in Parts : o \in view'[i][p]
    BY <1>3, <1>6, <1>15, <2>2, <2>6
  <2>9. \A x \in Operations \ {o} :
          /\ answer'[x][i] # "-" => row'[x] = Completed
          /\ answer'[x][i] = "done" => \A p \in Parts : x \in view'[i][p]
    <3>1. Answers(i)
      BY <1>1, LocalParts, Zenon
    <3> SUFFICES ASSUME NEW x \in Operations \ {o}
                 PROVE  /\ answer'[x][i] # "-" => row'[x] = Completed
                        /\ answer'[x][i] = "done" => \A p \in Parts : x \in view'[i][p]
      OBVIOUS
    <3>2. answer'[x][i] = answer[x][i]
      BY <2>4, Zenon
    <3>3. answer[x][i] # "-" => row[x] = Completed
      BY <3>1, Zenon DEF Answers
    <3>4. row[x] = Completed => row'[x] = Completed
      BY <1>5
    <3>5. answer[x][i] = "done" => \A p \in Parts : x \in view[i][p]
      BY <3>1, Zenon DEF Answers
    <3> QED
      BY <1>6, <3>2, <3>3, <3>4, <3>5, Zenon
  <2>10. Answers(i)'
    BY <2>4, <2>7, <2>8, <2>9, Zenon DEF Answers
  <2>11. Rest(i)'
    BY <2>3, <2>5, <2>10, FreeKeeps, Zenon DEF Rest, Base
  <2> QED
    BY <2>5, <2>11, GoodParts, Zenon
<1> QED
  BY <1>13, <1>14, <1>15, Zenon

-----------------------------------------------------------------------------
(* The theorems. *)

\* Every step is a good step of one instance.
LEMMA StepIsGood ==
  ASSUME Inv, Next
  PROVE  \E i \in Instances : Good(i)
<1>1. PICK i \in Instances :
        \/ Holder(i) \/ StartReload(i) \/ StartDrain(i) \/ Failure(i)
        \/ \E w \in Writes : StartWrite(i, w) \/ CommitCredential(i, w)
  BY DEF Next
<1>2. CASE Holder(i)
  BY <1>2, PendingSteps, StartRecoveryStep, RunStageStep, BuildStep, ReplaySteps, CommitActionStep,
     PublishPricesStep, PublishSnapshotStep, RepublishSteps, Zenon DEF Holder
<1>3. CASE StartReload(i) \/ StartDrain(i)
  BY <1>3, ReloadSteps, PendingSteps, Zenon
<1>4. CASE Failure(i)
  BY <1>4, StageFailsStep, CommitFailsStep, PublishFailsStep, RepublishSteps, ReloadSteps,
     RestartStep, Zenon DEF Failure
<1>5. CASE \E w \in Writes : StartWrite(i, w) \/ CommitCredential(i, w)
  BY <1>5, StartWriteStep, CommitCredentialStep, Zenon
<1> QED
  BY <1>1, <1>2, <1>3, <1>4, <1>5, Zenon

LEMMA InitInv == Init => Inv
<1> SUFFICES ASSUME Init PROVE Inv
  OBVIOUS
<1>1. Types
  BY FreeType DEF Init, Types
<1>2. /\ rev = 0 /\ \A w \in Writes : at[w] = 0
      /\ \A o \in Operations : row[o] = 0
      /\ \A i \in Instances : run[i] = Free /\ applied[i] = 0 /\ \A p \in Parts : view[i][p] = {}
      /\ \A i \in Instances, o \in Operations : answer[o][i] = "-"
  BY Zenon DEF Init
<1>3. Rows
  BY <1>2 DEF Rows
<1>4. ASSUME NEW i \in Instances PROVE Local(i)
  <2>1. Bounds(i) /\ Stored(i) /\ Applied(i) /\ Answers(i)
    BY <1>2, FreeFields DEF Bounds, Stored, Applied, Answers
  <2>2. Covers(i) /\ Reads(i) /\ Listed(i) /\ Stages(i) /\ Owns(i)
    BY <1>2, FreeFields DEF Covers, Reads, Listed, Stages, Owns
  <2> QED
    BY <2>1, <2>2, Zenon DEF Local
<1> QED
  BY <1>1, <1>3, <1>4, Zenon DEF Inv

LEMMA StutterInv ==
  ASSUME Inv, UNCHANGED vars
  PROVE  Inv'
<1>1. UNCHANGED <<rev, at, row, view, applied, run, answer>> /\ Done' = Done
  BY DEF vars, Done
<1>2. Types' /\ Rows'
  BY <1>1, Zenon DEF Inv, Types, Rows
<1>3. ASSUME NEW i \in Instances PROVE Local(i)'
  <2>1. Local(i)
    BY DEF Inv
  <2>2. Bounds(i)' /\ Stored(i)' /\ Applied(i)' /\ Answers(i)'
    BY <1>1, <2>1, Zenon DEF Local, Bounds, Stored, Applied, Answers
  <2>3. Covers(i)' /\ Reads(i)' /\ Listed(i)' /\ Stages(i)' /\ Owns(i)'
    BY <1>1, <2>1, Zenon DEF Local, Covers, Reads, Listed, Stages, Owns
  <2> QED
    BY <2>2, <2>3, Zenon DEF Local
<1> QED
  BY <1>2, <1>3, Zenon DEF Inv

\* A step keeps the invariant, and what it does to views and rows.
LEMMA StepInv ==
  ASSUME Inv, Next
  PROVE  /\ Inv'
         /\ \A i \in Instances, p \in Parts : view[i][p] \subseteq view'[i][p]
         /\ \A o \in Operations : row'[o] >= row[o]
<1>1. PICK i \in Instances : Good(i)
  BY StepIsGood
<1>2. Types' /\ Rows' /\ Grows /\ Alone(i) /\ Widens(i) /\ Local(i)'
  BY <1>1, Zenon DEF Good, Base
<1>3. ASSUME NEW j \in Instances \ {i} PROVE Local(j)'
  BY <1>2, OthersKeep, Zenon DEF Inv
<1> QED
  BY <1>2, <1>3, Zenon DEF Inv, Alone, Widens, Grows

\* The invariant of the lock's holders, in every reachable state.
THEOREM Invariant == Spec => []Inv
<1>1. Inv /\ [Next]_vars => Inv'
  BY StepInv, StutterInv, Zenon
<1> QED
  BY <1>1, InitInv, PTL DEF Spec

\* advanceApplied: a revision an instance counts as applied is served by it, so
\* polling again can repair every instance that is behind.
THEOREM AppliedCorrect == Spec => []AppliedIsServed
<1>1. Inv => AppliedIsServed
  BY Zenon DEF Inv, Local, Applied, AppliedIsServed
<1> QED
  BY <1>1, Invariant, PTL

\* executeIdempotentOperation answers when the row is complete, and an operation
\* it has committed itself when its instance serves it.
THEOREM AnswersCorrect == Spec => []AnswersAreServed
<1>1. Inv => AnswersAreServed
  BY Zenon DEF Inv, Local, Answers, AnswersAreServed
<1> QED
  BY <1>1, Invariant, PTL

\* Publications at an instance, by writes, stages, reloads and repairs, never
\* take away a write that was served.
THEOREM ViewsCorrect == Spec => ViewsDoNotGoBack
<1>1. Inv /\ [Next]_vars => [\A i \in Instances, p \in Parts : view[i][p] \subseteq view'[i][p]]_vars
  BY StepInv, Zenon
<1> QED
  BY <1>1, Invariant, PTL DEF Spec, ViewsDoNotGoBack

\* advanceOperationStageLocked never moves a row back, whichever instances run
\* the stages of one operation.
THEOREM StagesCorrect == Spec => StagesDoNotGoBack
<1>1. Inv /\ [Next]_vars => [\A o \in Operations : row'[o] >= row[o]]_vars
  BY StepInv, Zenon
<1> QED
  BY <1>1, Invariant, PTL DEF Spec, StagesDoNotGoBack

=============================================================================
