---------------------- MODULE ResponseSnapshots_proofs ----------------------
(***************************************************************************)
(* Proofs about ResponseSnapshots, for any number of revisions and of      *)
(* faults.                                                                 *)
(*                                                                         *)
(* One inductive invariant carries them.  The content of a revision is     *)
(* fixed once it has one, and every put writes that content, so a write    *)
(* never harms a snapshot, lock or no lock.  What may harm one is a        *)
(* deletion; the invariant says why it never meets a row that is, or will  *)
(* be, ready: the row has expired, or its manifest is old, and then its    *)
(* payload is gone or has expired and no recorder is putting it.           *)
(***************************************************************************)
EXTENDS ResponseSnapshots, SequenceTheorems, TLAPS

\* The part of SnapTypeOK that speaks of one variable at a time.
Typed ==
  /\ rows \in Seq(Row) /\ Len(rows) \in Revisions
  /\ outbox \in [Revisions -> Payload \cup {NoPayload}]
  /\ dirs \in [Revisions -> Directory]
  /\ proc \in [Writers -> Process]
  /\ over \in BOOLEAN /\ full \in BOOLEAN /\ crowded \in BOOLEAN
  /\ invalid \subseteq Contents /\ events \in 0..MaxEvents

\* A pending row with a content has its payload, a ready row its key.
RowConsistent(r) ==
  /\ rows[r].status = "pending" /\ rows[r].content # NoContent => Has(r)
  /\ rows[r].status = "ready" => rows[r].content \in Contents /\ rows[r].stored

\* A directory whose files are there and hold the content.
Whole(d, content) ==
  d.manifest # NoContent /\ d.assets = d.manifest /\ d.manifest = content

Puts(w) == proc[w].step \in PutSteps \cup {"complete"}

\* What is put is what the row names.  A put that has seen its files, or has
\* written them, still finds them as long as the row may become ready.
WriterConsistent(w) ==
  /\ proc[w].rev \in Existing
  /\ Puts(w) => /\ proc[w].bundle \in Contents
                /\ rows[proc[w].rev].content = proc[w].bundle
  /\ /\ proc[w].step \in {"unlock", "complete"}
     /\ rows[proc[w].rev].status \in {"pending", "ready"}
     => Whole(dirs[proc[w].rev], proc[w].bundle)

\* No recorder will make r ready any more.
Given(r) ==
  /\ rows[r].status = "pending" => Has(r) /\ outbox[r].expired
  /\ \A w \in Writers \ {"maintenance"} : proc[w].rev = r => ~Puts(w)

\* A directory belongs to a row and holds nothing but its content.
FilesFollowRow(r) ==
  /\ dirs[r].assets # NoContent =>
       r \in Existing /\ dirs[r].assets = rows[r].content
  /\ dirs[r].manifest # NoContent =>
       r \in Existing /\ dirs[r].manifest = rows[r].content

DataConsistent ==
  /\ NewestIsCurrent
  /\ OutboxBelongsToPending
  /\ \A r \in Existing : RowConsistent(r)
  /\ \A r \in Revisions : FilesFollowRow(r)

M == proc["maintenance"]

Deletes(m) == m.step \in {"list", "unlink", "clear"}
Deleting(m) == m.todo \cup (IF Deletes(m) THEN {m.rev} ELSE {})

\* A maintenance that is at m deletes what has expired, and orphans that were
\* old when it began and will not become ready.
MaintenanceAt(m) ==
  /\ m.todo \cup m.before \subseteq Existing
  /\ \A r \in m.before : Given(r)
  /\ m.step # "idle" =>
       /\ m.phase # "record"
       /\ IF m.phase \in {"expire", "orphans"} THEN Deletes(m) \/ m.step = "next"
          ELSE ~Deletes(m)
  /\ m.step # "idle" /\ m.phase = "expire" =>
       \A r \in Deleting(m) : rows[r].status = "expired"
  /\ m.step # "idle" /\ m.phase = "orphans" =>
       \A r \in Deleting(m) \cap m.before : rows[r].status # "ready"
  /\ m.step = "unlink" /\ m.phase = "orphans" => m.rev \in m.before
  /\ m.step = "clear" => m.phase = "expire"

MaintenanceConsistent == MaintenanceAt(M)

IInv ==
  /\ Typed
  /\ DataConsistent
  /\ \A r \in Existing :
       rows[r].status = "ready" => Whole(dirs[r], rows[r].content)
  /\ \A r \in Revisions : dirs[r].old => r \in Existing /\ Given(r)
  /\ \A w \in Writers : WriterConsistent(w)
  /\ MaintenanceConsistent

-----------------------------------------------------------------------------
(* What every step keeps *)

\* A revision keeps its content and never returns to pending; a payload does
\* not get younger; the files of a row that may become ready stay, unless it
\* is given up; only a put makes a row ready, and finds its files.
Kept ==
  /\ Len(rows) <= Len(rows')
  /\ \A r \in Existing' \ Existing : rows'[r].status # "ready"
  /\ \A r \in Existing :
       /\ rows[r].content # NoContent => rows'[r].content = rows[r].content
       /\ rows[r].status # "pending" =>
            rows'[r].status \in {rows[r].status, "expired"}
       /\ rows'[r].status = "pending" /\ Has(r) /\ outbox[r].expired =>
            Has(r)' /\ outbox'[r].expired
       /\ /\ rows'[r].status \in {"pending", "ready"}
          /\ Whole(dirs[r], rows[r].content)
          => \/ Whole(dirs'[r], rows'[r].content)
             \/ rows[r].status # "ready" /\ Given(r) /\ M.step = "unlink"
       /\ rows'[r].status = "ready" /\ rows[r].status # "ready" =>
            /\ Whole(dirs'[r], rows'[r].content)
            /\ \E w \in Writers : Puts(w) /\ proc[w].rev = r

\* A writer starts no put of a revision that is given up.
StartsNoGiven(w) == w # "maintenance" /\ Puts(w)' => ~Given(proc'[w].rev)

LEMMA RowWritten ==
  ASSUME rows \in Seq(Row), NEW r \in Existing, NEW v \in Row
  PROVE  /\ [rows EXCEPT ![r] = v] \in Seq(Row)
         /\ Len([rows EXCEPT ![r] = v]) = Len(rows)
         /\ \A q \in Existing :
              [rows EXCEPT ![r] = v][q] = IF q = r THEN v ELSE rows[q]
BY ExceptSeq DEF Existing

LEMMA RowAppended ==
  ASSUME NEW s \in Seq(Row), NEW v \in Row
  PROVE  /\ Append(s, v) \in Seq(Row)
         /\ Len(Append(s, v)) = Len(s) + 1
         /\ \A q \in 1..Len(s) : Append(s, v)[q] = s[q]
         /\ Append(s, v)[Len(s) + 1] = v
BY AppendProperties

LEMMA RowsMapped ==
  ASSUME rows \in Seq(Row), NEW f \in [Existing -> Row]
  PROVE  f \in Seq(Row) /\ Len(f) = Len(rows)
BY SMT DEF Existing

LEMMA GivenKept ==
  ASSUME IInv, Kept, NEW r \in Existing, Given(r),
         \A w \in Writers : proc'[w] = proc[w] \/ StartsNoGiven(w)
  PROVE  Given(r)'
<1>1. rows'[r].status = "pending" => Has(r)' /\ outbox'[r].expired
  BY DEF Kept, Given
<1>2. ASSUME NEW w \in Writers \ {"maintenance"}, proc'[w].rev = r, Puts(w)'
      PROVE  FALSE
  <2>1. CASE proc'[w] = proc[w]
    BY <1>2, <2>1 DEF Given, Puts
  <2>2. CASE StartsNoGiven(w)
    BY <1>2, <2>2 DEF StartsNoGiven
  <2> QED
    BY <2>1, <2>2
<1> QED
  BY <1>1, <1>2 DEF Given

LEMMA ExistingKept ==
  ASSUME IInv, Kept, Typed'
  PROVE  Existing \subseteq Existing' /\ Existing' \subseteq Revisions
<1>1. Len(rows) \in Nat /\ Len(rows') \in Nat /\ Len(rows') <= MaxRevision
  BY SnapshotBounds DEF IInv, Typed, Revisions
<1> QED
  BY <1>1, SnapshotBounds DEF Kept, Existing, Revisions

LEMMA BystanderKept ==
  ASSUME IInv, Kept, Typed', NEW v \in Writers, proc'[v] = proc[v]
  PROVE  WriterConsistent(v)'
<1> DEFINE r == proc[v].rev
<1>1. r \in Existing /\ r \in Existing'
  BY ExistingKept DEF IInv, WriterConsistent
<1>2. Puts(v)' => /\ proc[v].bundle \in Contents
                  /\ rows'[r].content = proc[v].bundle
  BY <1>1 DEF IInv, WriterConsistent, Kept, Puts, Contents, NoContent
<1>3. ASSUME proc[v].step \in {"unlock", "complete"},
             rows'[r].status \in {"pending", "ready"}
      PROVE  Whole(dirs'[r], proc[v].bundle)
  <2>1. rows[r].status \in {"pending", "ready"}
    BY <1>1, <1>3 DEF Kept
  <2>2. Puts(v) /\ rows[r].content = proc[v].bundle /\ Whole(dirs[r], rows[r].content)
    BY <1>3, <2>1 DEF IInv, WriterConsistent, Puts, PutSteps
  <2>3. ~(Given(r) /\ M.step = "unlink")
    <3>1. CASE v = "maintenance"
      BY <1>3, <3>1 DEF M
    <3>2. CASE v # "maintenance"
      BY <2>2, <3>2 DEF Given
    <3> QED
      BY <3>1, <3>2
  <2> QED
    BY <1>1, <1>2, <1>3, <2>2, <2>3 DEF Kept, Puts
<1> QED
  BY <1>1, <1>2, <1>3 DEF WriterConsistent

LEMMA ReadyKept ==
  ASSUME IInv, Kept, NEW r \in Existing', rows'[r].status = "ready"
  PROVE  Whole(dirs'[r], rows'[r].content)
<1>1. r \in Existing
  BY DEF Kept
<1>2. CASE rows[r].status = "ready"
  BY <1>1, <1>2 DEF IInv, Kept
<1>3. CASE rows[r].status # "ready"
  BY <1>1, <1>3 DEF Kept
<1> QED
  BY <1>2, <1>3

\* What a maintenance may delete it still may after a step of another writer,
\* or one of its own: only a put makes a row ready, and nobody puts what is
\* given up.
LEMMA MaintenanceKept ==
  ASSUME IInv, Kept, Typed', NEW m \in Process, MaintenanceAt(m),
         m.rev \in Existing,
         m.step # "idle" /\ m.phase = "orphans" => ~Puts("maintenance"),
         \A w \in Writers : proc'[w] = proc[w] \/ StartsNoGiven(w)
  PROVE  MaintenanceAt(m)'
<1>1. m.todo \cup m.before \subseteq Existing'
  BY ExistingKept DEF MaintenanceAt
<1>2. \A r \in m.before : r \in Existing /\ Given(r) /\ Given(r)'
  BY GivenKept DEF MaintenanceAt
<1>3. Deleting(m) \subseteq Existing
  BY DEF Deletes, Deleting, MaintenanceAt
<1>4. ASSUME m.step # "idle", m.phase = "expire", NEW r \in Deleting(m)
      PROVE  rows'[r].status = "expired"
  BY <1>3, <1>4 DEF MaintenanceAt, Kept
<1>5. ASSUME m.step # "idle", m.phase = "orphans",
             NEW r \in Deleting(m) \cap m.before
      PROVE  rows'[r].status # "ready"
  <2>1. rows[r].status # "ready" /\ r \in Existing /\ Given(r)
    BY <1>2, <1>5 DEF MaintenanceAt
  <2>2. ~Puts("maintenance")
    BY <1>5
  <2>3. \A w \in Writers : proc[w].rev = r => ~Puts(w)
    BY <2>1, <2>2 DEF Given
  <2> QED
    BY <2>1, <2>3 DEF Kept
<1> QED
  BY <1>1, <1>2, <1>4, <1>5 DEF MaintenanceAt, Deleting, Deletes

\* The writers that do not move see what every step keeps; it is the one that
\* moves, the rows and the files that a step has to answer for.
LEMMA StepKeeps ==
  ASSUME IInv, Typed', DataConsistent', Kept,
         \A r \in Revisions : dirs'[r].old =>
           dirs[r].old \/ (r \in Existing /\ Given(r)),
         \A w \in Writers :
           proc'[w] = proc[w] \/ (StartsNoGiven(w) /\ WriterConsistent(w)'),
         M' = M \/ MaintenanceConsistent'
  PROVE  IInv'
<1>1. \A w \in Writers : WriterConsistent(w)'
  BY BystanderKept
<1>2. MaintenanceConsistent'
  <2> SUFFICES ASSUME M' = M PROVE MaintenanceAt(M)'
    BY DEF MaintenanceConsistent
  <2>1. M \in Process /\ M.rev \in Existing /\ MaintenanceAt(M)
    BY DEF IInv, Typed, M, WriterConsistent, Writers, MaintenanceConsistent
  <2>2. M.step # "idle" /\ M.phase = "orphans" => ~Puts("maintenance")
    BY <2>1 DEF MaintenanceAt, Puts, PutSteps, Deletes, M
  <2> DEFINE m == M
  <2> QED
    BY <2>1, <2>2, MaintenanceKept
<1>3. ASSUME NEW r \in Revisions, dirs'[r].old
      PROVE  r \in Existing' /\ Given(r)'
  <2>1. r \in Existing /\ Given(r)
    BY <1>3 DEF IInv
  <2> QED
    BY <2>1, GivenKept, ExistingKept
<1> QED
  BY <1>1, <1>2, <1>3, ReadyKept DEF IInv

-----------------------------------------------------------------------------
(* Recording *)

RecordSteps ==
  {"prepare", "enqueue", "claim", "outdated", "complete", "defer", "supersede",
   "fail"} \cup PutSteps

\* Writer w goes on with p, and is still recording, or done with it.
GoesOn(w, p) ==
  /\ p \in Process /\ proc' = [proc EXCEPT ![w] = p]
  /\ w = "maintenance" =>
       /\ p.phase = M.phase /\ p.todo = M.todo /\ p.before = M.before
       /\ p.step \in RecordSteps \cup {"next"}

LEMMA RecordStep ==
  ASSUME IInv, NEW w \in Writers, proc[w].step \in RecordSteps,
         NEW p, GoesOn(w, p), Typed', DataConsistent', Kept,
         \A r \in Revisions : dirs'[r].old =>
           dirs[r].old \/ (r \in Existing /\ Given(r)),
         StartsNoGiven(w), WriterConsistent(w)'
  PROVE  IInv'
<1>1. \A v \in Writers : proc'[v] = proc[v] \/ v = w
  BY DEF IInv, Typed, GoesOn
<1>2. M' = M \/ MaintenanceConsistent'
  <2>1. CASE w # "maintenance"
    BY <1>1, <2>1 DEF M, Writers
  <2>2. CASE w = "maintenance"
    <3>1. M' = p /\ p.phase = M.phase /\ p.todo = M.todo /\ p.before = M.before
      BY <2>2 DEF IInv, Typed, GoesOn, M
    <3>2. M.phase \notin {"expire", "orphans"}
      BY <2>2 DEF IInv, MaintenanceConsistent, MaintenanceAt, M, RecordSteps,
                  PutSteps, Deletes
    <3>3. p.step \notin {"list", "unlink", "clear"}
      BY <2>2 DEF GoesOn, RecordSteps, PutSteps
    <3>4. M.todo \cup M.before \subseteq Existing'
      BY ExistingKept DEF IInv, MaintenanceConsistent, MaintenanceAt
    <3>5. \A r \in M.before : Given(r)'
      BY <1>1, GivenKept DEF IInv, MaintenanceConsistent, MaintenanceAt
    <3>6. M.phase # "record"
      BY <2>2 DEF IInv, MaintenanceConsistent, MaintenanceAt, M, RecordSteps,
                  PutSteps
    <3> QED
      BY <3>1, <3>2, <3>3, <3>4, <3>5, <3>6
        DEF MaintenanceConsistent, MaintenanceAt, Deletes
  <2> QED
    BY <2>1, <2>2
<1> QED
  BY <1>1, <1>2, StepKeeps

\* A recording that ends, or goes on without having touched anything and
\* without a put of its own, keeps everything.
LEMMA AfterGoesOn ==
  ASSUME IInv, NEW w \in Writers, Ends(w)
  PROVE  /\ GoesOn(w, After(w)) /\ StartsNoGiven(w) /\ ~Puts(w)'
         /\ proc'[w].rev = 1
<1>1. 1 \in Revisions
  BY SnapshotBounds DEF Revisions
<1>2. After(w) \in Process
  <2>1. Idle \in Process
    BY <1>1 DEF Idle, Process, Steps, Phases
  <2>2. CASE w = "maintenance"
    <3>1. proc[w] \in Process /\ "next" \in Steps
      BY DEF IInv, Typed, Steps
    <3> QED
      BY <1>1, <2>2, <3>1 DEF After, Process
  <2> QED
    BY <2>1, <2>2 DEF After
<1>3. proc'[w] = After(w) /\ After(w).step \in {"idle", "next"}
      /\ After(w).rev = 1
  BY <1>2 DEF IInv, Typed, Ends, After, Idle, Process
<1>4. ~Puts(w)'
  BY <1>3 DEF Puts, PutSteps
<1>5. w = "maintenance" => /\ After(w).phase = M.phase /\ After(w).todo = M.todo
                           /\ After(w).before = M.before
                           /\ After(w).step = "next"
  BY DEF IInv, Typed, After, M, Process
<1> QED
  BY <1>2, <1>3, <1>4, <1>5 DEF GoesOn, StartsNoGiven, Ends

LEMMA OneExists ==
  ASSUME Typed PROVE 1 \in Existing /\ Len(rows) \in Existing
BY SnapshotBounds DEF Typed, Existing, Revisions

LEMMA EndsConsistent ==
  ASSUME IInv, Typed', NEW w \in Writers, Ends(w)
  PROVE  WriterConsistent(w)'
<1>1. 1 \in Existing'
  BY SnapshotBounds DEF Typed, Existing, Revisions
<1> QED
  BY <1>1, AfterGoesOn DEF WriterConsistent, Puts, PutSteps

LEMMA RecordEnds ==
  ASSUME IInv, NEW w \in Writers, proc[w].step \in RecordSteps, Ends(w),
         Typed', DataConsistent', Kept,
         \A r \in Revisions : dirs'[r].old =>
           dirs[r].old \/ (r \in Existing /\ Given(r))
  PROVE  IInv'
BY AfterGoesOn, EndsConsistent, RecordStep

\* A step within one revision.
LEMMA GotoGoesOn ==
  ASSUME IInv, NEW w \in Writers, NEW step \in RecordSteps, Goto(w, step)
  PROVE  /\ GoesOn(w, [proc[w] EXCEPT !.step = step])
         /\ proc' \in [Writers -> Process]
         /\ proc'[w].step = step /\ proc'[w].rev = proc[w].rev
         /\ proc'[w].bundle = proc[w].bundle
<1>1. step \in Steps
  BY DEF RecordSteps, PutSteps, Steps
<1> QED
  BY <1>1 DEF IInv, Typed, Goto, GoesOn, Process, M

LEMMA NothingWritten ==
  ASSUME IInv, UNCHANGED <<rows, outbox, dirs>>
  PROVE  DataConsistent' /\ Kept
<1>1. DataConsistent'
  BY DEF IInv, DataConsistent, NewestIsCurrent, OutboxBelongsToPending,
         RowConsistent, FilesFollowRow, Existing, Has
<1>2. Kept
  BY DEF IInv, Typed, Kept, Existing, Has, Row
<1> QED
  BY <1>1, <1>2

-----------------------------------------------------------------------------
(* Steps on one row *)

\* Only revision r and its payload change.
Touches(r) ==
  /\ rows' \in Seq(Row) /\ Len(rows') = Len(rows)
  /\ \A q \in Existing \ {r} : rows'[q] = rows[q]
  /\ outbox' \in [Revisions -> Payload \cup {NoPayload}]
  /\ \A q \in Revisions \ {r} : outbox'[q] = outbox[q]
  /\ dirs' = dirs

LEMMA RowTouched ==
  ASSUME IInv, NEW r \in Existing, Touches(r),
         rows'[r].current = rows[r].current,
         outbox'[r] # NoPayload =>
           /\ rows'[r].status = "pending" /\ rows'[r].current
           /\ rows'[r].content = outbox'[r].content,
         rows'[r].status = "pending" /\ rows'[r].content # NoContent =>
           outbox'[r] # NoPayload,
         rows'[r].status = "ready" =>
           rows'[r].content \in Contents /\ rows'[r].stored,
         rows[r].content # NoContent => rows'[r].content = rows[r].content,
         rows[r].status # "pending" =>
           rows'[r].status \in {rows[r].status, "expired"},
         rows'[r].status = "pending" /\ Has(r) /\ outbox[r].expired =>
           outbox'[r] # NoPayload /\ outbox'[r].expired,
         rows'[r].status = "ready" /\ rows[r].status # "ready" =>
           /\ Whole(dirs[r], rows'[r].content)
           /\ \E w \in Writers : Puts(w) /\ proc[w].rev = r
  PROVE  DataConsistent' /\ Kept
<1>1. Existing' = Existing /\ Existing \subseteq Revisions
  BY SnapshotBounds DEF Touches, Existing, IInv, Typed, Revisions
<1>2. NewestIsCurrent'
  BY <1>1 DEF Touches, IInv, DataConsistent, NewestIsCurrent
<1>3. OutboxBelongsToPending'
  <2> SUFFICES ASSUME NEW q \in Revisions, outbox'[q] # NoPayload
               PROVE  /\ q \in Existing' /\ rows'[q].status = "pending"
                      /\ rows'[q].current /\ rows'[q].content = outbox'[q].content
    BY DEF OutboxBelongsToPending, Has
  <2>1. CASE q = r
    BY <1>1, <2>1
  <2>2. CASE q # r
    <3>1. Has(q) /\ outbox'[q] = outbox[q]
      BY <2>2 DEF Touches, Has
    <3>2. q \in Existing /\ rows'[q] = rows[q]
      BY <2>2, <3>1 DEF IInv, DataConsistent, OutboxBelongsToPending, Touches
    <3> QED
      BY <1>1, <3>1, <3>2 DEF IInv, DataConsistent, OutboxBelongsToPending
  <2> QED
    BY <2>1, <2>2
<1>4. ASSUME NEW q \in Existing PROVE RowConsistent(q)'
  <2>1. CASE q = r
    BY <2>1 DEF RowConsistent, Has
  <2>2. CASE q # r
    BY <1>1, <2>2 DEF RowConsistent, Has, IInv, DataConsistent, Touches
  <2> QED
    BY <2>1, <2>2
<1>5. ASSUME NEW q \in Revisions PROVE FilesFollowRow(q)'
  <2>1. FilesFollowRow(q) /\ dirs'[q] = dirs[q]
    BY DEF IInv, DataConsistent, Touches
  <2>2. q \in Existing /\ rows[q].content # NoContent =>
          rows'[q].content = rows[q].content
    BY DEF Touches
  <2> QED
    BY <1>1, <2>1, <2>2 DEF FilesFollowRow
<1>6. ASSUME NEW q \in Existing
      PROVE  /\ rows[q].content # NoContent => rows'[q].content = rows[q].content
             /\ rows[q].status # "pending" =>
                  rows'[q].status \in {rows[q].status, "expired"}
             /\ rows'[q].status = "pending" /\ Has(q) /\ outbox[q].expired =>
                  Has(q)' /\ outbox'[q].expired
             /\ Whole(dirs[q], rows[q].content) => Whole(dirs'[q], rows'[q].content)
             /\ rows'[q].status = "ready" /\ rows[q].status # "ready" =>
                  /\ Whole(dirs'[q], rows'[q].content)
                  /\ \E w \in Writers : Puts(w) /\ proc[w].rev = q
  <2>1. CASE q = r
    BY <2>1 DEF Touches, Whole, Has
  <2>2. CASE q # r
    BY <1>1, <2>2 DEF Touches, Has
  <2> QED
    BY <2>1, <2>2
<1>7. Kept
  <2>1. Len(rows) <= Len(rows')
    BY DEF Touches, IInv, Typed, Revisions
  <2> QED
    BY <1>1, <1>6, <2>1 DEF Kept
<1> QED
  BY <1>1, <1>2, <1>3, <1>4, <1>5, <1>7 DEF DataConsistent

\* Only the current row is followed by a new one; what it had is given up.
LEMMA RowAdded ==
  ASSUME IInv, NEW r \in Existing, rows[r].current, NEW v \in Row,
         ~v.current, v.status # "pending", v.content = rows[r].content,
         v.stored = rows[r].stored,
         rows[r].status # "pending" => v.status = rows[r].status,
         rows[r].status = "pending" => v.status # "ready",
         NEW c \in Contents \cup {NoContent}, Len(rows) + 1 \in Revisions,
         rows' = Append([rows EXCEPT ![r] = v], [Reserved EXCEPT !.content = c]),
         outbox' \in [Revisions -> Payload \cup {NoPayload}],
         outbox'[r] = NoPayload,
         outbox'[Len(rows) + 1] = NoPayload <=> c = NoContent,
         outbox'[Len(rows) + 1].content = c,
         \A q \in Revisions \ {r, Len(rows) + 1} : outbox'[q] = outbox[q],
         dirs' = dirs
  PROVE  /\ rows' \in Seq(Row) /\ Len(rows') = Len(rows) + 1
         /\ DataConsistent' /\ Kept
<1> DEFINE n == Len(rows) + 1
           fresh == [Reserved EXCEPT !.content = c]
           s == [rows EXCEPT ![r] = v]
<1>1. /\ fresh \in Row /\ fresh.status = "pending" /\ fresh.current
      /\ fresh.content = c
  BY DEF Reserved, Row, Contents, NoContent
<1>2. /\ s \in Seq(Row) /\ Len(s) = Len(rows)
      /\ \A q \in Existing : s[q] = IF q = r THEN v ELSE rows[q]
  BY RowWritten DEF IInv, Typed
<1> HIDE DEF s, fresh
<1>3. /\ rows' \in Seq(Row) /\ Len(rows') = n
      /\ \A q \in Existing : rows'[q] = IF q = r THEN v ELSE rows[q]
      /\ rows'[n] = fresh
  BY <1>1, <1>2, RowAppended DEF s, fresh, Existing
<1>4. r = Len(rows) /\ Len(rows) \in Nat
  BY DEF IInv, Typed, DataConsistent, NewestIsCurrent, Revisions
<1>5. /\ Existing' = Existing \cup {n} /\ n \notin Existing
      /\ Existing' \subseteq Revisions
  <2>1. Len(rows') = Len(rows) + 1 /\ Len(rows) + 1 \in 1..MaxRevision
    BY <1>3 DEF Revisions
  <2> QED
    BY <1>4, <2>1, SnapshotBounds DEF Existing, Revisions
<1> HIDE DEF n
<1>6. NewestIsCurrent'
  <2> SUFFICES ASSUME NEW q \in Existing' PROVE rows'[q].current <=> q = n
    BY <1>3 DEF NewestIsCurrent
  <2>1. CASE q = n
    BY <1>1, <1>3, <2>1
  <2>2. CASE q # n /\ q = r
    BY <1>3, <2>2
  <2>3. CASE q # n /\ q # r
    BY <1>3, <1>4, <1>5, <2>3 DEF IInv, DataConsistent, NewestIsCurrent
  <2> QED
    BY <2>1, <2>2, <2>3
<1>7. ASSUME NEW q \in Revisions, q # n PROVE outbox'[q] = NoPayload
  <2>1. CASE q = r
    BY <2>1
  <2>2. CASE q # r
    BY <1>4, <1>5, <1>7, <2>2
      DEF IInv, DataConsistent, OutboxBelongsToPending, NewestIsCurrent, Has, n
  <2> QED
    BY <2>1, <2>2
<1>8. OutboxBelongsToPending'
  BY <1>1, <1>3, <1>5, <1>7 DEF OutboxBelongsToPending, Has, n
<1>9. ASSUME NEW q \in Existing' PROVE RowConsistent(q)'
  <2>1. CASE q = n
    BY <1>1, <1>3, <2>1 DEF RowConsistent, Has, n
  <2>2. CASE q # n
    <3>1. q \in Existing /\ q \in Revisions /\ RowConsistent(q)
      BY <1>5, <2>2 DEF IInv, DataConsistent
    <3>2. CASE q = r
      BY <1>3, <3>1, <3>2 DEF RowConsistent
    <3>3. CASE q # r
      <4>1. rows'[q] = rows[q] /\ outbox'[q] = outbox[q]
        BY <1>3, <2>2, <3>1, <3>3 DEF n
      <4> QED
        BY <3>1, <4>1 DEF RowConsistent, Has
    <3> QED
      BY <3>2, <3>3
  <2> QED
    BY <2>1, <2>2
<1>10. ASSUME NEW q \in Revisions PROVE FilesFollowRow(q)'
  <2>1. FilesFollowRow(q)
    BY DEF IInv, DataConsistent
  <2>2. q \in Existing => q \in Existing' /\ rows'[q].content = rows[q].content
    BY <1>3, <1>5
  <2> QED
    BY <2>1, <2>2 DEF FilesFollowRow
<1>11. ASSUME NEW q \in Existing
       PROVE  /\ rows'[q].content = rows[q].content
              /\ rows[q].status # "pending" => rows'[q].status = rows[q].status
              /\ rows'[q].status = "pending" /\ Has(q) /\ outbox[q].expired =>
                   Has(q)' /\ outbox'[q].expired
              /\ rows'[q].status = "ready" => rows[q].status = "ready"
  <2>1. CASE q = r
    BY <1>3, <2>1
  <2>2. CASE q # r
    <3>1. rows'[q] = rows[q] /\ outbox'[q] = outbox[q]
      BY <1>3, <1>5, <2>2 DEF n
    <3> QED
      BY <3>1 DEF Has
  <2> QED
    BY <2>1, <2>2
<1>12. Kept
  <2>1. Len(rows) <= Len(rows')
    BY <1>3, <1>4 DEF n
  <2>2. \A q \in Existing' \ Existing : rows'[q].status # "ready"
    BY <1>1, <1>3, <1>5
  <2> QED
    BY <1>11, <2>1, <2>2 DEF Kept
<1> QED
  BY <1>3, <1>6, <1>8, <1>9, <1>10, <1>12 DEF DataConsistent, n

-----------------------------------------------------------------------------
(* The operations on rows and outbox *)

LEMMA PayloadType ==
  /\ NoPayload \notin Payload /\ NoContent \notin Contents
  /\ \A o \in Payload \cup {NoPayload} :
       /\ o # NoPayload <=> o.content \in Contents
       /\ o = NoPayload <=> o.content = NoContent
       /\ o.expired \in BOOLEAN /\ o.due \in BOOLEAN
  /\ \A c \in Contents : Queued(c) \in Payload
<1>1. NoContent \notin Contents
  BY DEF Contents, NoContent
<1>2. /\ NoPayload.content = NoContent
      /\ NoPayload.expired = FALSE /\ NoPayload.due = FALSE
  BY DEF NoPayload
<1>3. \A o \in Payload :
        o.content \in Contents /\ o.expired \in BOOLEAN /\ o.due \in BOOLEAN
  BY DEF Payload
<1>4. \A c \in Contents : Queued(c) \in Payload
  BY DEF Payload, Queued
<1>5. NoPayload \notin Payload
  BY <1>1, <1>2, <1>3
<1> QED
  BY <1>1, <1>2, <1>3, <1>4, <1>5

LEMMA ExistingRow ==
  ASSUME IInv, NEW r \in Existing
  PROVE  r \in Revisions /\ rows[r] \in Row /\ RowConsistent(r)
<1>1. r \in Revisions
  BY SnapshotBounds DEF Existing, IInv, Typed, Revisions
<1>2. rows[r] \in Row
  BY DEF Existing, IInv, Typed
<1> QED
  BY <1>1, <1>2 DEF IInv, DataConsistent

\* FailPending, also with the status it did not touch.
LEMMA FailPendingKeeps ==
  ASSUME IInv, NEW r \in Existing, FailPending(r), dirs' = dirs
  PROVE  /\ Touches(r) /\ DataConsistent' /\ Kept
<1>1. r \in Revisions /\ rows[r] \in Row
  BY ExistingRow
<1>2. [rows[r] EXCEPT !.status = "failed"] \in Row
  BY <1>1 DEF Row
<1>3. Touches(r)
  <2>1. /\ rows' \in Seq(Row) /\ Len(rows') = Len(rows)
        /\ \A q \in Existing \ {r} : rows'[q] = rows[q]
    BY <1>2, RowWritten DEF FailPending, IInv, Typed
  <2> QED
    BY <1>1, <2>1 DEF Touches, FailPending, IInv, Typed
<1>4. /\ rows'[r].current = rows[r].current /\ rows'[r].content = rows[r].content
      /\ rows'[r].stored = rows[r].stored
      /\ rows'[r].status =
           IF rows[r].status = "pending" THEN "failed" ELSE rows[r].status
      /\ outbox'[r] = NoPayload
  <2>1. CASE rows[r].status = "pending"
    <3>1. rows'[r] = [rows[r] EXCEPT !.status = "failed"]
      BY <1>2, <2>1, RowWritten DEF FailPending, IInv, Typed
    <3> QED
      BY <1>1, <2>1, <3>1 DEF FailPending, IInv, Typed, Row
  <2>2. CASE rows[r].status # "pending"
    BY <1>1, <2>2 DEF FailPending, IInv, Typed
  <2> QED
    BY <2>1, <2>2
<1>5. RowConsistent(r)
  BY DEF IInv, DataConsistent
<1> QED
  BY <1>3, <1>4, <1>5, RowTouched DEF RowConsistent

\* A step that leaves the rows alone and changes one payload.
LEMMA PayloadChanged ==
  ASSUME IInv, NEW r \in Existing, NEW o \in Payload \cup {NoPayload},
         outbox' = [outbox EXCEPT ![r] = o], UNCHANGED <<rows, dirs>>,
         Has(r) \/ o # NoPayload =>
           /\ o # NoPayload
           /\ rows[r].status = "pending" /\ rows[r].current
           /\ rows[r].content = o.content,
         Has(r) /\ outbox[r].expired => o.expired
  PROVE  Touches(r) /\ DataConsistent' /\ Kept
<1>1. r \in Revisions /\ outbox'[r] = o
  BY ExistingRow DEF IInv, Typed
<1>2. Touches(r)
  BY <1>1 DEF Touches, IInv, Typed
<1>3. RowConsistent(r)
  BY DEF IInv, DataConsistent
<1>4. rows'[r] = rows[r]
  OBVIOUS
<1> QED
  BY <1>1, <1>2, <1>3, <1>4, RowTouched DEF RowConsistent, Has

LEMMA EnqueueKeeps ==
  ASSUME IInv, NEW r \in Existing, rows[r].current, NEW c \in Contents,
         dirs' = dirs, NEW action \in {"populate_reservation", "reuse_revision"},
         action = EnqueueAction(rows[r], c),
         action = "populate_reservation" => PopulateReservation(r, c),
         action = "reuse_revision" => ReuseRevision(r, c)
  PROVE  Touches(r) /\ DataConsistent' /\ Kept
<1>1. r \in Revisions /\ rows[r] \in Row /\ RowConsistent(r)
  BY ExistingRow
<1>2. rows[r].status \notin {"failed", "expired"}
  <2> SUFFICES ASSUME rows[r].status \in {"failed", "expired"} PROVE FALSE
    OBVIOUS
  <2>1. EnqueueAction(rows[r], c) = "create_revision"
    BY DEF EnqueueAction
  <2> QED
    BY <2>1
<1>3. Has(r) => outbox[r].content = rows[r].content /\ outbox[r].content \in Contents
  BY <1>1, PayloadType DEF IInv, DataConsistent, OutboxBelongsToPending, Typed, Has
<1>4. CASE action = "populate_reservation"
  <2>1. rows[r].content = NoContent
    BY <1>2, <1>4 DEF EnqueueAction
  <2>2. rows[r].status = "pending" /\ ~Has(r)
    <3>1. rows[r].status # "ready"
      BY <1>1, <2>1, PayloadType DEF RowConsistent
    <3> QED
      BY <1>1, <1>2, <1>3, <2>1, <3>1, PayloadType DEF Row
  <2>3. [rows[r] EXCEPT !.content = c] \in Row
    BY <1>1 DEF Row
  <2>4. /\ rows' = [rows EXCEPT ![r] = [rows[r] EXCEPT !.content = c]]
        /\ outbox' = [outbox EXCEPT ![r] = Queued(c)]
    BY <1>4, <2>2 DEF PopulateReservation
  <2>5. /\ rows' \in Seq(Row) /\ Len(rows') = Len(rows)
        /\ \A q \in Existing \ {r} : rows'[q] = rows[q]
        /\ rows'[r] = [rows[r] EXCEPT !.content = c]
    BY <2>3, <2>4, RowWritten DEF IInv, Typed
  <2>6. Touches(r) /\ outbox'[r] = Queued(c) /\ Queued(c) # NoPayload
    BY <1>1, <2>4, <2>5, PayloadType DEF Touches, IInv, Typed
  <2>7. /\ rows'[r].status = "pending" /\ rows'[r].current
        /\ rows'[r].content = c /\ Queued(c).content = c
    BY <1>1, <2>2, <2>5 DEF Row, Queued
  <2> QED
    BY <2>1, <2>2, <2>6, <2>7, RowTouched
<1>5. CASE action = "reuse_revision"
  <2>1. rows[r].content = c
    BY <1>2, <1>5 DEF EnqueueAction
  <2>2. ~(rows[r].status = "pending" /\ ~Has(r))
    BY <1>1, <2>1, PayloadType DEF RowConsistent
  <2>3. UNCHANGED <<rows, outbox, dirs>>
    BY <1>5, <2>2 DEF ReuseRevision
  <2> QED
    BY <2>3, NothingWritten DEF Touches, IInv, Typed
<1> QED
  BY <1>4, <1>5

LEMMA CreateKeeps ==
  ASSUME IInv, NEW r \in Existing, rows[r].current, NEW c \in Contents,
         dirs' = dirs, CreateRevision(r, c)
  PROVE  /\ rows' \in Seq(Row) /\ Len(rows') = Len(rows) + 1
         /\ rows'[Len(rows) + 1].status = "pending"
         /\ Len(rows) + 1 \in Revisions
         /\ outbox' \in [Revisions -> Payload \cup {NoPayload}]
         /\ DataConsistent' /\ Kept
<1> DEFINE n == Len(rows) + 1
           v == [rows[r] EXCEPT !.current = FALSE,
                   !.status = IF rows[r].status = "pending" THEN "failed"
                              ELSE rows[r].status]
<1>1. r \in Revisions /\ n \in Revisions /\ rows[r] \in Row /\ r # n
  <2>1. n \in Revisions
    BY DEF CreateRevision
  <2>2. r # n
    BY DEF Existing, IInv, Typed, Revisions
  <2> QED
    BY <2>1, <2>2, ExistingRow
<1>2. /\ v \in Row /\ ~v.current /\ v.status # "pending"
      /\ v.content = rows[r].content /\ v.stored = rows[r].stored
      /\ rows[r].status # "pending" => v.status = rows[r].status
      /\ rows[r].status = "pending" => v.status # "ready"
  BY <1>1 DEF Row
<1>3. rows' = Append([rows EXCEPT ![r] = v], [Reserved EXCEPT !.content = c])
  BY DEF CreateRevision
<1>4. /\ outbox' \in [Revisions -> Payload \cup {NoPayload}]
      /\ outbox'[r] = NoPayload /\ outbox'[n] = Queued(c)
      /\ \A q \in Revisions \ {r, n} : outbox'[q] = outbox[q]
  BY <1>1, PayloadType DEF CreateRevision, IInv, Typed
<1>5. Queued(c) # NoPayload /\ Queued(c).content = c /\ c # NoContent
  BY PayloadType DEF Queued
<1>6. rows'[n].status = "pending"
  <2>1. [rows EXCEPT ![r] = v] \in Seq(Row) /\ Len([rows EXCEPT ![r] = v]) = Len(rows)
    BY <1>2, RowWritten DEF IInv, Typed
  <2>2. [Reserved EXCEPT !.content = c] \in Row
    BY DEF Reserved, Row
  <2>3. rows'[n] = [Reserved EXCEPT !.content = c]
    BY <1>3, <2>1, <2>2, RowAppended
  <2> QED
    BY <2>3 DEF Reserved
<1> HIDE DEF v
<1> QED
  BY <1>1, <1>2, <1>3, <1>4, <1>5, <1>6, RowAdded

-----------------------------------------------------------------------------
(* The steps of a recording *)

LEMMA HoldsWhole ==
  ASSUME NEW r, NEW content
  PROVE  Holds(r, content) <=> Whole(dirs[r], content)
BY DEF Holds, Found, Whole

LEMMA FilesTouched ==
  ASSUME IInv, NEW r \in Existing, NEW d \in Directory,
         dirs' = [dirs EXCEPT ![r] = d], UNCHANGED <<rows, outbox>>,
         d.assets \in {NoContent, rows[r].content},
         d.manifest \in {NoContent, rows[r].content},
         \/ Whole(dirs[r], rows[r].content) => Whole(d, rows[r].content)
         \/ rows[r].status # "ready" /\ Given(r) /\ M.step = "unlink"
         \/ rows[r].status \notin {"pending", "ready"}
  PROVE  /\ dirs' \in [Revisions -> Directory] /\ DataConsistent' /\ Kept
         /\ dirs'[r] = d /\ \A q \in Revisions \ {r} : dirs'[q] = dirs[q]
<1>1. r \in Revisions
  BY ExistingRow
<1>2. /\ dirs' \in [Revisions -> Directory]
      /\ dirs'[r] = d /\ \A q \in Revisions \ {r} : dirs'[q] = dirs[q]
  BY <1>1 DEF IInv, Typed
<1>3. DataConsistent'
  <2>1. NewestIsCurrent' /\ OutboxBelongsToPending'
        /\ \A q \in Existing' : RowConsistent(q)'
    BY DEF IInv, DataConsistent, NewestIsCurrent, OutboxBelongsToPending,
           RowConsistent, Existing, Has
  <2>2. ASSUME NEW q \in Revisions PROVE FilesFollowRow(q)'
    <3>1. CASE q = r
      BY <1>2, <3>1 DEF FilesFollowRow, Existing
    <3>2. CASE q # r
      BY <1>2, <3>2 DEF FilesFollowRow, Existing, IInv, DataConsistent
    <3> QED
      BY <3>1, <3>2
  <2> QED
    BY <2>1, <2>2 DEF DataConsistent
<1>4. Kept
  <2>1. Len(rows) <= Len(rows') /\ Existing' = Existing
    BY DEF IInv, Typed, Revisions, Existing
  <2>2. ASSUME NEW q \in Existing,
               rows'[q].status \in {"pending", "ready"},
               Whole(dirs[q], rows[q].content)
        PROVE  \/ Whole(dirs'[q], rows'[q].content)
               \/ rows[q].status # "ready" /\ Given(q) /\ M.step = "unlink"
    <3>1. CASE q = r
      BY <1>2, <2>2, <3>1
    <3>2. CASE q # r
      BY <1>2, <2>2, <3>2, ExistingRow
    <3> QED
      BY <3>1, <3>2
  <2> QED
    BY <2>1, <2>2 DEF Kept, Has
<1> QED
  BY <1>2, <1>3, <1>4

LEMMA EventsKept ==
  ASSUME IInv, UNCHANGED constVars
  PROVE  UNCHANGED metVars /\ events' \in 0..MaxEvents
BY DEF IInv, Typed, constVars

\* A put goes on in its revision.
LEMMA PutGoesOn ==
  ASSUME IInv, NEW w \in Writers, Puts(w), NEW step \in RecordSteps,
         Goto(w, step), UNCHANGED <<rows, outbox, metVars>>,
         events' \in 0..MaxEvents, dirs' \in [Revisions -> Directory],
         DataConsistent', Kept,
         \A r \in Revisions : dirs'[r].old => dirs[r].old,
         step \in {"unlock", "complete"}
           /\ rows[proc[w].rev].status \in {"pending", "ready"} =>
             Whole(dirs'[proc[w].rev], proc[w].bundle)
  PROVE  IInv'
<1>1. /\ GoesOn(w, [proc[w] EXCEPT !.step = step])
      /\ proc' \in [Writers -> Process]
      /\ proc'[w].step = step /\ proc'[w].rev = proc[w].rev
      /\ proc'[w].bundle = proc[w].bundle
  BY GotoGoesOn
<1>2. Typed'
  BY <1>1 DEF IInv, Typed, metVars
<1>3. StartsNoGiven(w)
  BY <1>1 DEF StartsNoGiven, Given
<1>4. WriterConsistent(w)'
  BY <1>1 DEF IInv, WriterConsistent, Existing, Puts
<1>5. proc[w].step \in RecordSteps
  BY DEF Puts, RecordSteps
<1> QED
  BY <1>1, <1>2, <1>3, <1>4, <1>5, RecordStep DEF IInv

LEMMA PutMeets ==
  ASSUME IInv, NEW w \in Writers, Puts(w)
  PROVE  LET r == proc[w].rev IN
         /\ r \in Existing /\ r \in Revisions /\ dirs[r] \in Directory
         /\ rows[r].content = proc[w].bundle /\ proc[w].bundle \in Contents
         /\ dirs[r].assets \in {NoContent, proc[w].bundle}
         /\ dirs[r].manifest \in {NoContent, proc[w].bundle}
<1> DEFINE r == proc[w].rev
<1>1. r \in Existing /\ r \in Revisions
  BY ExistingRow DEF IInv, WriterConsistent
<1>2. FilesFollowRow(r) /\ dirs[r] \in Directory /\ WriterConsistent(w)
  BY <1>1 DEF IInv, DataConsistent, Typed
<1> QED
  BY <1>1, <1>2 DEF FilesFollowRow, WriterConsistent

LEMMA PutHeadKeeps ==
  ASSUME IInv, NEW w \in Writers, PutHead(w) PROVE IInv'
<1> DEFINE r == proc[w].rev
           step == IF Holds(r, proc[w].bundle) THEN "complete"
                   ELSE IF Found(r) = "missing" THEN "lock" ELSE "defer"
<1>1. Puts(w) /\ UNCHANGED <<rows, outbox, dirs, constVars>> /\ Goto(w, step)
  BY DEF PutHead, Puts, PutSteps, At
<1>2. step \in RecordSteps
  BY DEF RecordSteps, PutSteps
<1>3. step \in {"unlock", "complete"} => Whole(dirs'[r], proc[w].bundle)
  BY <1>1, HoldsWhole
<1> HIDE DEF step
<1> QED
  BY <1>1, <1>2, <1>3, NothingWritten, EventsKept, PutGoesOn DEF IInv, Typed

LEMMA AcquireWriteLockKeeps ==
  ASSUME IInv, NEW w \in Writers, AcquireWriteLock(w) PROVE IInv'
<1> DEFINE r == proc[w].rev
           d == [dirs[r] EXCEPT !.lock = TRUE]
<1>1. Puts(w) /\ UNCHANGED <<rows, outbox, constVars>>
  BY DEF AcquireWriteLock, Puts, PutSteps, At
<1>2. {"defer", "write"} \subseteq RecordSteps
  BY DEF RecordSteps, PutSteps
<1>3. CASE Goto(w, "defer") /\ UNCHANGED dirs
  BY <1>1, <1>2, <1>3, NothingWritten, EventsKept, PutGoesOn DEF IInv, Typed
<1>4. CASE Goto(w, "write") /\ dirs' = [dirs EXCEPT ![r].lock = TRUE]
  <2>1. /\ d \in Directory /\ d.assets = dirs[r].assets /\ d.old = dirs[r].old
        /\ d.manifest = dirs[r].manifest /\ dirs' = [dirs EXCEPT ![r] = d]
    BY <1>1, <1>4, PutMeets DEF Directory
  <2> HIDE DEF d
  <2>2. Whole(dirs[r], rows[r].content) => Whole(d, rows[r].content)
    BY <2>1 DEF Whole
  <2>3. /\ dirs' \in [Revisions -> Directory] /\ DataConsistent' /\ Kept
        /\ \A q \in Revisions : dirs'[q].old => dirs[q].old
    BY <1>1, <2>1, <2>2, PutMeets, FilesTouched
  <2> QED
    BY <1>1, <1>2, <1>4, <2>3, EventsKept, PutGoesOn
<1> QED
  BY <1>3, <1>4 DEF AcquireWriteLock

LEMMA WriteAssetsKeeps ==
  ASSUME IInv, NEW w \in Writers, WriteAssets(w) PROVE IInv'
<1> DEFINE r == proc[w].rev
           d == [dirs[r] EXCEPT !.assets = proc[w].bundle]
<1>1. Puts(w) /\ UNCHANGED <<rows, outbox, constVars>>
  BY DEF WriteAssets, Puts, PutSteps, At
<1>2. {"manifest", "unlock", "abandon"} \subseteq RecordSteps
  BY DEF RecordSteps, PutSteps
<1>3. CASE Found(r) = "missing"
  <2>1. Goto(w, "manifest") /\ dirs' = [dirs EXCEPT ![r].assets = proc[w].bundle]
    BY <1>3 DEF WriteAssets
  <2>2. /\ d \in Directory /\ d.assets = proc[w].bundle /\ d.old = dirs[r].old
        /\ d.manifest = dirs[r].manifest /\ dirs' = [dirs EXCEPT ![r] = d]
    BY <1>1, <2>1, PutMeets DEF Directory
  <2> HIDE DEF d
  <2>3. ~Whole(dirs[r], rows[r].content)
    BY <1>3 DEF Found, Whole
  <2>4. /\ dirs' \in [Revisions -> Directory] /\ DataConsistent' /\ Kept
        /\ \A q \in Revisions : dirs'[q].old => dirs[q].old
    BY <1>1, <2>2, <2>3, PutMeets, FilesTouched
  <2> QED
    BY <1>1, <1>2, <2>1, <2>4, EventsKept, PutGoesOn
<1>4. CASE Found(r) # "missing" /\ Holds(r, proc[w].bundle)
  <2>1. Goto(w, "unlock") /\ UNCHANGED dirs /\ Whole(dirs[r], proc[w].bundle)
    BY <1>4, HoldsWhole DEF WriteAssets
  <2> QED
    BY <1>1, <1>2, <2>1, NothingWritten, EventsKept, PutGoesOn DEF IInv, Typed
<1>5. CASE Found(r) # "missing" /\ ~Holds(r, proc[w].bundle)
  <2>1. Goto(w, "abandon") /\ UNCHANGED dirs
    BY <1>5 DEF WriteAssets
  <2> QED
    BY <1>1, <1>2, <2>1, NothingWritten, EventsKept, PutGoesOn DEF IInv, Typed
<1> QED
  BY <1>3, <1>4, <1>5

LEMMA RenameManifestKeeps ==
  ASSUME IInv, NEW w \in Writers, RenameManifest(w) PROVE IInv'
<1> DEFINE r == proc[w].rev
           d == [dirs[r] EXCEPT !.manifest = proc[w].bundle, !.old = FALSE]
           step == IF dirs[r].assets = proc[w].bundle THEN "unlock" ELSE "abandon"
<1>1. Puts(w) /\ UNCHANGED <<rows, outbox, constVars>> /\ Goto(w, step)
  BY DEF RenameManifest, Puts, PutSteps, At
<1>2. step \in RecordSteps
  BY DEF RecordSteps, PutSteps
<1>3. /\ d \in Directory /\ d.assets = dirs[r].assets /\ ~d.old
      /\ d.manifest = proc[w].bundle /\ dirs' = [dirs EXCEPT ![r] = d]
  BY <1>1, PutMeets DEF Directory, RenameManifest
<1> HIDE DEF d
<1>4. Whole(dirs[r], rows[r].content) => Whole(d, rows[r].content)
  BY <1>1, <1>3, PutMeets DEF Whole
<1>5. /\ dirs' \in [Revisions -> Directory] /\ DataConsistent' /\ Kept
      /\ dirs'[r] = d /\ \A q \in Revisions : dirs'[q].old => dirs[q].old
  BY <1>1, <1>3, <1>4, PutMeets, FilesTouched
<1>6. step = "unlock" => Whole(dirs'[r], proc[w].bundle)
  BY <1>1, <1>3, <1>5, PutMeets, PayloadType DEF Whole
<1>7. step # "complete"
  OBVIOUS
<1> HIDE DEF step
<1> QED
  BY <1>1, <1>2, <1>5, <1>6, <1>7, EventsKept, PutGoesOn

LEMMA UnlockKeeps ==
  ASSUME IInv, NEW w \in Writers, Unlock(w) PROVE IInv'
<1> DEFINE r == proc[w].rev
           d == [dirs[r] EXCEPT !.lock = FALSE]
<1>1. Puts(w) /\ UNCHANGED <<rows, outbox, constVars>> /\ Goto(w, "complete")
      /\ proc[w].step = "unlock"
  BY DEF Unlock, Puts, PutSteps, At
<1>2. /\ d \in Directory /\ d.assets = dirs[r].assets /\ d.old = dirs[r].old
      /\ d.manifest = dirs[r].manifest /\ dirs' = [dirs EXCEPT ![r] = d]
  BY <1>1, PutMeets DEF Directory, Unlock
<1> HIDE DEF d
<1>3. \A c : Whole(dirs[r], c) => Whole(d, c)
  BY <1>2 DEF Whole
<1>4. /\ dirs' \in [Revisions -> Directory] /\ DataConsistent' /\ Kept
      /\ dirs'[r] = d /\ \A q \in Revisions : dirs'[q].old => dirs[q].old
  BY <1>1, <1>2, <1>3, PutMeets, FilesTouched
<1>5. rows[r].status \in {"pending", "ready"} => Whole(dirs'[r], proc[w].bundle)
  BY <1>1, <1>3, <1>4 DEF IInv, WriterConsistent
<1>6. "complete" \in RecordSteps
  BY DEF RecordSteps
<1> QED
  BY <1>1, <1>4, <1>5, <1>6, EventsKept, PutGoesOn

LEMMA AbandonKeeps ==
  ASSUME IInv, NEW w \in Writers, Abandon(w) PROVE IInv'
<1> DEFINE r == proc[w].rev
           d == [dirs[r] EXCEPT
                   !.assets = IF dirs[r].manifest = NoContent THEN NoContent
                              ELSE dirs[r].assets,
                   !.lock = FALSE]
<1>1. Puts(w) /\ UNCHANGED <<rows, outbox, constVars>> /\ Goto(w, "defer")
  BY DEF Abandon, Puts, PutSteps, At
<1>2. /\ d \in Directory /\ d.assets \in {NoContent, dirs[r].assets}
      /\ dirs[r].manifest # NoContent => d.assets = dirs[r].assets
      /\ d.old = dirs[r].old
      /\ d.manifest = dirs[r].manifest /\ dirs' = [dirs EXCEPT ![r] = d]
  BY <1>1, PutMeets DEF Directory, Abandon
<1> HIDE DEF d
<1>3. Whole(dirs[r], rows[r].content) => Whole(d, rows[r].content)
  BY <1>2 DEF Whole
<1>4. /\ dirs' \in [Revisions -> Directory] /\ DataConsistent' /\ Kept
      /\ \A q \in Revisions : dirs'[q].old => dirs[q].old
  BY <1>1, <1>2, <1>3, PutMeets, FilesTouched
<1>5. "defer" \in RecordSteps
  BY DEF RecordSteps
<1> QED
  BY <1>1, <1>4, <1>5, EventsKept, PutGoesOn

\* A recording goes on in its revision, or in the one it has just made, and is
\* not putting yet.
LEMMA RecordGoesOn ==
  ASSUME IInv, NEW w \in Writers, proc[w].step \in RecordSteps,
         NEW step \in RecordSteps, step \notin PutSteps \cup {"complete"},
         Goto(w, step), UNCHANGED metVars, events' \in 0..MaxEvents,
         dirs' = dirs,
         rows' \in Seq(Row), Len(rows') \in Revisions,
         outbox' \in [Revisions -> Payload \cup {NoPayload}],
         DataConsistent', Kept
  PROVE  IInv'
<1>1. /\ GoesOn(w, [proc[w] EXCEPT !.step = step])
      /\ proc' \in [Writers -> Process]
      /\ proc'[w].step = step /\ proc'[w].rev = proc[w].rev
  BY GotoGoesOn
<1>2. Typed'
  BY <1>1 DEF IInv, Typed, metVars
<1>3. ~Puts(w)' /\ proc'[w].step \notin {"unlock", "complete"}
  BY <1>1 DEF Puts, PutSteps
<1>4. proc'[w].rev \in Existing'
  BY <1>1, <1>2, ExistingKept DEF IInv, WriterConsistent
<1>5. StartsNoGiven(w) /\ WriterConsistent(w)'
  BY <1>3, <1>4 DEF StartsNoGiven, WriterConsistent
<1> QED
  BY <1>1, <1>2, <1>5, RecordStep DEF IInv

LEMMA RecordStops ==
  ASSUME IInv, NEW w \in Writers, proc[w].step \in RecordSteps, Ends(w),
         UNCHANGED metVars, events' \in 0..MaxEvents, dirs' = dirs,
         rows' \in Seq(Row), Len(rows') \in Revisions,
         outbox' \in [Revisions -> Payload \cup {NoPayload}],
         DataConsistent', Kept
  PROVE  IInv'
<1>1. GoesOn(w, After(w))
  BY AfterGoesOn
<1>2. Typed'
  BY <1>1 DEF IInv, Typed, metVars, GoesOn
<1> QED
  BY <1>2, RecordEnds DEF IInv

LEMMA Unmoved ==
  ASSUME IInv, UNCHANGED <<rows, outbox>>
  PROVE  /\ rows' \in Seq(Row) /\ Len(rows') \in Revisions
         /\ outbox' \in [Revisions -> Payload \cup {NoPayload}]
BY DEF IInv, Typed

LEMMA TouchedTypes ==
  ASSUME IInv, NEW r, Touches(r)
  PROVE  /\ rows' \in Seq(Row) /\ Len(rows') \in Revisions
         /\ outbox' \in [Revisions -> Payload \cup {NoPayload}]
         /\ dirs' = dirs
BY DEF IInv, Typed, Touches

\* One of the ways FailPending ends a recording.
LEMMA FailPendingStops ==
  ASSUME IInv, NEW w \in Writers, proc[w].step \in RecordSteps,
         FailPending(proc[w].rev), Ends(w), UNCHANGED <<dirs, constVars>>
  PROVE  IInv'
<1>1. proc[w].rev \in Existing
  BY DEF IInv, WriterConsistent
<1>2. Touches(proc[w].rev) /\ DataConsistent' /\ Kept
  BY <1>1, FailPendingKeeps
<1> QED
  BY <1>2, TouchedTypes, EventsKept, RecordStops

LEMMA PrepareKeeps ==
  ASSUME IInv, NEW w \in Writers, Prepare(w) PROVE IInv'
<1>1. proc[w].step \in RecordSteps /\ "enqueue" \in RecordSteps
      /\ "enqueue" \notin PutSteps \cup {"complete"}
  BY DEF Prepare, At, RecordSteps, PutSteps
<1>2. UNCHANGED <<dirs, constVars>>
  BY DEF Prepare
<1>3. CASE Goto(w, "enqueue") /\ UNCHANGED <<rows, outbox>>
  BY <1>1, <1>2, <1>3, NothingWritten, Unmoved, EventsKept, RecordGoesOn
<1>4. CASE FailPending(proc[w].rev) /\ Ends(w)
  BY <1>1, <1>2, <1>4, FailPendingStops
<1>5. CASE Ends(w) /\ UNCHANGED <<rows, outbox>>
  BY <1>1, <1>2, <1>5, NothingWritten, Unmoved, EventsKept, RecordStops
<1> QED
  BY <1>3, <1>4, <1>5 DEF Prepare

LEMMA EnqueueStep ==
  ASSUME IInv, NEW w \in Writers, Enqueue(w) PROVE IInv'
<1> DEFINE r == proc[w].rev
           c == DraftOf(w)
           action == EnqueueAction(rows[r], c)
<1>1. proc[w].step \in RecordSteps /\ "claim" \in RecordSteps
      /\ "claim" \notin PutSteps \cup {"complete"}
  BY DEF Enqueue, At, RecordSteps, PutSteps
<1>2. UNCHANGED <<dirs, constVars>>
  BY DEF Enqueue
<1>3. r \in Existing /\ c \in Contents
  BY DEF IInv, WriterConsistent, DraftOf, Contents
<1>4. CASE ~rows[r].current /\ Ends(w) /\ UNCHANGED <<rows, outbox>>
  BY <1>1, <1>2, <1>4, NothingWritten, Unmoved, EventsKept, RecordStops
<1>5. CASE /\ rows[r].current /\ Goto(w, "claim")
           /\ \/ action = "populate_reservation" /\ PopulateReservation(r, c)
              \/ action = "reuse_revision" /\ ReuseRevision(r, c)
  <2>1. Touches(r) /\ DataConsistent' /\ Kept
    BY <1>2, <1>3, <1>5, EnqueueKeeps
  <2> QED
    BY <1>1, <1>2, <1>5, <2>1, TouchedTypes, EventsKept, RecordGoesOn
<1>6. CASE /\ rows[r].current /\ CreateRevision(r, c)
           /\ GotoWith(w, "claim", Len(rows) + 1)
  <2> DEFINE p == [proc[w] EXCEPT !.step = "claim", !.rev = Len(rows) + 1]
  <2>1. /\ rows' \in Seq(Row) /\ Len(rows') = Len(rows) + 1
        /\ Len(rows) + 1 \in Revisions
        /\ outbox' \in [Revisions -> Payload \cup {NoPayload}]
        /\ DataConsistent' /\ Kept
    BY <1>2, <1>3, <1>6, CreateKeeps
  <2>2. proc[w] \in Process /\ "claim" \in Steps
    BY DEF IInv, Typed, Steps
  <2>3. /\ p \in Process /\ p.step = "claim" /\ p.rev = Len(rows) + 1
        /\ p.phase = proc[w].phase /\ p.todo = proc[w].todo
        /\ p.before = proc[w].before
    BY <2>1, <2>2 DEF Process
  <2>4. proc' = [proc EXCEPT ![w] = p]
    BY <1>6 DEF GotoWith
  <2> HIDE DEF p
  <2>5. GoesOn(w, p) /\ proc'[w] = p
    BY <1>1, <2>3, <2>4 DEF GoesOn, M, IInv, Typed
  <2>6. Typed'
    BY <1>2, <2>1, <2>3, <2>4 DEF IInv, Typed, constVars, metVars
  <2>7. Len(rows) + 1 \in Existing'
    BY <2>1 DEF Existing, IInv, Typed, Revisions
  <2>8. ~Puts(w)' /\ proc'[w].step \notin {"unlock", "complete"}
        /\ proc'[w].rev \in Existing'
    BY <2>3, <2>5, <2>7 DEF Puts, PutSteps
  <2>9. StartsNoGiven(w) /\ WriterConsistent(w)'
    BY <2>8 DEF StartsNoGiven, WriterConsistent
  <2> QED
    BY <1>1, <1>2, <2>1, <2>5, <2>6, <2>9, RecordStep DEF IInv
<1> QED
  BY <1>4, <1>5, <1>6 DEF Enqueue

\* A claim that goes on to put finds a payload that has not expired, of the
\* content its row names.
LEMMA ClaimKeeps ==
  ASSUME IInv, NEW w \in Writers, Claim(w) PROVE IInv'
<1> DEFINE r == proc[w].rev
           o == [outbox[r] EXCEPT !.due = FALSE]
<1>1. proc[w].step \in RecordSteps
  BY DEF Claim, At, RecordSteps
<1>2. UNCHANGED <<rows, dirs, constVars>>
  BY DEF Claim
<1>3. r \in Existing /\ r \in Revisions
  BY ExistingRow DEF IInv, WriterConsistent
<1>4. CASE Ends(w) /\ UNCHANGED outbox
  BY <1>1, <1>2, <1>4, NothingWritten, Unmoved, EventsKept, RecordStops
<1>5. CASE /\ rows[r].status = "pending" /\ outbox[r].due
           /\ outbox' = [outbox EXCEPT ![r].due = FALSE]
           /\ proc' = [proc EXCEPT
                ![w].step = IF outbox[r].expired THEN "outdated" ELSE "head",
                ![w].bundle = outbox[r].content]
  <2> DEFINE step == IF outbox[r].expired THEN "outdated" ELSE "head"
             p == [proc[w] EXCEPT !.step = step, !.bundle = outbox[r].content]
  <2>1. outbox[r] \in Payload /\ Has(r)
    <3>1. outbox[r] \in Payload \cup {NoPayload} /\ NoPayload.due = FALSE
      BY <1>3 DEF IInv, Typed, NoPayload
    <3> QED
      BY <1>5, <3>1, PayloadType DEF Has
  <2>2. /\ rows[r].status = "pending" /\ rows[r].current
        /\ rows[r].content = outbox[r].content /\ outbox[r].content \in Contents
    BY <1>3, <2>1, PayloadType DEF IInv, DataConsistent, OutboxBelongsToPending
  <2>3. /\ o \in Payload /\ o.content = outbox[r].content
        /\ o.expired = outbox[r].expired /\ outbox' = [outbox EXCEPT ![r] = o]
    BY <1>5, <2>1 DEF Payload
  <2> HIDE DEF o
  <2>4. Touches(r) /\ DataConsistent' /\ Kept
    BY <1>2, <1>3, <2>2, <2>3, PayloadChanged, PayloadType
  <2>5. proc[w] \in Process /\ step \in Steps
    BY DEF IInv, Typed, Steps
  <2>6. proc' = [proc EXCEPT ![w] = p]
    BY <1>5
  <2> HIDE DEF step
  <2>7. /\ p \in Process /\ p.step = step /\ p.rev = r
        /\ p.bundle = outbox[r].content
        /\ p.phase = proc[w].phase /\ p.todo = proc[w].todo
        /\ p.before = proc[w].before
    BY <2>2, <2>5 DEF Process
  <2> HIDE DEF p
  <2>8. step \in RecordSteps
    BY DEF step, RecordSteps, PutSteps
  <2>9. GoesOn(w, p) /\ proc'[w] = p
    BY <2>6, <2>7, <2>8 DEF GoesOn, M, IInv, Typed
  <2>10. Typed'
    BY <1>2, <2>4, <2>6, <2>7, TouchedTypes DEF IInv, Typed, constVars, metVars
  <2>11. WriterConsistent(w)'
    <3>1. r \in Existing' /\ rows'[r].content = outbox[r].content
      BY <1>2, <1>3, <2>2 DEF Existing
    <3>2. step \notin {"unlock", "complete"}
      BY DEF step
    <3> QED
      BY <2>2, <2>7, <2>9, <3>1, <3>2 DEF WriterConsistent, Puts
  <2>12. StartsNoGiven(w)
    <3>1. CASE outbox[r].expired
      BY <2>7, <2>9, <3>1 DEF StartsNoGiven, Puts, PutSteps, step
    <3>2. CASE ~outbox[r].expired
      BY <2>2, <2>7, <2>9, <3>2 DEF StartsNoGiven, Given
    <3> QED
      BY <3>1, <3>2
  <2> QED
    BY <1>1, <1>2, <2>4, <2>9, <2>10, <2>11, <2>12, RecordStep DEF IInv
<1> QED
  BY <1>4, <1>5 DEF Claim

LEMMA FailExpiredOutboxKeeps ==
  ASSUME IInv, NEW w \in Writers, FailExpiredOutbox(w) PROVE IInv'
<1>1. proc[w].step \in RecordSteps
  BY DEF FailExpiredOutbox, At, RecordSteps
<1> QED
  BY <1>1, FailPendingStops DEF FailExpiredOutbox

\* The row becomes ready while its files are there.
LEMMA CompleteFlushKeeps ==
  ASSUME IInv, NEW w \in Writers, CompleteFlush(w) PROVE IInv'
<1> DEFINE r == proc[w].rev
           v == [rows[r] EXCEPT !.status = "ready", !.stored = TRUE]
<1>1. /\ proc[w].step = "complete" /\ proc[w].step \in RecordSteps /\ Puts(w)
      /\ "defer" \in RecordSteps /\ "defer" \notin PutSteps \cup {"complete"}
  BY DEF CompleteFlush, At, RecordSteps, PutSteps, Puts
<1>2. UNCHANGED <<dirs, constVars>>
  BY DEF CompleteFlush
<1>3. /\ r \in Existing /\ r \in Revisions /\ rows[r] \in Row
      /\ rows[r].content = proc[w].bundle /\ proc[w].bundle \in Contents
  BY <1>1, ExistingRow, PutMeets
<1>4. CASE Ends(w) /\ UNCHANGED <<rows, outbox>>
  BY <1>1, <1>2, <1>4, NothingWritten, Unmoved, EventsKept, RecordStops
<1>5. CASE /\ rows[r].status = "pending"
           /\ rows' = [rows EXCEPT ![r].status = "ready", ![r].stored = TRUE]
           /\ outbox' = [outbox EXCEPT ![r] = NoPayload]
           /\ Ends(w)
  <2>1. /\ v \in Row /\ v.status = "ready" /\ v.stored
        /\ v.content = rows[r].content /\ v.current = rows[r].current
    BY <1>3 DEF Row
  <2>2. rows' = [rows EXCEPT ![r] = v]
    BY <1>5
  <2> HIDE DEF v
  <2>3. /\ rows' \in Seq(Row) /\ Len(rows') = Len(rows)
        /\ rows'[r] = v /\ \A q \in Existing \ {r} : rows'[q] = rows[q]
    BY <1>3, <2>1, <2>2, RowWritten DEF IInv, Typed
  <2>4. Touches(r) /\ outbox'[r] = NoPayload
    BY <1>2, <1>3, <1>5, <2>3 DEF Touches, IInv, Typed
  <2>5. Whole(dirs[r], rows'[r].content)
    BY <1>1, <1>3, <1>5, <2>1, <2>3 DEF IInv, WriterConsistent
  <2>6. DataConsistent' /\ Kept
    BY <1>1, <1>3, <1>5, <2>1, <2>3, <2>4, <2>5, RowTouched
  <2> QED
    BY <1>1, <1>2, <1>5, <2>4, <2>6, TouchedTypes, EventsKept, RecordStops
<1>6. CASE Goto(w, "defer") /\ UNCHANGED <<rows, outbox>>
  BY <1>1, <1>2, <1>6, NothingWritten, Unmoved, EventsKept, RecordGoesOn
<1> QED
  BY <1>4, <1>5, <1>6 DEF CompleteFlush

LEMMA DeferFlushKeeps ==
  ASSUME IInv, NEW w \in Writers, DeferFlush(w) PROVE IInv'
<1> DEFINE r == proc[w].rev
           o == [outbox[r] EXCEPT !.due = FALSE]
<1>1. proc[w].step \in RecordSteps
  BY DEF DeferFlush, At, RecordSteps
<1>2. UNCHANGED <<rows, dirs, constVars>> /\ Ends(w)
  BY DEF DeferFlush
<1>3. r \in Existing /\ r \in Revisions
  BY ExistingRow DEF IInv, WriterConsistent
<1>4. CASE ~Has(r)
  BY <1>1, <1>2, <1>4, NothingWritten, Unmoved, EventsKept, RecordStops
    DEF DeferFlush
<1>5. CASE Has(r)
  <2>1. outbox[r] \in Payload
    BY <1>3, <1>5 DEF IInv, Typed, Has
  <2>2. /\ o \in Payload /\ o.content = outbox[r].content
        /\ o.expired = outbox[r].expired /\ outbox' = [outbox EXCEPT ![r] = o]
    BY <1>5, <2>1 DEF Payload, DeferFlush
  <2> HIDE DEF o
  <2>3. /\ rows[r].status = "pending" /\ rows[r].current
        /\ rows[r].content = outbox[r].content
    BY <1>3, <1>5 DEF IInv, DataConsistent, OutboxBelongsToPending
  <2>4. Touches(r) /\ DataConsistent' /\ Kept
    BY <1>2, <1>3, <2>2, <2>3, PayloadChanged, PayloadType
  <2> QED
    BY <1>1, <1>2, <2>4, TouchedTypes, EventsKept, RecordStops
<1> QED
  BY <1>4, <1>5

LEMMA RecordKeeps ==
  ASSUME IInv, NEW w \in Writers, Record(w) PROVE IInv'
BY PrepareKeeps, EnqueueStep, ClaimKeeps, FailExpiredOutboxKeeps, PutHeadKeeps,
   AcquireWriteLockKeeps, WriteAssetsKeeps, RenameManifestKeeps, UnlockKeeps,
   AbandonKeeps, CompleteFlushKeeps, DeferFlushKeeps DEF Record, Flush

-----------------------------------------------------------------------------
(* The backfill *)

LEMMA CurrentIsNewest ==
  ASSUME IInv PROVE CurrentRevision \in Existing
<1>1. Len(rows) \in Existing /\ rows[Len(rows)].current
  BY OneExists DEF IInv, DataConsistent, NewestIsCurrent
<1> QED
  BY <1>1 DEF CurrentRevision

\* A recorder or the backfill goes on with p, and is not putting.
LEMMA RecorderMoves ==
  ASSUME IInv, NEW w \in Writers \ {"maintenance"}, NEW p \in Process,
         proc' = [proc EXCEPT ![w] = p], p.rev \in Existing,
         p.step \notin PutSteps \cup {"complete"},
         UNCHANGED <<rows, outbox, dirs, metVars>>, events' \in 0..MaxEvents
  PROVE  IInv'
<1>1. Typed'
  BY DEF IInv, Typed, metVars
<1>2. /\ proc'[w] = p /\ \A v \in Writers \ {w} : proc'[v] = proc[v]
      /\ M' = M
  BY DEF IInv, Typed, M, Writers
<1>3. ~Puts(w)' /\ proc'[w].step \notin {"unlock", "complete"}
  BY <1>2 DEF Puts, PutSteps
<1>4. StartsNoGiven(w) /\ WriterConsistent(w)'
  BY <1>2, <1>3 DEF StartsNoGiven, WriterConsistent, Existing
<1> QED
  BY <1>1, <1>2, <1>4, NothingWritten, StepKeeps

LEMMA IdleProcess == Idle \in Process /\ Idle.rev = 1 /\ Idle.step = "idle"
<1>1. 1 \in Revisions
  BY SnapshotBounds DEF Revisions
<1> QED
  BY <1>1 DEF Idle, Process, Steps, Phases

LEMMA BackfillKeeps ==
  ASSUME IInv, StartBackfill \/ Classify \/ Reserve
  PROVE  IInv'
<1> DEFINE w == "backfill"
<1>1. w \in Writers \ {"maintenance"} /\ proc[w] \in Process
      /\ proc[w].rev \in Existing /\ 1 \in Existing
  BY OneExists DEF Writers, IInv, Typed, WriterConsistent
<1>2. ASSUME NEW step \in {"classify", "reserve"}, Goto(w, step),
             UNCHANGED <<rows, outbox, dirs, metVars>>,
             events' \in 0..MaxEvents
      PROVE  IInv'
  <2> DEFINE p == [proc[w] EXCEPT !.step = step]
  <2>1. /\ p \in Process /\ p.rev = proc[w].rev
        /\ p.step \notin PutSteps \cup {"complete"}
        /\ proc' = [proc EXCEPT ![w] = p]
    BY <1>1, <1>2 DEF Process, Steps, PutSteps, Goto
  <2> HIDE DEF p
  <2> QED
    BY <1>1, <1>2, <2>1, RecorderMoves
<1>3. ASSUME Ends(w), UNCHANGED <<rows, outbox, dirs, constVars>>
      PROVE  IInv'
  <2>1. proc' = [proc EXCEPT ![w] = Idle]
    BY <1>3 DEF Ends, After
  <2> QED
    BY <1>1, <1>3, <2>1, IdleProcess, EventsKept, RecorderMoves DEF PutSteps
<1>4. CASE StartBackfill
  <2>1. events' \in 0..MaxEvents
    BY <1>4, SnapshotBounds DEF StartBackfill, Counted, IInv, Typed
  <2> QED
    BY <1>2, <1>4, <2>1 DEF StartBackfill
<1>5. CASE Classify
  BY <1>2, <1>3, <1>5, EventsKept DEF Classify
<1>6. CASE Reserve
  <2>1. CASE over
    BY <1>3, <1>6, <2>1 DEF Reserve
  <2>2. CASE ~over
    <3> DEFINE p == [proc[w] EXCEPT !.step = "prepare", !.rev = CurrentRevision]
    <3>1. CurrentRevision \in Existing /\ CurrentRevision \in Revisions
      BY CurrentIsNewest, ExistingRow
    <3>2. /\ p \in Process /\ p.rev = CurrentRevision
          /\ p.step \notin PutSteps \cup {"complete"}
          /\ proc' = [proc EXCEPT ![w] = p]
      BY <1>1, <1>6, <2>2, <3>1 DEF Process, Steps, PutSteps, Reserve, GotoWith
    <3> HIDE DEF p
    <3>3. UNCHANGED <<rows, outbox, dirs, constVars>>
      BY <1>6 DEF Reserve
    <3> QED
      BY <1>1, <3>1, <3>2, <3>3, EventsKept, RecorderMoves
  <2> QED
    BY <2>1, <2>2
<1> QED
  BY <1>4, <1>5, <1>6

-----------------------------------------------------------------------------
(* The maintenance *)

\* The maintenance goes on with p, which is no put.
LEMMA MaintenanceMoves ==
  ASSUME IInv, NEW p \in Process, proc' = [proc EXCEPT !["maintenance"] = p],
         p.step \notin PutSteps \cup {"complete"}, p.rev \in Existing,
         Typed', DataConsistent', Kept, MaintenanceAt(p)',
         \A r \in Revisions : dirs'[r].old => dirs[r].old
  PROVE  IInv'
<1>1. M' = p /\ \A w \in Writers \ {"maintenance"} : proc'[w] = proc[w]
  BY DEF IInv, Typed, M, Writers
<1>2. StartsNoGiven("maintenance")
  BY DEF StartsNoGiven
<1>3. WriterConsistent("maintenance")'
  <2>1. proc'["maintenance"] = p
    BY <1>1 DEF M
  <2>2. p.rev \in Existing'
    BY ExistingKept
  <2> QED
    BY <2>1, <2>2 DEF WriterConsistent, Puts, PutSteps
<1>4. MaintenanceConsistent'
  BY <1>1 DEF MaintenanceConsistent
<1> QED
  BY <1>1, <1>2, <1>3, <1>4, StepKeeps DEF IInv

\* It goes on without having changed rows or files.
LEMMA MaintenanceTurns ==
  ASSUME IInv, NEW p \in Process, proc' = [proc EXCEPT !["maintenance"] = p],
         p.step \notin PutSteps \cup {"complete"}, p.rev \in Existing,
         UNCHANGED <<rows, outbox, dirs, metVars>>, events' \in 0..MaxEvents,
         MaintenanceAt(p), p.phase = "orphans" => ~Puts("maintenance")
  PROVE  IInv'
<1>1. Typed'
  BY DEF IInv, Typed, metVars
<1>2. \A w \in Writers : proc'[w] = proc[w] \/ StartsNoGiven(w)
  BY DEF IInv, Typed, StartsNoGiven
<1>3. MaintenanceAt(p)'
  BY <1>1, <1>2, NothingWritten, MaintenanceKept
<1> QED
  BY <1>1, <1>3, NothingWritten, MaintenanceMoves

\* Where it stands between two candidates.
LEMMA AtNext ==
  ASSUME IInv
  PROVE  /\ M \in Process /\ M.rev \in Existing /\ M.todo \subseteq Existing
         /\ MaintenanceAt(M) /\ M = proc["maintenance"]
BY DEF IInv, Typed, WriterConsistent, Writers, MaintenanceConsistent,
       MaintenanceAt, M

LEMMA NotPutting ==
  ASSUME proc["maintenance"].step \notin PutSteps \cup {"complete"}
  PROVE  ~Puts("maintenance")
BY DEF Puts

LEMMA IdleAt ==
  ASSUME Typed PROVE MaintenanceAt(Idle)
BY DEF MaintenanceAt, Idle, Deleting, Deletes

LEMMA StartMaintenanceKeeps ==
  ASSUME IInv, StartMaintenance PROVE IInv'
<1> DEFINE p == [Idle EXCEPT
                   !.step = "next", !.phase = "flush",
                   !.before = {r \in Existing : dirs[r].old},
                   !.todo = {r \in Existing :
                               rows[r].status = "pending" /\ outbox[r].due}]
<1>1. Existing \subseteq Revisions /\ 1 \in Existing
  BY ExistingRow, OneExists DEF IInv
<1>2. /\ p \in Process /\ p.step = "next" /\ p.phase = "flush" /\ p.rev = 1
      /\ p.before = {r \in Existing : dirs[r].old} /\ p.todo \subseteq Existing
  BY <1>1 DEF Idle, Process, Steps, Phases
<1>3. proc' = [proc EXCEPT !["maintenance"] = p]
      /\ UNCHANGED <<rows, outbox, dirs, constVars>>
  BY DEF StartMaintenance
<1> HIDE DEF p
<1>4. MaintenanceAt(p)
  BY <1>1, <1>2 DEF MaintenanceAt, Deletes, IInv
<1> QED
  BY <1>1, <1>2, <1>3, <1>4, EventsKept, MaintenanceTurns DEF PutSteps

LEMMA NextCandidateKeeps ==
  ASSUME IInv, NextCandidate PROVE IInv'
<1> DEFINE first == CASE M.phase = "flush" -> "claim"
                      [] M.phase = "recover" -> "supersede"
                      [] OTHER -> "list"
<1>1. M.step = "next" /\ UNCHANGED <<rows, outbox, dirs, constVars>>
  BY DEF NextCandidate, M
<1>2. PICK r \in M.todo : proc' = [proc EXCEPT !["maintenance"] =
                  [M EXCEPT !.step = first, !.rev = r, !.todo = M.todo \ {r}]]
  BY DEF NextCandidate, M
<1>3. M \in Process /\ MaintenanceAt(M) /\ r \in Existing /\ r \in Revisions
  BY AtNext, ExistingRow
<1>4. /\ first \in {"claim", "supersede", "list"}
      /\ first = "list" <=> M.phase \in {"expire", "orphans"}
  BY <1>1, <1>3 DEF MaintenanceAt, Process, Phases
<1> HIDE DEF first
<1> DEFINE p == [M EXCEPT !.step = first, !.rev = r, !.todo = M.todo \ {r}]
<1>5. /\ p \in Process /\ p.step = first /\ p.rev = r /\ p.todo = M.todo \ {r}
      /\ p.phase = M.phase /\ p.before = M.before
  BY <1>3, <1>4 DEF Process, Steps
<1>6. proc' = [proc EXCEPT !["maintenance"] = p]
  BY <1>2
<1> HIDE DEF p
<1>7. Deleting(p) \subseteq Deleting(M)
  BY <1>5 DEF Deleting
<1>8. MaintenanceAt(p)
  BY <1>1, <1>3, <1>4, <1>5, <1>7 DEF MaintenanceAt, Deletes
<1>9. ~Puts("maintenance") /\ first \notin PutSteps \cup {"complete"}
  BY <1>1, <1>4 DEF Puts, PutSteps, M
<1> QED
  BY <1>1, <1>3, <1>5, <1>6, <1>8, <1>9, EventsKept, MaintenanceTurns

\* The maintenance turns to its next phase.
LEMMA TurnsTo ==
  ASSUME IInv, NEW phase \in Phases, NEW todo \in SUBSET Existing,
         Turns(phase, todo)
  PROVE  \E p \in Process :
           /\ p.step = "next" /\ p.phase = phase
           /\ p.todo = todo /\ p.before = M.before /\ p.rev = M.rev
           /\ proc' = [proc EXCEPT !["maintenance"] = p]
<1> DEFINE p == [M EXCEPT !.step = "next", !.phase = phase, !.todo = todo]
<1>1. todo \in SUBSET Revisions /\ "next" \in Steps
  BY ExistingRow DEF Steps
<1>2. /\ p \in Process /\ p.step = "next" /\ p.phase = phase
      /\ p.todo = todo /\ p.before = M.before /\ p.rev = M.rev
      /\ proc' = [proc EXCEPT !["maintenance"] = p]
  BY <1>1, AtNext DEF Process, Turns
<1> QED
  BY <1>2

LEMMA TurnsKeeps ==
  ASSUME IInv, M.step = "next", NEW phase \in Phases \ {"record"},
         NEW todo \in SUBSET Existing, Turns(phase, todo),
         UNCHANGED <<rows, outbox, dirs, constVars>>,
         phase = "expire" => \A r \in todo : rows[r].status = "expired",
         phase = "orphans" => \A r \in todo : rows[r].status # "ready"
  PROVE  IInv'
<1>1. PICK p \in Process :
        /\ p.step = "next" /\ p.phase = phase
        /\ p.todo = todo /\ p.before = M.before /\ p.rev = M.rev
        /\ proc' = [proc EXCEPT !["maintenance"] = p]
  BY TurnsTo
<1>2. MaintenanceAt(p)
  BY <1>1, AtNext DEF MaintenanceAt, Deleting, Deletes
<1>3. ~Puts("maintenance") /\ "next" \notin PutSteps \cup {"complete"}
  BY DEF Puts, PutSteps, M
<1> QED
  BY <1>1, <1>2, <1>3, AtNext, EventsKept, MaintenanceTurns

LEMMA ListStaleKeeps ==
  ASSUME IInv, ListStale PROVE IInv'
<1>1. M.step = "next" /\ UNCHANGED <<rows, outbox, dirs, constVars>>
  BY DEF ListStale, At, M
<1>2. PICK todo \in SUBSET Existing : Turns("recover", todo)
  BY DEF ListStale
<1>3. "recover" \in Phases \ {"record"}
  BY DEF Phases
<1> QED
  BY <1>1, <1>2, <1>3, TurnsKeeps

LEMMA ListOrphansKeeps ==
  ASSUME IInv, ListOrphans PROVE IInv'
<1> DEFINE todo == {r \in Existing : ~rows[r].stored}
<1>1. M.step = "next" /\ UNCHANGED <<rows, outbox, dirs, constVars>>
      /\ Turns("orphans", todo)
  BY DEF ListOrphans, At, M
<1>2. \A r \in todo : rows[r].status # "ready"
  BY DEF IInv, DataConsistent, RowConsistent
<1>3. "orphans" \in Phases \ {"record"}
  BY DEF Phases
<1> QED
  BY <1>1, <1>2, <1>3, TurnsKeeps

LEMMA EndMaintenanceKeeps ==
  ASSUME IInv, EndMaintenance PROVE IInv'
<1>1. UNCHANGED <<rows, outbox, dirs, constVars>>
      /\ proc' = [proc EXCEPT !["maintenance"] = Idle]
      /\ ~Puts("maintenance")
  BY DEF EndMaintenance, At, Puts, PutSteps
<1>2. MaintenanceAt(Idle) /\ 1 \in Existing
  BY IdleAt, OneExists DEF IInv
<1> QED
  BY <1>1, <1>2, IdleProcess, EventsKept, MaintenanceTurns DEF PutSteps

LEMMA ClaimExpiredKeeps ==
  ASSUME IInv, ClaimExpired PROVE IInv'
<1> DEFINE f == [r \in Existing |->
                   IF r \in Expirable THEN [rows[r] EXCEPT !.status = "expired"]
                   ELSE rows[r]]
           todo == {r \in Existing : /\ rows'[r].status = "expired"
                                     /\ rows'[r].stored /\ ~crowded}
<1>1. M.step = "next" /\ UNCHANGED <<outbox, dirs, constVars>> /\ rows' = f
      /\ Turns("expire", todo)
  BY DEF ClaimExpired, Expire, At, M
<1>2. ASSUME NEW r \in Existing
      PROVE  /\ f[r] \in Row /\ f[r].content = rows[r].content
             /\ f[r].current = rows[r].current /\ f[r].stored = rows[r].stored
             /\ f[r].status \in {rows[r].status, "expired"}
             /\ rows[r].status = "pending" => f[r].status = "pending"
  BY ExistingRow DEF Row, Expirable
<1>3. f \in [Existing -> Row]
  BY <1>2
<1> HIDE DEF f
<1>4. rows' \in Seq(Row) /\ Len(rows') = Len(rows) /\ Existing' = Existing
  BY <1>1, <1>3, RowsMapped DEF IInv, Typed, Existing
<1>5. DataConsistent'
  <2>1. NewestIsCurrent'
    BY <1>1, <1>2, <1>4 DEF IInv, DataConsistent, NewestIsCurrent
  <2>2. OutboxBelongsToPending'
    BY <1>1, <1>2, <1>4 DEF IInv, DataConsistent, OutboxBelongsToPending, Has
  <2>3. \A r \in Existing' : RowConsistent(r)'
    BY <1>1, <1>2, <1>4 DEF IInv, DataConsistent, RowConsistent, Has
  <2>4. \A r \in Revisions : FilesFollowRow(r)'
    BY <1>1, <1>2, <1>4 DEF IInv, DataConsistent, FilesFollowRow
  <2> QED
    BY <2>1, <2>2, <2>3, <2>4 DEF DataConsistent
<1>6. Kept
  <2>1. Len(rows) <= Len(rows')
    BY <1>4 DEF IInv, Typed, Revisions
  <2> QED
    BY <1>1, <1>2, <1>4, <2>1 DEF Kept, Has
<1>7. PICK p \in Process :
        /\ p.step = "next" /\ p.phase = "expire"
        /\ p.todo = todo /\ p.before = M.before /\ p.rev = M.rev
        /\ proc' = [proc EXCEPT !["maintenance"] = p]
  <2> HIDE DEF todo
  <2>1. "expire" \in Phases /\ todo \in SUBSET Existing
    BY DEF Phases, todo
  <2> QED
    BY <1>1, <2>1, TurnsTo
<1>8. Typed'
  BY <1>1, <1>4, <1>7 DEF IInv, Typed, constVars, metVars
<1>9. \A r \in M.before : Given(r)'
  <2>1. \A w \in Writers : proc'[w] = proc[w] \/ StartsNoGiven(w)
    BY <1>7 DEF IInv, Typed, StartsNoGiven
  <2> QED
    BY <1>6, <2>1, AtNext, GivenKept DEF MaintenanceAt
<1>10. MaintenanceAt(p)'
  BY <1>4, <1>7, <1>9, AtNext DEF MaintenanceAt, Deleting, Deletes
<1>11. p.step \notin PutSteps \cup {"complete"} /\ p.rev \in Existing
  BY <1>7, AtNext DEF PutSteps
<1> QED
  BY <1>1, <1>5, <1>6, <1>7, <1>8, <1>10, <1>11, MaintenanceMoves

\* A new reservation is a row, and has no content yet.
LEMMA ReservedRow ==
  Reserved \in Row /\ [Reserved EXCEPT !.content = NoContent] = Reserved
<1>1. Reserved \in Row /\ Reserved.content = NoContent
  BY DEF Reserved, Row
<1>2. ASSUME NEW row \in Row, row.content = NoContent
      PROVE  [row EXCEPT !.content = NoContent] = row
  BY <1>2 DEF Row
<1> QED
  BY <1>1, <1>2

\* The pending revision fails and its successor is reserved in one transaction.
LEMMA SupersedeKeeps ==
  ASSUME IInv, Supersede PROVE IInv'
<1> DEFINE w == "maintenance"
           r == proc[w].rev
           n == Len(rows) + 1
           v == [rows[r] EXCEPT !.status = "failed", !.current = FALSE]
<1>1. /\ w \in Writers /\ proc[w].step \in RecordSteps /\ "fail" \in RecordSteps
      /\ "prepare" \in RecordSteps
      /\ {"fail", "prepare"} \cap (PutSteps \cup {"complete"}) = {}
  BY DEF Supersede, At, Writers, RecordSteps, PutSteps
<1>2. UNCHANGED <<outbox, dirs, constVars>>
  BY DEF Supersede
<1>3. r \in Existing /\ r \in Revisions /\ rows[r] \in Row
  BY <1>1, ExistingRow DEF IInv, WriterConsistent
<1>4. CASE Goto(w, "fail") /\ UNCHANGED rows
  BY <1>1, <1>2, <1>4, NothingWritten, Unmoved, EventsKept, RecordGoesOn
<1>5. CASE /\ Recoverable(r) /\ Len(rows) < MaxRevision
           /\ rows' = Append([rows EXCEPT ![r].status = "failed",
                                          ![r].current = FALSE], Reserved)
           /\ GotoWith(w, "prepare", n)
  <2>1. n \in Revisions /\ n \notin Existing /\ n # r
    BY <1>3, <1>5, SnapshotBounds DEF IInv, Typed, Revisions, Existing
  <2>2. /\ v \in Row /\ ~v.current /\ v.status = "failed"
        /\ v.content = rows[r].content /\ v.stored = rows[r].stored
    BY <1>3 DEF Row
  <2>3. rows' = Append([rows EXCEPT ![r] = v], [Reserved EXCEPT !.content = NoContent])
    <3>1. [Reserved EXCEPT !.content = NoContent] = Reserved
      BY ReservedRow
    <3>2. rows' = Append([rows EXCEPT ![r] = v], Reserved)
      BY <1>5
    <3> QED
      BY <3>1, <3>2
  <2> HIDE DEF v
  <2>4. ~Has(n) /\ ~Has(r)
    <3>1. ~Has(r)
      BY <1>5 DEF Recoverable
    <3>2. ~Has(n)
      BY <2>1 DEF IInv, DataConsistent, OutboxBelongsToPending
    <3> QED
      BY <3>1, <3>2
  <2>5. /\ outbox' \in [Revisions -> Payload \cup {NoPayload}]
        /\ outbox'[r] = NoPayload /\ outbox'[n] = NoPayload
        /\ outbox'[n].content = NoContent
        /\ \A q \in Revisions \ {r, n} : outbox'[q] = outbox[q]
    BY <1>2, <2>4 DEF IInv, Typed, Has, NoPayload
  <2>6. rows[r].current /\ rows[r].status = "pending"
    BY <1>5 DEF Recoverable
  <2>7. /\ rows' \in Seq(Row) /\ Len(rows') = n
        /\ DataConsistent' /\ Kept
    BY <1>2, <1>3, <2>1, <2>2, <2>3, <2>5, <2>6, RowAdded
  <2> DEFINE p == [proc[w] EXCEPT !.step = "prepare", !.rev = n]
  <2>8. proc[w] \in Process /\ "prepare" \in Steps
    BY <1>1 DEF IInv, Typed, Steps
  <2>9. /\ p \in Process /\ p.step = "prepare" /\ p.rev = n
        /\ p.phase = proc[w].phase /\ p.todo = proc[w].todo
        /\ p.before = proc[w].before
    BY <2>1, <2>8 DEF Process
  <2>10. proc' = [proc EXCEPT ![w] = p]
    BY <1>5 DEF GotoWith
  <2> HIDE DEF p
  <2>11. GoesOn(w, p) /\ proc'[w] = p
    BY <1>1, <2>9, <2>10 DEF GoesOn, M, IInv, Typed
  <2>12. Typed'
    BY <1>2, <2>1, <2>5, <2>7, <2>9, <2>10 DEF IInv, Typed, constVars, metVars
  <2>13. n \in Existing'
    BY <2>7 DEF Existing, IInv, Typed, Revisions
  <2>14. StartsNoGiven(w) /\ WriterConsistent(w)'
    BY <2>9, <2>11, <2>13 DEF StartsNoGiven, WriterConsistent, Puts, PutSteps
  <2> QED
    BY <1>1, <1>2, <2>7, <2>11, <2>12, <2>14, RecordStep DEF IInv
<1> QED
  BY <1>4, <1>5 DEF Supersede

LEMMA FailCandidateKeeps ==
  ASSUME IInv, FailCandidate PROVE IInv'
<1>1. "maintenance" \in Writers /\ proc["maintenance"].step \in RecordSteps
  BY DEF FailCandidate, At, RecordSteps, Writers
<1> QED
  BY <1>1, FailPendingStops DEF FailCandidate

\* The end of one deletion.
LEMMA DeletionEnds ==
  ASSUME IInv, Deletes(M), Ends("maintenance"),
         Typed', DataConsistent', Kept,
         \A r \in Revisions : dirs'[r].old => dirs[r].old
  PROVE  IInv'
<1>1. "maintenance" \in Writers
  BY DEF Writers
<1> DEFINE p == After("maintenance")
<1>2. /\ p \in Process /\ p.phase = M.phase /\ p.todo = M.todo
      /\ p.before = M.before
  BY <1>1, AfterGoesOn DEF GoesOn
<1>3. p.step = "next" /\ p.rev = 1
  BY AtNext DEF After, Process
<1>4. proc' = [proc EXCEPT !["maintenance"] = p]
  BY DEF Ends
<1>5. PICK m \in Process : m = p
  BY <1>2
<1> HIDE DEF p
<1>6. MaintenanceAt(m)
  BY <1>2, <1>3, <1>5, AtNext DEF MaintenanceAt, Deleting, Deletes
<1>7. ~Puts("maintenance") /\ 1 \in Existing
  BY OneExists DEF IInv, Deletes, Puts, PutSteps, M
<1>8. \A w \in Writers : proc'[w] = proc[w] \/ StartsNoGiven(w)
  BY <1>2, <1>4 DEF IInv, Typed, StartsNoGiven
<1>9. MaintenanceAt(m)'
  BY <1>3, <1>5, <1>6, <1>7, <1>8, MaintenanceKept
<1> QED
  BY <1>3, <1>4, <1>5, <1>7, <1>9, MaintenanceMoves DEF PutSteps

LEMMA DeletionEndsUnmoved ==
  ASSUME IInv, Deletes(M), Ends("maintenance"),
         UNCHANGED <<rows, outbox, dirs, metVars>>, events' \in 0..MaxEvents
  PROVE  IInv'
<1>1. "maintenance" \in Writers
  BY DEF Writers
<1>2. proc' \in [Writers -> Process]
  BY <1>1, AfterGoesOn DEF GoesOn, IInv, Typed
<1>3. Typed'
  BY <1>2 DEF IInv, Typed, metVars
<1> QED
  BY <1>3, NothingWritten, DeletionEnds

LEMMA ListEntriesKeeps ==
  ASSUME IInv, ListEntries PROVE IInv'
<1>1. M.step = "list" /\ Deletes(M) /\ UNCHANGED <<rows, outbox, dirs, constVars>>
  BY DEF ListEntries, At, M, Deletes
<1>2. CASE Ends("maintenance")
  BY <1>1, <1>2, EventsKept, DeletionEndsUnmoved
<1>3. CASE ~Ends("maintenance")
  <2>1. /\ M.phase = "orphans" => M.rev \in M.before
        /\ proc' = [proc EXCEPT !["maintenance"].step = "unlink",
                                !["maintenance"].listed = Present(M.rev)]
    BY <1>3 DEF ListEntries, M, IsOld
  <2> DEFINE p == [M EXCEPT !.step = "unlink", !.listed = Present(M.rev)]
  <2>2. /\ p \in Process /\ p.step = "unlink" /\ p.rev = M.rev
        /\ p.phase = M.phase /\ p.todo = M.todo /\ p.before = M.before
    BY AtNext DEF Process, Steps, Present
  <2>3. proc' = [proc EXCEPT !["maintenance"] = p]
    BY <2>1 DEF M
  <2> HIDE DEF p
  <2>4. MaintenanceAt(p)
    BY <1>1, <2>1, <2>2, AtNext DEF MaintenanceAt, Deleting, Deletes
  <2>5. ~Puts("maintenance") /\ p.step \notin PutSteps \cup {"complete"}
    BY <1>1, <2>2 DEF Puts, PutSteps, M
  <2> QED
    BY <1>1, <2>2, <2>3, <2>4, <2>5, AtNext, EventsKept, MaintenanceTurns
<1> QED
  BY <1>2, <1>3

\* A deletion takes a file of an expired row, or of one that was given up.
LEMMA UnlinkKeeps ==
  ASSUME IInv, Unlink PROVE IInv'
<1> DEFINE r == M.rev
<1>1. M.step = "unlink" /\ Deletes(M) /\ UNCHANGED <<rows, outbox, constVars>>
  BY DEF Unlink, At, M, Deletes
<1>2. PICK f \in M.listed :
        /\ dirs' = [dirs EXCEPT ![r][f] = NoContent,
                                ![r].old = @ /\ f # "manifest"]
        /\ proc' = [proc EXCEPT !["maintenance"].listed = @ \ {f}]
  BY DEF Unlink, M
<1>3. /\ r \in Existing /\ r \in Revisions /\ dirs[r] \in Directory
      /\ FilesFollowRow(r) /\ f \in {"assets", "manifest"}
  BY AtNext, ExistingRow DEF IInv, Typed, DataConsistent, Process
<1>4. PICK d \in Directory :
        /\ dirs' = [dirs EXCEPT ![r] = d]
        /\ d.assets \in {NoContent, dirs[r].assets}
        /\ d.manifest \in {NoContent, dirs[r].manifest}
        /\ d.old => dirs[r].old
  <2>1. CASE f = "assets"
    <3> DEFINE d == [dirs[r] EXCEPT !.assets = NoContent,
                                    !.old = dirs[r].old /\ f # "manifest"]
    <3>1. d \in Directory
      BY <1>3 DEF Directory
    <3>2. /\ d.assets = NoContent /\ d.manifest = dirs[r].manifest
          /\ d.old => dirs[r].old
      BY <1>3 DEF Directory
    <3>3. dirs' = [dirs EXCEPT ![r] = d]
      BY <1>2, <1>3, <2>1 DEF IInv, Typed, Directory
    <3> QED
      BY <3>1, <3>2, <3>3
  <2>2. CASE f = "manifest"
    <3> DEFINE d == [dirs[r] EXCEPT !.manifest = NoContent,
                                    !.old = dirs[r].old /\ f # "manifest"]
    <3>1. d \in Directory
      BY <1>3 DEF Directory
    <3>2. /\ d.manifest = NoContent /\ d.assets = dirs[r].assets
          /\ d.old => dirs[r].old
      BY <1>3 DEF Directory
    <3>3. dirs' = [dirs EXCEPT ![r] = d]
      BY <1>2, <1>3, <2>2 DEF IInv, Typed, Directory
    <3> QED
      BY <3>1, <3>2, <3>3
  <2> QED
    BY <1>3, <2>1, <2>2
<1>5. \/ rows[r].status # "ready" /\ Given(r) /\ M.step = "unlink"
      \/ rows[r].status \notin {"pending", "ready"}
  <2>1. M.phase \in {"expire", "orphans"}
    BY <1>1, AtNext DEF MaintenanceAt, Deletes
  <2>2. CASE M.phase = "expire"
    BY <1>1, <2>2, AtNext DEF MaintenanceAt, Deleting
  <2>3. CASE M.phase = "orphans"
    BY <1>1, <2>3, AtNext DEF MaintenanceAt, Deleting
  <2> QED
    BY <2>1, <2>2, <2>3
<1>6. /\ dirs' \in [Revisions -> Directory] /\ DataConsistent' /\ Kept
      /\ \A q \in Revisions : dirs'[q].old => dirs[q].old
  <2>1. /\ d.assets \in {NoContent, rows[r].content}
        /\ d.manifest \in {NoContent, rows[r].content}
    BY <1>3, <1>4 DEF FilesFollowRow
  <2>2. /\ dirs' \in [Revisions -> Directory] /\ DataConsistent' /\ Kept
        /\ dirs'[r] = d /\ \A q \in Revisions \ {r} : dirs'[q] = dirs[q]
    BY <1>1, <1>3, <1>4, <1>5, <2>1, FilesTouched
  <2> QED
    BY <1>4, <2>2
<1> DEFINE p == [M EXCEPT !.listed = M.listed \ {f}]
<1>7. /\ p \in Process /\ p.step = M.step /\ p.rev = M.rev
      /\ p.phase = M.phase /\ p.todo = M.todo /\ p.before = M.before
  BY AtNext DEF Process
<1>8. proc' = [proc EXCEPT !["maintenance"] = p]
  BY <1>2 DEF M
<1>9. PICK m \in Process : m = p
  BY <1>7
<1> HIDE DEF p
<1>10. Typed'
  BY <1>1, <1>6, <1>7, <1>8 DEF IInv, Typed, constVars, metVars
<1>11. MaintenanceAt(m)
  BY <1>7, <1>9, AtNext DEF MaintenanceAt, Deleting, Deletes
<1>12. ~Puts("maintenance") /\ m.step \notin PutSteps \cup {"complete"}
  BY <1>1, <1>7, <1>9 DEF Puts, PutSteps, M
<1>13. \A w \in Writers : proc'[w] = proc[w] \/ StartsNoGiven(w)
  BY <1>7, <1>8 DEF IInv, Typed, StartsNoGiven
<1>14. MaintenanceAt(m)'
  BY <1>6, <1>7, <1>9, <1>10, <1>11, <1>12, <1>13, AtNext, MaintenanceKept
<1> QED
  BY <1>6, <1>7, <1>8, <1>9, <1>10, <1>12, <1>14, AtNext, MaintenanceMoves

LEMMA RemoveDirectoryKeeps ==
  ASSUME IInv, RemoveDirectory PROVE IInv'
<1>1. M.step = "unlink" /\ Deletes(M) /\ UNCHANGED <<rows, outbox, dirs, constVars>>
  BY DEF RemoveDirectory, At, M, Deletes
<1>2. CASE Ends("maintenance")
  BY <1>1, <1>2, EventsKept, DeletionEndsUnmoved
<1>3. CASE ~Ends("maintenance")
  <2>1. M.phase = "expire" /\ Goto("maintenance", "clear")
    BY <1>3 DEF RemoveDirectory, M
  <2> DEFINE p == [M EXCEPT !.step = "clear"]
  <2>2. /\ p \in Process /\ p.step = "clear" /\ p.rev = M.rev
        /\ p.phase = M.phase /\ p.todo = M.todo /\ p.before = M.before
    BY AtNext DEF Process, Steps
  <2>3. proc' = [proc EXCEPT !["maintenance"] = p]
    BY <2>1 DEF M, Goto
  <2> HIDE DEF p
  <2>4. MaintenanceAt(p)
    BY <1>1, <2>1, <2>2, AtNext DEF MaintenanceAt, Deleting, Deletes
  <2>5. ~Puts("maintenance") /\ p.step \notin PutSteps \cup {"complete"}
    BY <1>1, <2>2 DEF Puts, PutSteps, M
  <2> QED
    BY <1>1, <2>2, <2>3, <2>4, <2>5, AtNext, EventsKept, MaintenanceTurns
<1> QED
  BY <1>2, <1>3

LEMMA CompleteExpiredDeletionKeeps ==
  ASSUME IInv, CompleteExpiredDeletion PROVE IInv'
<1>1. /\ Deletes(M) /\ Ends("maintenance")
      /\ UNCHANGED <<rows, outbox, dirs, constVars>>
  BY DEF CompleteExpiredDeletion, At, M, Deletes
<1> QED
  BY <1>1, EventsKept, DeletionEndsUnmoved

LEMMA MaintenanceKeeps ==
  ASSUME IInv, Maintenance PROVE IInv'
<1>1. "maintenance" \in Writers
  BY DEF Writers
<1> QED
  BY <1>1, StartMaintenanceKeeps, NextCandidateKeeps, ListStaleKeeps,
     ClaimExpiredKeeps, ListOrphansKeeps, EndMaintenanceKeeps, SupersedeKeeps,
     FailCandidateKeeps, RecordKeeps, ListEntriesKeeps, UnlinkKeeps,
     RemoveDirectoryKeeps, CompleteExpiredDeletionKeeps DEF Maintenance

-----------------------------------------------------------------------------
(* Failures, crashes and time *)

LEMMA StopsKeeps ==
  ASSUME IInv, NEW w \in Writers, proc' = [proc EXCEPT ![w] = Idle],
         UNCHANGED <<rows, outbox, dirs, metVars>>, events' \in 0..MaxEvents
  PROVE  IInv'
<1>1. Idle \in Process /\ Idle.rev \in Existing /\ MaintenanceAt(Idle)
      /\ Idle.step \notin PutSteps \cup {"complete"} /\ Idle.phase # "orphans"
  BY IdleProcess, IdleAt, OneExists DEF IInv, PutSteps, Idle
<1>2. CASE w = "maintenance"
  BY <1>1, <1>2, MaintenanceTurns
<1>3. CASE w # "maintenance"
  BY <1>1, <1>3, RecorderMoves
<1> QED
  BY <1>2, <1>3

LEMMA CountedEvents ==
  ASSUME IInv, Counted PROVE events' \in 0..MaxEvents
BY SnapshotBounds DEF IInv, Typed, Counted

LEMMA FailsKeeps ==
  ASSUME IInv, NEW w \in Writers, Fails(w) PROVE IInv'
<1> DEFINE step == proc[w].step
<1>1. /\ UNCHANGED <<rows, outbox, dirs, metVars>> /\ events' \in 0..MaxEvents
      /\ step \in Steps \ {"idle", "prepare", "unlock", "abandon"}
  BY CountedEvents DEF Fails, At, IInv, Typed, Process
<1>2. CASE OnError(w) # "ends"
  <2>1. /\ OnError(w) \in {"defer", "abandon", "fail"}
        /\ step \in RecordSteps /\ step \notin {"next", "classify", "reserve"}
        /\ OnError(w) = "abandon" => Puts(w)
    BY <1>2 DEF OnError, RecordSteps, PutSteps, Puts
  <2>2. Goto(w, OnError(w))
    BY <1>2, <2>1 DEF Fails, Goto
  <2>3. PICK next \in {"defer", "abandon", "fail"} : next = OnError(w)
    BY <2>1
  <2>4. next \in RecordSteps
    BY DEF RecordSteps, PutSteps
  <2>5. CASE next = "abandon"
    <3>1. dirs' \in [Revisions -> Directory]
      BY <1>1 DEF IInv, Typed
    <3> QED
      BY <1>1, <2>1, <2>2, <2>3, <2>4, <2>5, <3>1, NothingWritten, PutGoesOn
  <2>6. CASE next # "abandon"
    <3>1. next \notin PutSteps \cup {"complete"}
      BY <2>6 DEF PutSteps
    <3> QED
      BY <1>1, <2>1, <2>2, <2>3, <2>4, <3>1, NothingWritten, Unmoved, RecordGoesOn
  <2> QED
    BY <2>5, <2>6
<1>3. CASE step \in {"next", "classify", "reserve"}
  <2>1. OnError(w) = "ends"
    BY <1>3 DEF OnError
  <2>2. proc' = [proc EXCEPT ![w] = Idle]
    BY <1>3, <2>1 DEF Fails
  <2> QED
    BY <1>1, <2>2, StopsKeeps
<1>4. CASE OnError(w) = "ends" /\ step \notin {"next", "classify", "reserve"}
  <2>1. Ends(w)
    BY <1>4 DEF Fails, Ends
  <2>2. step \in RecordSteps \cup {"list", "unlink", "clear"}
    BY <1>1, <1>4 DEF OnError, RecordSteps, PutSteps, Steps
  <2>3. CASE step \in RecordSteps
    BY <1>1, <2>1, <2>3, NothingWritten, Unmoved, RecordStops
  <2>4. CASE step \in {"list", "unlink", "clear"} /\ w = "maintenance"
    BY <1>1, <2>1, <2>4, DeletionEndsUnmoved DEF Deletes, M
  <2>5. CASE w # "maintenance"
    <3>1. proc' = [proc EXCEPT ![w] = Idle]
      BY <2>1, <2>5 DEF Ends, After
    <3> QED
      BY <1>1, <3>1, StopsKeeps
  <2> QED
    BY <2>2, <2>3, <2>4, <2>5
<1> QED
  BY <1>2, <1>3, <1>4

LEMMA CrashKeeps ==
  ASSUME IInv, NEW w \in Writers, Crash(w) PROVE IInv'
BY CountedEvents, StopsKeeps DEF Crash

\* Time changes no writer.
LEMMA TimeKeeps ==
  ASSUME IInv, UNCHANGED <<proc, constVars>>, DataConsistent', Kept,
         rows' \in Seq(Row), Len(rows') \in Revisions,
         outbox' \in [Revisions -> Payload \cup {NoPayload}],
         dirs' \in [Revisions -> Directory],
         \A r \in Revisions : dirs'[r].old =>
           dirs[r].old \/ (r \in Existing /\ Given(r))
  PROVE  IInv'
<1>1. Typed'
  BY DEF IInv, Typed, constVars, metVars
<1> QED
  BY <1>1, StepKeeps DEF M

LEMMA OutboxAges ==
  ASSUME IInv, NEW r \in Revisions, Has(r), NEW o \in Payload,
         o.content = outbox[r].content, outbox[r].expired => o.expired,
         outbox' = [outbox EXCEPT ![r] = o], UNCHANGED <<rows, dirs, proc, constVars>>
  PROVE  IInv'
<1>1. /\ r \in Existing /\ rows[r].status = "pending" /\ rows[r].current
      /\ rows[r].content = o.content /\ o # NoPayload
  BY PayloadType DEF IInv, DataConsistent, OutboxBelongsToPending
<1>2. Touches(r) /\ DataConsistent' /\ Kept
  BY <1>1, PayloadChanged
<1>3. dirs' \in [Revisions -> Directory]
  BY DEF IInv, Typed
<1> QED
  BY <1>2, <1>3, TouchedTypes, TimeKeeps

LEMMA OutboxTimeKeeps ==
  ASSUME IInv, NEW r \in Revisions, OutboxFallsDue(r) \/ OutboxExpires(r)
  PROVE  IInv'
<1>1. Has(r) /\ outbox[r] \in Payload /\ UNCHANGED <<rows, dirs, proc, constVars>>
  BY DEF OutboxFallsDue, OutboxExpires, Has, IInv, Typed
<1>2. CASE OutboxFallsDue(r)
  <2> DEFINE o == [outbox[r] EXCEPT !.due = TRUE]
  <2>1. /\ o \in Payload /\ o.content = outbox[r].content
        /\ o.expired = outbox[r].expired /\ outbox' = [outbox EXCEPT ![r] = o]
    BY <1>1, <1>2 DEF Payload, OutboxFallsDue
  <2> HIDE DEF o
  <2> QED
    BY <1>1, <2>1, OutboxAges
<1>3. CASE OutboxExpires(r)
  <2> DEFINE o == [outbox[r] EXCEPT !.expired = TRUE]
  <2>1. /\ o \in Payload /\ o.content = outbox[r].content
        /\ o.expired /\ outbox' = [outbox EXCEPT ![r] = o]
    BY <1>1, <1>3 DEF Payload, OutboxExpires
  <2> HIDE DEF o
  <2> QED
    BY <1>1, <2>1, OutboxAges
<1> QED
  BY <1>2, <1>3

LEMMA StaleKeeps ==
  ASSUME IInv, NEW r \in Revisions, ReservationGrowsStale(r) PROVE IInv'
<1> DEFINE v == [rows[r] EXCEPT !.stale = TRUE]
<1>1. r \in Existing /\ rows[r] \in Row /\ RowConsistent(r)
  BY ExistingRow DEF ReservationGrowsStale
<1>2. /\ v \in Row /\ v.status = rows[r].status /\ v.content = rows[r].content
      /\ v.current = rows[r].current /\ v.stored = rows[r].stored
  BY <1>1 DEF Row
<1>3. rows' = [rows EXCEPT ![r] = v] /\ UNCHANGED <<outbox, dirs, proc, constVars>>
  BY DEF ReservationGrowsStale
<1> HIDE DEF v
<1>4. /\ rows' \in Seq(Row) /\ Len(rows') = Len(rows)
      /\ rows'[r] = v /\ \A q \in Existing \ {r} : rows'[q] = rows[q]
  BY <1>1, <1>2, <1>3, RowWritten DEF IInv, Typed
<1>5. Touches(r) /\ dirs' \in [Revisions -> Directory]
  BY <1>3, <1>4 DEF Touches, IInv, Typed
<1>6. Has(r) => /\ rows[r].status = "pending" /\ rows[r].current
                /\ rows[r].content = outbox[r].content
  BY DEF IInv, DataConsistent, OutboxBelongsToPending
<1>7. DataConsistent' /\ Kept
  BY <1>1, <1>2, <1>3, <1>4, <1>5, <1>6, RowTouched DEF RowConsistent, Has
<1> QED
  BY <1>3, <1>5, <1>7, TouchedTypes, TimeKeeps

\* What grows old has no payload that a recorder would still put.
LEMMA ManifestKeeps ==
  ASSUME IInv, NEW r \in Revisions, ManifestGrowsOld(r) PROVE IInv'
<1> DEFINE d == [dirs[r] EXCEPT !.old = TRUE]
<1>1. /\ dirs[r].manifest # NoContent /\ UNCHANGED <<rows, outbox, proc, constVars>>
      /\ Has(r) => outbox[r].expired
      /\ \A w \in Writers \ {"maintenance"} :
           proc[w].step = "idle" \/ proc[w].rev # r
      /\ dirs' = [dirs EXCEPT ![r].old = TRUE]
  BY DEF ManifestGrowsOld, At
<1>2. /\ r \in Existing /\ FilesFollowRow(r) /\ dirs[r] \in Directory
      /\ rows[r].content = dirs[r].manifest
  BY <1>1 DEF IInv, Typed, DataConsistent, FilesFollowRow
<1>3. Given(r)
  <2>1. RowConsistent(r)
    BY <1>2, ExistingRow
  <2> QED
    BY <1>1, <1>2, <2>1 DEF Given, RowConsistent, Puts, PutSteps
<1>4. /\ d \in Directory /\ d.assets = dirs[r].assets
      /\ d.manifest = dirs[r].manifest /\ dirs' = [dirs EXCEPT ![r] = d]
  BY <1>1, <1>2 DEF Directory
<1> HIDE DEF d
<1>5. Whole(dirs[r], rows[r].content) => Whole(d, rows[r].content)
  BY <1>4 DEF Whole
<1>6. /\ dirs' \in [Revisions -> Directory] /\ DataConsistent' /\ Kept
      /\ \A q \in Revisions \ {r} : dirs'[q] = dirs[q]
  BY <1>1, <1>2, <1>4, <1>5, FilesTouched DEF FilesFollowRow
<1> QED
  BY <1>1, <1>2, <1>3, <1>6, Unmoved, TimeKeeps

LEMMA MetKeeps ==
  ASSUME IInv, RetentionEnds \/ DiskFills \/ DiskFrees \/ ListFills PROVE IInv'
<1>1. UNCHANGED <<rows, outbox, dirs, proc>>
  BY DEF RetentionEnds, DiskFills, DiskFrees, ListFills
<1>2. Typed'
  BY <1>1 DEF RetentionEnds, DiskFills, DiskFrees, ListFills, IInv, Typed
<1> QED
  BY <1>1, <1>2, NothingWritten, StepKeeps DEF M

LEMMA InitInv == SnapInit => IInv
<1> SUFFICES ASSUME SnapInit PROVE IInv
  OBVIOUS
<1>1. Reserved \in Row
  BY DEF Reserved, Row
<1>2. rows = <<Reserved>> /\ Len(rows) = 1 /\ rows[1] = Reserved /\ rows \in Seq(Row)
  BY <1>1 DEF SnapInit
<1>3. 1 \in Revisions /\ Existing = {1}
  BY <1>2, SnapshotBounds DEF Revisions, Existing
<1>4. \A w \in Writers : /\ proc[w] \in Process /\ proc[w].rev = 1
                         /\ proc[w].step \in {"idle", "prepare"}
  <2>1. /\ [Idle EXCEPT !.step = "prepare"] \in Process
        /\ [Idle EXCEPT !.step = "prepare"].rev = 1
        /\ [Idle EXCEPT !.step = "prepare"].step = "prepare"
    BY IdleProcess DEF Process, Steps
  <2> QED
    BY <2>1, IdleProcess DEF SnapInit
<1>5. Typed
  <2>1. EmptyDirectory \in Directory
    BY DEF EmptyDirectory, Directory
  <2>2. proc \in [Writers -> Process]
    BY <1>4 DEF SnapInit
  <2>3. /\ outbox \in [Revisions -> Payload \cup {NoPayload}]
        /\ dirs \in [Revisions -> Directory]
    BY <2>1 DEF SnapInit
  <2>4. events \in 0..MaxEvents
    BY SnapshotBounds DEF SnapInit
  <2>5. /\ over \in BOOLEAN /\ full \in BOOLEAN /\ crowded \in BOOLEAN
        /\ invalid \subseteq Contents
    BY DEF SnapInit
  <2> QED
    BY <1>2, <1>3, <2>2, <2>3, <2>4, <2>5 DEF Typed
<1>6. DataConsistent
  <2>1. \A r \in Revisions : ~Has(r)
    BY DEF SnapInit, Has
  <2>2. \A r \in Revisions : FilesFollowRow(r)
    BY DEF SnapInit, FilesFollowRow, EmptyDirectory
  <2>3. NewestIsCurrent
    BY <1>2, <1>3 DEF NewestIsCurrent, Reserved
  <2>4. \A r \in Existing : RowConsistent(r)
    BY <1>2, <1>3 DEF RowConsistent, Reserved
  <2> QED
    BY <2>1, <2>2, <2>3, <2>4 DEF DataConsistent, OutboxBelongsToPending
<1>7. \A r \in Existing : rows[r].status # "ready"
  BY <1>2, <1>3 DEF Reserved
<1>8. \A r \in Revisions : ~dirs[r].old
  BY DEF SnapInit, EmptyDirectory
<1>9. \A w \in Writers : WriterConsistent(w)
  BY <1>3, <1>4 DEF WriterConsistent, Puts, PutSteps
<1>10. MaintenanceConsistent
  <2>1. M = Idle
    BY DEF SnapInit, M, Writers
  <2> QED
    BY <1>5, <2>1, IdleAt DEF MaintenanceConsistent
<1> QED
  BY <1>5, <1>6, <1>7, <1>8, <1>9, <1>10 DEF IInv

LEMMA NextInv == IInv /\ [SnapNext]_snapVars => IInv'
<1>1. ASSUME IInv, UNCHANGED snapVars PROVE IInv'
  <2>1. UNCHANGED <<rows, outbox, dirs, proc, metVars, events>>
    BY <1>1 DEF snapVars
  <2>2. Typed'
    BY <1>1, <2>1 DEF IInv, Typed, metVars
  <2> QED
    BY <1>1, <2>1, <2>2, NothingWritten, StepKeeps DEF M
<1>2. ASSUME IInv, SnapNext PROVE IInv'
  <2>1. {"archiver", "backfill", "maintenance"} \subseteq Writers
    BY DEF Writers
  <2>2. CASE Archiving
    BY <1>2, <2>1, <2>2, RecordKeeps DEF Archiving
  <2>3. CASE Backfilling
    BY <1>2, <2>1, <2>3, RecordKeeps, BackfillKeeps DEF Backfilling
  <2>4. CASE Maintenance
    BY <1>2, <2>4, MaintenanceKeeps
  <2>5. ASSUME NEW r \in Revisions, TimePasses(r) PROVE IInv'
    BY <1>2, <2>5, OutboxTimeKeeps, StaleKeeps, ManifestKeeps DEF TimePasses
  <2>6. CASE RetentionEnds \/ DiskFills \/ DiskFrees \/ ListFills
    BY <1>2, <2>6, MetKeeps
  <2>7. ASSUME NEW w \in Writers, Fails(w) \/ Crash(w) PROVE IInv'
    BY <1>2, <2>7, FailsKeeps, CrashKeeps
  <2> QED
    BY <1>2, <2>2, <2>3, <2>4, <2>5, <2>6, <2>7 DEF SnapNext
<1> QED
  BY <1>1, <1>2

LEMMA InvAlways == SnapSpec => []IInv
BY InitInv, NextInv, PTL DEF SnapSpec

-----------------------------------------------------------------------------
\* Every row, payload, directory and step of a writer has its type, and a put
\* always has a bundle, for any number of revisions and faults.
THEOREM SnapTypeCorrect == SnapSpec => []SnapTypeOK
<1>1. IInv => SnapTypeOK
  BY DEF IInv, Typed, SnapTypeOK, WriterConsistent, Puts
<1> QED
  BY <1>1, InvAlways, PTL

\* A snapshot that is offered is on disk, whole and as its row describes it:
\* neither a late put nor the deletion of expired snapshots and orphans, which
\* read rows and directories in separate steps, ever takes its files.
THEOREM ReadyStaysStored == SnapSpec => []ReadyIsStored
<1>1. IInv => ReadyIsStored
  BY HoldsWhole DEF IInv, ReadyIsStored
<1> QED
  BY <1>1, InvAlways, PTL

\* The newest revision is the current one, and the only one, whoever made it.
THEOREM NewestStaysCurrent == SnapSpec => []NewestIsCurrent
<1>1. IInv => NewestIsCurrent
  BY DEF IInv, DataConsistent
<1> QED
  BY <1>1, InvAlways, PTL

\* A payload is kept only for the current row while it is pending, and it is
\* the content that row names.
THEOREM OutboxFollowsRows == SnapSpec => []OutboxBelongsToPending
<1>1. IInv => OutboxBelongsToPending
  BY DEF IInv, DataConsistent
<1> QED
  BY <1>1, InvAlways, PTL

=============================================================================
