------------------------- MODULE ResponseSnapshots -------------------------
(***************************************************************************)
(* The archive of one answer: the revisions of its snapshot in the         *)
(* database, the outbox that holds a prepared bundle until it is on disk,  *)
(* the revision directories of the filesystem storage, and the three       *)
(* writers that work on them at the same time - the process that recorded  *)
(* the answer, the operator's backfill and the five-minute maintenance     *)
(* job, of which an advisory lock lets one run at a time.                  *)
(*                                                                         *)
(* A database transaction is one step; between two steps anything else may *)
(* happen.  Time is the flags its passing sets: an outbox entry falls due  *)
(* and passes its 24 hours, a reservation grows older than five minutes, a *)
(* manifest older than a day, the answer's 90 days end.  Removing a write  *)
(* lock does not fail.  Capturing is enabled.  Of the batch limits only    *)
(* that of expiry is modelled; the others, 20 rows and more, only delay.   *)
(***************************************************************************)
EXTENDS Naturals, Sequences

CONSTANTS
  MaxRevision,  \* bound: revisions of the snapshot
  MaxEvents     \* bound: crashes of writers, queries and file operations that
                \* throw, and backfills the operator starts, together

ASSUME SnapshotBounds ==
  MaxRevision \in Nat \ {0} /\ MaxEvents \in Nat

VARIABLES
  rows,       \* rows[r]: the row of revision r
  outbox,     \* outbox[r]: the payload kept for revision r
  dirs,       \* dirs[r]: the directory of revision r
  proc,       \* proc[w]: what writer w is doing
  over,       \* the answer's retention has ended
  invalid,    \* the contents that fail the bundle contract
  full,       \* the snapshot disk is at 80% or more
  crowded,    \* the list of expired rows has no room left for this answer
  events      \* what MaxEvents counts

\* What the archive meets and does not change.
metVars == <<over, invalid, full, crowded>>

snapVars == <<rows, outbox, dirs, proc, metVars, events>>

Writers == {"archiver", "backfill", "maintenance"}

\* A bundle is told by its hashes.  The maintenance and the backfill rebuild
\* the answer from the stored run.
Contents == {"captured", "rebuilt"}
NoContent == "none"
DraftOf(w) == IF w = "archiver" THEN "captured" ELSE "rebuilt"

Revisions == 1..MaxRevision

Row ==
  [status : {"pending", "ready", "failed", "expired"},
   current : BOOLEAN,
   stale : BOOLEAN,
   content : Contents \cup {NoContent},
   stored : BOOLEAN]

Reserved ==
  [status |-> "pending", current |-> TRUE, stale |-> FALSE,
   content |-> NoContent, stored |-> FALSE]

Payload == [content : Contents, due : BOOLEAN, expired : BOOLEAN]
NoPayload == [content |-> NoContent, due |-> FALSE, expired |-> FALSE]

\* assets is what the html and json files hold together.
Directory ==
  [assets : Contents \cup {NoContent},
   manifest : Contents \cup {NoContent},
   lock : BOOLEAN,
   old : BOOLEAN]
EmptyDirectory ==
  [assets |-> NoContent, manifest |-> NoContent, lock |-> FALSE, old |-> FALSE]

Steps ==
  {"idle", "next", "prepare", "classify", "reserve", "enqueue", "claim",
   "outdated", "head", "lock", "write", "manifest", "unlock",
   "abandon", "complete", "defer", "supersede", "fail", "list", "unlink",
   "clear"}
Phases == {"record", "flush", "recover", "expire", "orphans"}
PutSteps == {"head", "lock", "write", "manifest", "unlock", "abandon"}

\* todo and before are the candidates and the day-old manifests the
\* maintenance read, listed the files of a deletion.
Process ==
  [step : Steps, phase : Phases, rev : Revisions,
   bundle : Contents \cup {NoContent}, todo : SUBSET Revisions,
   before : SUBSET Revisions, listed : SUBSET {"assets", "manifest"}]
Idle ==
  [step |-> "idle", phase |-> "record", rev |-> 1, bundle |-> NoContent,
   todo |-> {}, before |-> {}, listed |-> {}]

Has(r) == outbox[r] # NoPayload
Existing == 1..Len(rows)
CurrentRevision == CHOOSE r \in Existing : rows[r].current

-----------------------------------------------------------------------------
\* The observation was persisted with a reservation, and its process goes on
\* to record the snapshot.
SnapInit ==
  /\ rows = <<Reserved>>
  /\ outbox = [r \in Revisions |-> NoPayload]
  /\ dirs = [r \in Revisions |-> EmptyDirectory]
  /\ proc = [w \in Writers |->
               IF w = "archiver" THEN [Idle EXCEPT !.step = "prepare"] ELSE Idle]
  /\ over = FALSE /\ full = FALSE /\ crowded = FALSE
  /\ invalid \in SUBSET Contents
  /\ events = 0

constVars == <<metVars, events>>

Counted == events < MaxEvents /\ events' = events + 1

At(w, step) == proc[w].step = step
Goto(w, step) == proc' = [proc EXCEPT ![w].step = step]
GotoWith(w, step, r) == proc' = [proc EXCEPT ![w].step = step, ![w].rev = r]

\* The end of one record or flush: the recorders stop, the maintenance turns
\* to its next candidate.
After(w) ==
  IF w = "maintenance"
  THEN [proc[w] EXCEPT !.step = "next", !.rev = 1, !.bundle = NoContent,
                       !.listed = {}]
  ELSE Idle
Ends(w) == proc' = [proc EXCEPT ![w] = After(w)]

-----------------------------------------------------------------------------
\* Recording a snapshot: prepare, enqueue, flush.

\* Mutant: the payload stays.
FailKeepsPayload(r) ==
  /\ rows' = IF rows[r].status = "pending"
             THEN [rows EXCEPT ![r].status = "failed"] ELSE rows
  /\ UNCHANGED outbox

\* markPendingFailed
FailPending(r) ==
  /\ rows' = IF rows[r].status = "pending"
             THEN [rows EXCEPT ![r].status = "failed"] ELSE rows
  /\ outbox' = [outbox EXCEPT ![r] = NoPayload]

\* The recorder of the answer may also find its draft invalid before it calls
\* the service: then it leaves the reservation as it is.
Prepare(w) ==
  /\ At(w, "prepare")
  /\ \/ /\ DraftOf(w) \notin invalid
        /\ Goto(w, "enqueue")
        /\ UNCHANGED <<rows, outbox>>
     \/ /\ DraftOf(w) \in invalid
        /\ FailPending(proc[w].rev)
        /\ Ends(w)
     \/ /\ DraftOf(w) \in invalid
        /\ w = "archiver"
        /\ Ends(w)
        /\ UNCHANGED <<rows, outbox>>
  /\ UNCHANGED <<dirs, constVars>>

\* resolveResponseSnapshotEnqueueAction
EnqueueAction(row, content) ==
  IF row.status \in {"failed", "expired"} THEN "create_revision"
  ELSE IF row.content = NoContent THEN "populate_reservation"
  ELSE IF row.content = content THEN "reuse_revision"
  ELSE "create_revision"

Queued(content) == [content |-> content, due |-> TRUE, expired |-> FALSE]

PopulateReservation(r, content) ==
  /\ rows' = IF rows[r].status = "pending"
             THEN [rows EXCEPT ![r].content = content] ELSE rows
  /\ outbox' = [outbox EXCEPT ![r] = Queued(content)]

ReuseRevision(r, content) ==
  /\ outbox' = IF rows[r].status = "pending" /\ ~Has(r)
               THEN [outbox EXCEPT ![r] = Queued(content)] ELSE outbox
  /\ UNCHANGED rows

CreateRevision(r, content) ==
  LET next == Len(rows) + 1 IN
  /\ next \in Revisions
  /\ rows' = Append([rows EXCEPT ![r].current = FALSE,
                                 ![r].status = IF @ = "pending" THEN "failed"
                                               ELSE @],
                    [Reserved EXCEPT !.content = content])
  /\ outbox' = [outbox EXCEPT ![r] = NoPayload, ![next] = Queued(content)]

\* Mutant: the reservation need not be current.
EnqueueAnyReservation(w) ==
  LET r == proc[w].rev
      content == DraftOf(w)
      action == EnqueueAction(rows[r], content)
  IN
  /\ At(w, "enqueue")
  /\ \/ action = "populate_reservation" /\ PopulateReservation(r, content)
     \/ action = "reuse_revision" /\ ReuseRevision(r, content)
     \/ action = "create_revision" /\ CreateRevision(r, content)
  /\ GotoWith(w, "claim", IF action = "create_revision" THEN Len(rows) + 1 ELSE r)
  /\ UNCHANGED <<dirs, constVars>>

\* enqueuePreparedResponseSnapshot: a reservation that is no longer current,
\* or a payload that conflicts with it, throws.
Enqueue(w) ==
  LET r == proc[w].rev
      content == DraftOf(w)
      action == EnqueueAction(rows[r], content)
  IN
  /\ At(w, "enqueue")
  /\ \/ /\ ~rows[r].current
        /\ Ends(w)
        /\ UNCHANGED <<rows, outbox>>
     \/ /\ rows[r].current
        /\ action = "populate_reservation"
        /\ PopulateReservation(r, content)
        /\ Goto(w, "claim")
     \/ /\ rows[r].current
        /\ action = "reuse_revision"
        /\ ReuseRevision(r, content)
        /\ Goto(w, "claim")
     \/ /\ rows[r].current
        /\ action = "create_revision"
        /\ CreateRevision(r, content)
        /\ GotoWith(w, "claim", Len(rows) + 1)
  /\ UNCHANGED <<dirs, constVars>>

\* claimForFlush, with the caller's check of the outbox's 24 hours.
Claim(w) ==
  LET r == proc[w].rev IN
  /\ At(w, "claim")
  /\ \/ /\ rows[r].status # "pending" \/ ~outbox[r].due
        /\ Ends(w)
        /\ UNCHANGED outbox
     \/ /\ rows[r].status = "pending" /\ outbox[r].due
        /\ outbox' = [outbox EXCEPT ![r].due = FALSE]
        /\ proc' = [proc EXCEPT
             ![w].step = IF outbox[r].expired THEN "outdated" ELSE "head",
             ![w].bundle = outbox[r].content]
  /\ UNCHANGED <<rows, dirs, constVars>>

\* failExpiredOutbox
FailExpiredOutbox(w) ==
  /\ At(w, "outdated")
  /\ FailPending(proc[w].rev)
  /\ Ends(w)
  /\ UNCHANGED <<dirs, constVars>>

-----------------------------------------------------------------------------
\* FilesystemResponseSnapshotStorage.put

\* What head() finds: no manifest, files the manifest vouches for, or an
\* integrity error.
Found(r) ==
  IF dirs[r].manifest = NoContent THEN "missing"
  ELSE IF dirs[r].assets = dirs[r].manifest THEN "intact"
  ELSE "broken"

\* assertIdentical(head(), bundle)
Holds(r, content) == Found(r) = "intact" /\ dirs[r].manifest = content

PutHead(w) ==
  /\ At(w, "head")
  /\ Goto(w, IF Holds(proc[w].rev, proc[w].bundle) THEN "complete"
             ELSE IF Found(proc[w].rev) = "missing" THEN "lock"
             ELSE "defer")
  /\ UNCHANGED <<rows, outbox, dirs, constVars>>

\* acquireWriteLock: a lock that exists means busy.
AcquireWriteLock(w) ==
  /\ At(w, "lock")
  /\ IF dirs[proc[w].rev].lock
     THEN Goto(w, "defer") /\ UNCHANGED dirs
     ELSE /\ Goto(w, "write")
          /\ dirs' = [dirs EXCEPT ![proc[w].rev].lock = TRUE]
  /\ UNCHANGED <<rows, outbox, constVars>>

\* The second head(), cleanIncompleteRevision, the temporary files and the
\* renames of html and json.
WriteAssets(w) ==
  LET r == proc[w].rev IN
  /\ At(w, "write")
  /\ IF Found(r) = "missing"
     THEN /\ Goto(w, "manifest")
          /\ dirs' = [dirs EXCEPT ![r].assets = proc[w].bundle]
     ELSE /\ Goto(w, IF Holds(r, proc[w].bundle) THEN "unlock" ELSE "abandon")
          /\ UNCHANGED dirs
  /\ UNCHANGED <<rows, outbox, constVars>>

\* The commit, with the last head() of put.
RenameManifest(w) ==
  LET r == proc[w].rev IN
  /\ At(w, "manifest")
  /\ dirs' = [dirs EXCEPT ![r].manifest = proc[w].bundle, ![r].old = FALSE]
  /\ Goto(w, IF dirs[r].assets = proc[w].bundle THEN "unlock" ELSE "abandon")
  /\ UNCHANGED <<rows, outbox, constVars>>

Unlock(w) ==
  /\ At(w, "unlock")
  /\ dirs' = [dirs EXCEPT ![proc[w].rev].lock = FALSE]
  /\ Goto(w, "complete")
  /\ UNCHANGED <<rows, outbox, constVars>>

\* cleanupOwnAttempt, then the lock goes.
Abandon(w) ==
  LET r == proc[w].rev IN
  /\ At(w, "abandon")
  /\ dirs' = [dirs EXCEPT
       ![r].assets = IF dirs[r].manifest = NoContent THEN NoContent ELSE @,
       ![r].lock = FALSE]
  /\ Goto(w, "defer")
  /\ UNCHANGED <<rows, outbox, constVars>>

\* completeFlush
CompleteFlush(w) ==
  LET r == proc[w].rev IN
  /\ At(w, "complete")
  /\ \/ /\ rows[r].status = "ready"
        /\ Ends(w)
        /\ UNCHANGED <<rows, outbox>>
     \/ /\ rows[r].status = "pending" /\ rows[r].content = proc[w].bundle
        /\ rows' = [rows EXCEPT ![r].status = "ready", ![r].stored = TRUE]
        /\ outbox' = [outbox EXCEPT ![r] = NoPayload]
        /\ Ends(w)
     \/ /\ rows[r].status # "ready"
        /\ rows[r].status # "pending" \/ rows[r].content # proc[w].bundle
        /\ Goto(w, "defer")
        /\ UNCHANGED <<rows, outbox>>
  /\ UNCHANGED <<dirs, constVars>>

\* Mutant: an upsert, due at once.
DeferWithUpsert(w) ==
  /\ At(w, "defer")
  /\ outbox' = [outbox EXCEPT ![proc[w].rev].due = TRUE]
  /\ Ends(w)
  /\ UNCHANGED <<rows, dirs, constVars>>

\* deferFlush: 30 seconds from now.
DeferFlush(w) ==
  LET r == proc[w].rev IN
  /\ At(w, "defer")
  /\ outbox' = IF Has(r) THEN [outbox EXCEPT ![r].due = FALSE] ELSE outbox
  /\ Ends(w)
  /\ UNCHANGED <<rows, dirs, constVars>>

Flush(w) ==
  \/ Claim(w) \/ FailExpiredOutbox(w)
  \/ PutHead(w) \/ AcquireWriteLock(w) \/ WriteAssets(w)
  \/ RenameManifest(w) \/ Unlock(w) \/ Abandon(w)
  \/ CompleteFlush(w) \/ DeferFlush(w)

Record(w) == Prepare(w) \/ Enqueue(w) \/ Flush(w)

-----------------------------------------------------------------------------
\* backfill-response-snapshots: the current rows are read and classified, and
\* each run to rebuild is reserved again and recorded.

StartBackfill ==
  /\ At("backfill", "idle")
  /\ Counted
  /\ Goto("backfill", "classify")
  /\ UNCHANGED <<rows, outbox, dirs, metVars>>

\* classifyResponseSnapshotBackfillActions, then assertResponseSnapshotCapacity.
Classify ==
  /\ At("backfill", "classify")
  /\ IF full \/ rows[CurrentRevision].status \in {"ready", "pending"}
     THEN Ends("backfill")
     ELSE Goto("backfill", "reserve")
  /\ UNCHANGED <<rows, outbox, dirs, constVars>>

\* The retention check of rebuild, and reserveResponseSnapshotInTransaction,
\* which gives back the current row in whatever state it is.
Reserve ==
  /\ At("backfill", "reserve")
  /\ IF over THEN Ends("backfill")
     ELSE GotoWith("backfill", "prepare", CurrentRevision)
  /\ UNCHANGED <<rows, outbox, dirs, constVars>>

-----------------------------------------------------------------------------
\* runResponseSnapshotMaintenance: flushPending, recoverStalePending, expire
\* and cleanupFilesystemOrphans, one after the other.

Turns(phase, todo) ==
  proc' = [proc EXCEPT !["maintenance"] =
             [@ EXCEPT !.step = "next", !.phase = phase, !.todo = todo]]

\* assertResponseSnapshotCapacity throws at 80%, before anything is flushed,
\* recovered or expired: the job ends.  The cutoffs are of the start of the job
\* (before: the manifests older than a day).  listFlushableSnapshotIds
StartMaintenance ==
  /\ At("maintenance", "idle") /\ ~full
  /\ proc' = [proc EXCEPT !["maintenance"] =
       [Idle EXCEPT
          !.step = "next", !.phase = "flush",
          !.before = {r \in Existing : dirs[r].old},
          !.todo = {r \in Existing : rows[r].status = "pending" /\ outbox[r].due}]]
  /\ UNCHANGED <<rows, outbox, dirs, constVars>>

\* The lists are worked off in some order; the code's order is by time.
NextCandidate ==
  LET m == proc["maintenance"]
      first == CASE m.phase = "flush" -> "claim"
                 [] m.phase = "recover" -> "supersede"
                 [] OTHER -> "list"
  IN
  /\ m.step = "next"
  /\ \E r \in m.todo :
       proc' = [proc EXCEPT !["maintenance"] =
                  [m EXCEPT !.step = first, !.rev = r, !.todo = @ \ {r}]]
  /\ UNCHANGED <<rows, outbox, dirs, constVars>>

\* listStalePendingReservations
ListStale ==
  /\ At("maintenance", "next") /\ proc["maintenance"].phase = "flush"
  /\ proc["maintenance"].todo = {}
  /\ Turns("recover",
           {r \in Existing : /\ rows[r].status = "pending" /\ rows[r].current
                             /\ rows[r].stale /\ ~Has(r)})
  /\ UNCHANGED <<rows, outbox, dirs, constVars>>

\* The oldest 500 ready rows past their retention and expired rows with a key.
\* Rows of one answer have one expiry: the limit leaves them in or out.
Expirable == {r \in Existing : rows[r].status = "ready" /\ over /\ ~crowded}

Expire(ends) ==
  rows' = [r \in Existing |->
             IF r \in ends THEN [rows[r] EXCEPT !.status = "expired"]
             ELSE rows[r]]

\* Mutant: what an earlier maintenance has expired is not a candidate.
ClaimNewlyExpired ==
  /\ At("maintenance", "next") /\ proc["maintenance"].phase = "recover"
  /\ proc["maintenance"].todo = {}
  /\ Expire(Expirable)
  /\ Turns("expire", Expirable)
  /\ UNCHANGED <<outbox, dirs, constVars>>

\* claimExpiredReady
ClaimExpired ==
  /\ At("maintenance", "next") /\ proc["maintenance"].phase = "recover"
  /\ proc["maintenance"].todo = {}
  /\ Expire(Expirable)
  /\ Turns("expire",
           {r \in Existing : /\ rows'[r].status = "expired" /\ rows'[r].stored
                             /\ ~crowded})
  /\ UNCHANGED <<outbox, dirs, constVars>>

\* cleanupFilesystemOrphans reads the keys that rows refer to before it looks
\* at the directories.
ListOrphans ==
  /\ At("maintenance", "next") /\ proc["maintenance"].phase = "expire"
  /\ proc["maintenance"].todo = {}
  /\ Turns("orphans", {r \in Existing : ~rows[r].stored})
  /\ UNCHANGED <<rows, outbox, dirs, constVars>>

EndMaintenance ==
  /\ At("maintenance", "next") /\ proc["maintenance"].phase = "orphans"
  /\ proc["maintenance"].todo = {}
  /\ proc' = [proc EXCEPT !["maintenance"] = Idle]
  /\ UNCHANGED <<rows, outbox, dirs, constVars>>

\* loadReconstructedDraft and supersedeStaleReservation; when either throws
\* the candidate of the list is failed.
Recoverable(r) == rows[r].current /\ rows[r].status = "pending" /\ ~Has(r)

Supersede ==
  LET r == proc["maintenance"].rev IN
  /\ At("maintenance", "supersede")
  /\ \/ /\ Recoverable(r)
        /\ Len(rows) < MaxRevision
        /\ rows' = Append([rows EXCEPT ![r].status = "failed",
                                       ![r].current = FALSE], Reserved)
        /\ GotoWith("maintenance", "prepare", Len(rows) + 1)
     \/ /\ ~Recoverable(r) \/ "rebuilt" \in invalid
        /\ Goto("maintenance", "fail")
        /\ UNCHANGED rows
  /\ UNCHANGED <<outbox, dirs, constVars>>

\* Mutant: a reservation that cannot be rebuilt is left alone.
SkipCandidate ==
  /\ At("maintenance", "fail")
  /\ Ends("maintenance")
  /\ UNCHANGED <<rows, outbox, dirs, constVars>>

FailCandidate ==
  /\ At("maintenance", "fail")
  /\ FailPending(proc["maintenance"].rev)
  /\ Ends("maintenance")
  /\ UNCHANGED <<dirs, constVars>>

\* FilesystemResponseSnapshotStorage.delete: the entries are read and the lock
\* looked for, then the files read go one by one, then the directory goes, if
\* nothing came in the meantime.  An orphan must be old and pass head().
Present(r) ==
  {f \in {"assets", "manifest"} : dirs[r][f] # NoContent}

\* Mutant: unreferenced is enough.
AnyAge(r) == TRUE

IsOld(r) == dirs[r].old /\ r \in proc["maintenance"].before

ListEntries ==
  LET r == proc["maintenance"].rev
      orphan == proc["maintenance"].phase = "orphans"
  IN
  /\ At("maintenance", "list")
  /\ IF dirs[r].lock \/ (orphan /\ ~(IsOld(r) /\ Found(r) = "intact"))
     THEN Ends("maintenance")
     ELSE proc' = [proc EXCEPT !["maintenance"].step = "unlink",
                               !["maintenance"].listed = Present(r)]
  /\ UNCHANGED <<rows, outbox, dirs, constVars>>

Unlink ==
  LET r == proc["maintenance"].rev IN
  /\ At("maintenance", "unlink")
  /\ \E f \in proc["maintenance"].listed :
       /\ dirs' = [dirs EXCEPT ![r][f] = NoContent,
                               ![r].old = @ /\ f # "manifest"]
       /\ proc' = [proc EXCEPT !["maintenance"].listed = @ \ {f}]
  /\ UNCHANGED <<rows, outbox, constVars>>

RemoveDirectory ==
  LET m == proc["maintenance"] IN
  /\ At("maintenance", "unlink")
  /\ m.listed = {}
  /\ IF m.phase = "expire" /\ dirs[m.rev] = EmptyDirectory
     THEN Goto("maintenance", "clear")
     ELSE Ends("maintenance")
  /\ UNCHANGED <<rows, outbox, dirs, constVars>>

\* completeExpiredDeletion locks the rows of a left join, the side that may be
\* missing included (FOR UPDATE), which PostgreSQL refuses: it throws before it
\* has read a row, and expire goes on with the next candidate.  The deletion of
\* the attached evidence and of the key is never reached.
CompleteExpiredDeletion ==
  /\ At("maintenance", "clear")
  /\ Ends("maintenance")
  /\ UNCHANGED <<rows, outbox, dirs, constVars>>

-----------------------------------------------------------------------------
\* What goes wrong, and time.

\* The step a writer takes on a query or a file operation that throws.  An
\* error of a maintenance list ends the job.
OnError(w) ==
  CASE proc[w].step \in {"head", "lock", "complete"} -> "defer"
    [] proc[w].step \in {"write", "manifest"} -> "abandon"
    [] proc[w].step = "supersede" -> "fail"
    [] OTHER -> "ends"

Fails(w) ==
  /\ Counted
  /\ ~At(w, "idle") /\ proc[w].step \notin {"prepare", "unlock", "abandon"}
  /\ proc' = [proc EXCEPT ![w] =
       CASE OnError(w) # "ends" -> [@ EXCEPT !.step = OnError(w)]
         [] @.step \in {"next", "classify", "reserve"} -> Idle
         [] OTHER -> After(w)]
  /\ UNCHANGED <<rows, outbox, dirs, metVars>>

\* The process stops: what is on disk stays, a write lock included.
Crash(w) ==
  /\ Counted
  /\ ~At(w, "idle")
  /\ proc' = [proc EXCEPT ![w] = Idle]
  /\ UNCHANGED <<rows, outbox, dirs, metVars>>

OutboxFallsDue(r) ==
  /\ Has(r) /\ ~outbox[r].due
  /\ outbox' = [outbox EXCEPT ![r].due = TRUE]
  /\ UNCHANGED <<rows, dirs, proc, constVars>>

OutboxExpires(r) ==
  /\ Has(r) /\ ~outbox[r].expired
  /\ outbox' = [outbox EXCEPT ![r].expired = TRUE]
  /\ UNCHANGED <<rows, dirs, proc, constVars>>

ReservationGrowsStale(r) ==
  /\ r \in Existing /\ ~rows[r].stale
  /\ rows' = [rows EXCEPT ![r].stale = TRUE]
  /\ UNCHANGED <<outbox, dirs, proc, constVars>>

\* A manifest is younger than the outbox entry it was written from, and a
\* recorder's flush takes less than a day.
ManifestGrowsOld(r) ==
  /\ dirs[r].manifest # NoContent /\ ~dirs[r].old
  /\ Has(r) => outbox[r].expired
  /\ \A w \in Writers \ {"maintenance"} : At(w, "idle") \/ proc[w].rev # r
  /\ dirs' = [dirs EXCEPT ![r].old = TRUE]
  /\ UNCHANGED <<rows, outbox, proc, constVars>>

RetentionEnds ==
  /\ ~over /\ over' = TRUE
  /\ UNCHANGED <<rows, outbox, dirs, proc, invalid, full, crowded, events>>

\* Whatever shares the disk fills it, and an operator makes room: at any time,
\* but told apart only where the two jobs look.
Looked == At("maintenance", "idle") \/ At("backfill", "classify")

DiskFills ==
  /\ Looked /\ ~full /\ full' = TRUE
  /\ UNCHANGED <<rows, outbox, dirs, proc, over, invalid, crowded, events>>

DiskFrees ==
  /\ Looked /\ full /\ full' = FALSE
  /\ UNCHANGED <<rows, outbox, dirs, proc, over, invalid, crowded, events>>

\* 500 rows of older answers have expired.  None leaves the list, as none loses
\* its key.  Before the retention ends it makes no difference.
ListFills ==
  /\ over /\ ~crowded /\ crowded' = TRUE
  /\ UNCHANGED <<rows, outbox, dirs, proc, over, invalid, full, events>>

Archiving == Record("archiver")
Backfilling == StartBackfill \/ Classify \/ Reserve \/ Record("backfill")
Maintenance ==
  \/ StartMaintenance \/ NextCandidate \/ ListStale \/ ClaimExpired \/ ListOrphans
  \/ EndMaintenance \/ Supersede \/ FailCandidate \/ Record("maintenance")
  \/ ListEntries \/ Unlink \/ RemoveDirectory \/ CompleteExpiredDeletion
TimePasses(r) ==
  \/ OutboxFallsDue(r) \/ OutboxExpires(r) \/ ReservationGrowsStale(r)
  \/ ManifestGrowsOld(r)

SnapNext ==
  \/ Archiving \/ Backfilling \/ Maintenance
  \/ \E r \in Revisions : TimePasses(r)
  \/ RetentionEnds \/ DiskFills \/ DiskFrees \/ ListFills
  \/ \E w \in Writers : Fails(w) \/ Crash(w)

\* pg-boss starts the maintenance every five minutes (it gets beyond its first
\* check only below 80%), a process that does not crash goes on, and time passes.
\* Nothing says that a full disk is ever freed.
SnapSpec ==
  /\ SnapInit /\ [][SnapNext]_snapVars
  /\ WF_snapVars(Archiving) /\ WF_snapVars(Maintenance)
  /\ WF_snapVars(Record("backfill") \/ Classify \/ Reserve)
  /\ \A r \in Revisions : WF_snapVars(OutboxFallsDue(r))
  /\ \A r \in Revisions : WF_snapVars(OutboxExpires(r))
  /\ \A r \in Revisions : WF_snapVars(ReservationGrowsStale(r))
  /\ \A r \in Revisions : WF_snapVars(ManifestGrowsOld(r))
  /\ WF_snapVars(RetentionEnds)

-----------------------------------------------------------------------------
\* The shape of the state: a put always writes the payload of an outbox.
SnapTypeOK ==
  /\ rows \in Seq(Row) /\ Len(rows) \in Revisions
  /\ outbox \in [Revisions -> Payload \cup {NoPayload}]
  /\ dirs \in [Revisions -> Directory]
  /\ proc \in [Writers -> Process]
  /\ over \in BOOLEAN /\ full \in BOOLEAN /\ crowded \in BOOLEAN
  /\ invalid \subseteq Contents /\ events \in 0..MaxEvents
  /\ \A w \in Writers : proc[w].step \in PutSteps => proc[w].bundle \in Contents

\* A snapshot the portal offers has its files, whole, and they are what its
\* row says: no maintenance, late put or cleanup of another writer took them.
ReadyIsStored ==
  \A r \in Existing : rows[r].status = "ready" => Holds(r, rows[r].content)

\* One revision is the current one, and it is the newest, however recording,
\* recovery and backfill of the same answer interleave.
NewestIsCurrent ==
  \A r \in Existing : rows[r].current <=> r = Len(rows)

\* A payload is kept only for the current row while it is pending, and it is
\* the content the row's hashes name: no payload outlives its purpose.
OutboxBelongsToPending ==
  \A r \in Revisions : Has(r) =>
    /\ r \in Existing /\ rows[r].status = "pending" /\ rows[r].current
    /\ rows[r].content = outbox[r].content

AnyPending == \E r \in Existing : rows[r].status = "pending"

\* A snapshot does not stay in preparation for ever: it is stored, or fails,
\* also after a crash that left a write lock or a reservation without payload.
\* The work in flight is finished by the maintenance, so all this is promised
\* only if the disk is below 80% from some time on: at 80% the code refuses
\* that work too.
PendingSettles == <>[]~full => (AnyPending ~> ~AnyPending)

\* What a crash may leave: a lock without its writer, or half a directory.
Leftover(r) ==
  /\ \A w \in Writers :
       proc[w].rev = r => proc[w].step \notin PutSteps \ {"head", "lock"}
  /\ dirs[r].lock \/ dirs[r].assets # dirs[r].manifest

NothingOffered == \A r \in Existing : rows[r].status # "ready"

\* When the 90 days have ended the maintenance withdraws every snapshot and
\* deletes its files, trying again after a failure; only what a crash left
\* behind it cannot delete.  It is promised of files, not of keys and of
\* attached evidence, which stay; while the disk is below 80% from some time on;
\* and as long as the rows whose keys stay have not filled the list.
ErasedUnlessCrashed ==
  <>[]~full =>
    (over ~> \/ crowded
             \/ /\ NothingOffered
                /\ \A r \in Existing :
                     rows[r].status = "expired" =>
                       \/ dirs[r] = EmptyDirectory
                       \/ events > 0 /\ Leftover(r))

\* The payload of a pending snapshot is given up only for a stored one, after
\* its 24 hours, or for a newer revision.  The recovery fails a reservation it
\* listed as stale although its recorder has queued the payload since.
PayloadIsKept ==
  [][\A r \in Existing :
       Has(r) /\ outbox'[r] = NoPayload =>
         \/ rows'[r].status = "ready"
         \/ outbox[r].expired
         \/ ~rows'[r].current]_snapVars
=============================================================================
