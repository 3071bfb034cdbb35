----------------------------- MODULE ImageStorage -----------------------------
(***************************************************************************)
(* Images live in an object storage and the rows that show them in the     *)
(* database, with nothing that spans the two.  The categories, the option  *)
(* values and galleries of products and the avatars all follow one         *)
(* protocol: upload under a new key, write the row, then delete what it    *)
(* showed before; and when the write fails, delete what was uploaded.      *)
(* A failing delete is logged and forgotten, a job can stop anywhere, and  *)
(* the answer to a write can be lost after the write was made.             *)
(***************************************************************************)
EXTENDS FiniteSets

CONSTANTS
    Owners,         \* rows that show an image
    Images,         \* keys in the object storage; an upload takes a new one
    NoImage,
    Jobs            \* requests that can run at once

ASSUME ImageParameters == NoImage \notin Images

VARIABLES
    row,            \* the rows that are there
    shown,          \* image_url, url, avatar_url
    stored,         \* objects in the storage
    taken,          \* keys that have been used
    unanswered,     \* rows whose last write seemed to fail and did not
    job

imageVars == <<row, shown, stored, taken, unanswered, job>>

\* CREATE adds a row of a gallery, REPLACE gives a row another image, CLEAR takes
\* it away, DELETE removes the row and ERASE does so for images listed before.
Tasks == {"CREATE", "REPLACE", "CLEAR", "DELETE", "ERASE"}
Phases == {"IDLE", "UPLOAD", "WRITE", "CLEAN"}

JobRow == [task: Tasks, phase: Phases, owner: Owners,
           old: Images \cup {NoImage},      \* what the row showed when it was read
           new: Images \cup {NoImage},      \* what was uploaded
           victim: Images \cup {NoImage}]   \* what is deleted in the end

ImageTypeOK ==
    /\ row \subseteq Owners
    /\ shown \in [Owners -> Images \cup {NoImage}]
    /\ stored \subseteq Images
    /\ taken \subseteq Images
    /\ unanswered \subseteq Owners
    /\ job \in [Jobs -> JobRow]

At(task, phase, o, old, new, victim) ==
    [task |-> task, phase |-> phase, owner |-> o, old |-> old, new |-> new, victim |-> victim]

ImageInit ==
    /\ row = {}
    /\ shown = [o \in Owners |-> NoImage]
    /\ stored = {}
    /\ taken = {}
    /\ unanswered = {}
    /\ \E o \in Owners : job = [j \in Jobs |-> At("CLEAR", "IDLE", o, NoImage, NoImage, NoImage)]

-----------------------------------------------------------------------------
SetJob(j, r) == job' = [job EXCEPT ![j] = r]

Ended(r) == At(r.task, "IDLE", r.owner, NoImage, NoImage, NoImage)
Cleaning(r, victim) == At(r.task, "CLEAN", r.owner, NoImage, NoImage, victim)

\* A category or an account is created without an image.
AddRow(o) ==
    /\ o \notin row
    /\ row' = row \cup {o}
    /\ UNCHANGED <<shown, stored, taken, unanswered, job>>

\* The row is read, with the image it shows; CREATE reads what it will belong to.
Read(j, task, o) ==
    /\ job[j].phase = "IDLE"
    /\ IF task = "CREATE" THEN o \notin row ELSE o \in row
    /\ task = "CLEAR" => shown[o] # NoImage
    /\ task # "DELETE"
    /\ LET phase == IF task \in {"CREATE", "REPLACE"} THEN "UPLOAD" ELSE "WRITE"
       IN SetJob(j, At(task, phase, o, shown[o], NoImage, NoImage))
    /\ UNCHANGED <<row, shown, stored, taken, unanswered>>

\* ImageUploadService.upload: a new key each time.
Upload(j, i) ==
    /\ job[j].phase = "UPLOAD"
    /\ i \notin taken
    /\ stored' = stored \cup {i}
    /\ taken' = taken \cup {i}
    /\ SetJob(j, At(job[j].task, "WRITE", job[j].owner, job[j].old, i, NoImage))
    /\ UNCHANGED <<row, shown, unanswered>>

\* The row is written: by its id, or new.
Writable(r) == IF r.task = "CREATE" THEN r.owner \notin row ELSE r.owner \in row

Write(j) ==
    LET r == job[j] IN
    /\ r.phase = "WRITE" /\ r.task \in {"CREATE", "REPLACE", "CLEAR"}
    /\ Writable(r)
    /\ row' = row \cup {r.owner}
    /\ shown' = [shown EXCEPT ![r.owner] = r.new]
    /\ unanswered' = unanswered \ {r.owner}
    /\ SetJob(j, Cleaning(r, r.old))
    /\ UNCHANGED <<stored, taken>>

\* The write is made and its answer lost: what was uploaded will be deleted,
\* though the row shows it.  Without an upload nothing is deleted.
WriteUnanswered(j) ==
    LET r == job[j] IN
    /\ r.phase = "WRITE" /\ r.task \in {"CREATE", "REPLACE", "CLEAR"}
    /\ Writable(r)
    /\ row' = row \cup {r.owner}
    /\ shown' = [shown EXCEPT ![r.owner] = r.new]
    /\ unanswered' = unanswered \cup {r.owner}
    /\ SetJob(j, Cleaning(r, r.new))
    /\ UNCHANGED <<stored, taken>>

\* Mutant: what the row showed is deleted though it is still shown.
WriteFailsDeletingOld(j) ==
    /\ job[j].phase = "WRITE"
    /\ SetJob(j, Cleaning(job[j], job[j].old))
    /\ UNCHANGED <<row, shown, stored, taken, unanswered>>

\* The row is gone, a gallery is full, the database is not there.
WriteFails(j) ==
    /\ job[j].phase = "WRITE"
    /\ SetJob(j, Cleaning(job[j], job[j].new))
    /\ UNCHANGED <<row, shown, stored, taken, unanswered>>

RemoveRow(o) ==
    /\ row' = row \ {o}
    /\ shown' = [shown EXCEPT ![o] = NoImage]
    /\ unanswered' = unanswered \ {o}

\* A category or a gallery image: the transaction returns the row it deleted.
DeleteRow(j, o) ==
    /\ job[j].phase = "IDLE"
    /\ o \in row
    /\ RemoveRow(o)
    /\ SetJob(j, At("DELETE", "CLEAN", o, NoImage, NoImage, shown[o]))
    /\ UNCHANGED <<stored, taken>>

\* A product, a variant, an option or a value: the images that were listed first.
EraseRow(j) ==
    LET r == job[j] IN
    /\ r.phase = "WRITE" /\ r.task = "ERASE"
    /\ r.owner \in row
    /\ RemoveRow(r.owner)
    /\ SetJob(j, Cleaning(r, r.old))
    /\ UNCHANGED <<stored, taken>>

Clean(j) ==
    /\ job[j].phase = "CLEAN"
    /\ stored' = stored \ {job[j].victim}
    /\ SetJob(j, Ended(job[j]))
    /\ UNCHANGED <<row, shown, taken, unanswered>>

\* The process stops, an upload fails, or a deletion does.
Stop(j) ==
    /\ job[j].phase # "IDLE"
    /\ SetJob(j, Ended(job[j]))
    /\ UNCHANGED <<row, shown, stored, taken, unanswered>>

ImageStep(j) ==
    \/ \E task \in Tasks, o \in Owners : Read(j, task, o)
    \/ \E i \in Images : Upload(j, i)
    \/ Write(j)
    \/ WriteUnanswered(j)
    \/ WriteFails(j)
    \/ \E o \in Owners : DeleteRow(j, o)
    \/ EraseRow(j)
    \/ Clean(j)
    \/ Stop(j)

ImageNext ==
    \/ \E o \in Owners : AddRow(o)
    \/ \E j \in Jobs : ImageStep(j)

ImageSpec == ImageInit /\ [][ImageNext]_imageVars

-----------------------------------------------------------------------------
\* Whatever runs at once, fails or stops: what a row shows is in the storage,
\* so no page shows a broken image.  The one exception is a row whose write was
\* made without an answer, until it is written again.
ShownIsStored ==
    \A o \in row \ unanswered : shown[o] # NoImage => shown[o] \in stored
=============================================================================
