----------------------------------- MODULE Files -----------------------------------
(***************************************************************************)
(* Files on the disk: uploads to a draft, which multer writes into the     *)
(* public directory before they are looked at; the two files and the row   *)
(* of each generated image; and the script that deletes old public images. *)
(* A file's name is new, so nothing but the script touches it again.       *)
(***************************************************************************)
EXTENDS Integers, FiniteSets

CONSTANTS
  Uploads,        \* requests with a file
  Jobs,           \* generation jobs, or attempts of one
  Images          \* the images of each job

VARIABLES
  upload,         \* upload[u]: the next step or the answer; what the request says
                  \* the file is, what it is, and what lies in the public directory
  attempt,        \* attempt[j]: how far a job is
  writer,         \* writer[x]: the step the writer of an image takes next
  original, shown,   \* original[x]: x is in the private directory; shown[x]: the
                     \* watermarked copy in the public one, each written to its end
  aged,           \* the copies written more than a day ago
  row,            \* row[x]: the GeneratedImage of x
  unanswered,     \* jobs of which a row was created without an answer, or whose
                  \* completing update failed (history)
  sweep,          \* the copies the script listed
  swept           \* whether UPLOAD_DIR, which the script cleans, is the public directory

imageVars == <<attempt, writer, original, shown, aged, row, unanswered, sweep, swept>>
fileVars == <<upload, imageVars>>

Pictures == {"png", "jpeg", "webp"}
AllowedMime == Pictures \cup {"pdf"}
AllImages == Jobs \X Images

FilesTypeOK ==
  /\ upload \in [Uploads -> [step : {"parse", "detect", "sanitize", "201", "400", "error"},
                             says : AllowedMime \cup {"other"}, is : AllowedMime \cup {"other"},
                             disk : {"none", "raw", "clean"}]]
  /\ attempt \in [Jobs -> {"queued", "generating", "completed", "failed"}]
  /\ writer \in [AllImages -> {"none", "original", "mark", "copy", "row",
                              "done", "failed"}]
  /\ original \in [AllImages -> BOOLEAN] /\ row \in [AllImages -> BOOLEAN]
  /\ shown \in [AllImages -> {"none", "there", "deleted"}]
  /\ aged \subseteq AllImages /\ unanswered \subseteq Jobs
  /\ sweep \subseteq AllImages /\ swept \in BOOLEAN

FilesInit ==
  /\ upload \in [Uploads -> [step : {"parse"}, says : {"png", "pdf", "other"},
                             is : {"png", "pdf", "other"}, disk : {"none"}]]
  /\ attempt = [j \in Jobs |-> "queued"]
  /\ writer = [x \in AllImages |-> "none"]
  /\ original = [x \in AllImages |-> FALSE] /\ row = [x \in AllImages |-> FALSE]
  /\ shown = [x \in AllImages |-> "none"]
  /\ aged = {} /\ unanswered = {} /\ sweep = {} /\ swept \in BOOLEAN
-------------------------------------------------------------------------------
(* An upload: multer, validateMagicBytes, sanitizeImage, the answer. *)

isAllowedMime(m) == m \in AllowedMime

UploadStep(u, from, to, disk) ==
  /\ upload[u].step = from
  /\ upload' = [upload EXCEPT ![u].step = to, ![u].disk = disk]
  /\ UNCHANGED imageVars

\* A type, name or extension that does not fit is refused before anything is
\* written, and of a file that is too large or broken off nothing stays.
Refuse(u) == UploadStep(u, "parse", "error", "none")

Store(u) ==
  /\ isAllowedMime(upload[u].says)
  /\ UploadStep(u, "parse", "detect", "raw")

\* The bytes must be those of some allowed type, not of the one it says.
ValidateMagicBytes(u) ==
  UploadStep(u, "detect", IF isAllowedMime(upload[u].is) THEN "sanitize" ELSE "400", "raw")

\* Pictures are written again without metadata; what does not decode is an error.
SanitizeImage(u) ==
  IF upload[u].says \notin Pictures THEN UploadStep(u, "sanitize", "201", "raw")
  ELSE /\ upload[u].is \in Pictures
       /\ UploadStep(u, "sanitize", "201", "clean")

\* Reading, decoding or writing fails: the file stays where it is.
UploadFails(u) ==
  \E step \in {"detect", "sanitize"} : UploadStep(u, step, "error", upload[u].disk)
-------------------------------------------------------------------------------
(* The images of a job: each writes its original, its copy and its row.  (The    *)
(* worker watermarks an image first, which leaves nothing behind either.)        *)

Generate(j) ==
  /\ attempt[j] = "queued"
  /\ attempt' = [attempt EXCEPT ![j] = "generating"]
  /\ writer' = [x \in AllImages |-> IF x[1] = j THEN "original" ELSE writer[x]]
  /\ UNCHANGED <<upload, original, shown, aged, row, unanswered, sweep, swept>>

ImageStep(x, from, to) ==
  /\ writer[x] = from
  /\ writer' = [writer EXCEPT ![x] = to]
  /\ UNCHANGED <<upload, attempt, aged, sweep, swept>>

WriteOriginal(x) ==
  /\ ImageStep(x, "original", "mark")
  /\ original' = [original EXCEPT ![x] = TRUE]
  /\ UNCHANGED <<shown, row, unanswered>>

\* The logo, or a text when there is none or it cannot be read.
Watermark(x) ==
  /\ ImageStep(x, "mark", "copy")
  /\ UNCHANGED <<original, shown, row, unanswered>>

WriteCopy(x) ==
  /\ ImageStep(x, "copy", "row")
  /\ shown' = [shown EXCEPT ![x] = "there"]
  /\ UNCHANGED <<original, row, unanswered>>

CreateRow(x) ==
  /\ ImageStep(x, "row", "done")
  /\ row' = [row EXCEPT ![x] = TRUE]
  /\ UNCHANGED <<original, shown, unanswered>>

\* The disk, the watermark or the database, which may have created the row.
ImageFails(x) ==
  /\ \E step \in {"original", "mark", "copy", "row"} : ImageStep(x, step, "failed")
  /\ row' \in {row, [row EXCEPT ![x] = writer[x] = "row"]}
  /\ unanswered' = IF row' = row THEN unanswered ELSE unanswered \cup {x[1]}
  /\ UNCHANGED <<original, shown>>

\* Mutant of Complete: it waits for every image, and ignores failures.
CompleteAllSettled(j) ==
  /\ attempt[j] = "generating"
  /\ \A i \in Images : writer[<<j, i>>] \in {"done", "failed"}
  /\ attempt' = [attempt EXCEPT ![j] = "completed"]
  /\ UNCHANGED <<upload, writer, original, shown, aged, row, unanswered, sweep, swept>>

Complete(j) ==
  /\ attempt[j] = "generating"
  /\ \A i \in Images : writer[<<j, i>>] = "done"
  /\ attempt' = [attempt EXCEPT ![j] = "completed"]
  /\ UNCHANGED <<upload, writer, original, shown, aged, row, unanswered, sweep, swept>>

\* The provider, the first image that fails, or at the end the completing update
\* fails the job; the other images go on.
FailJob(j) ==
  LET done == \A i \in Images : writer[<<j, i>>] = "done"
  IN /\ \/ attempt[j] = "queued"
        \/ /\ attempt[j] = "generating"
           /\ done \/ \E i \in Images : writer[<<j, i>>] = "failed"
     /\ attempt' = [attempt EXCEPT ![j] = "failed"]
     /\ unanswered' = IF done THEN unanswered \cup {j} ELSE unanswered
     /\ UNCHANGED <<upload, writer, original, shown, aged, row, sweep, swept>>
-------------------------------------------------------------------------------
(* The script: list the copies, then delete each that is older than a day. *)

DayPasses(x) ==
  /\ shown[x] = "there"
  /\ aged' = aged \cup {x}
  /\ UNCHANGED <<upload, attempt, writer, original, shown, row, unanswered, sweep, swept>>

Walk ==
  /\ swept /\ sweep = {}
  /\ sweep' = {x \in AllImages : shown[x] = "there"}
  /\ UNCHANGED <<upload, attempt, writer, original, shown, aged, row, unanswered, swept>>

\* Its age, and the file if it is old; an error only leaves it.
Unlink(x) ==
  /\ x \in sweep
  /\ sweep' = sweep \ {x}
  /\ shown' \in {shown, [shown EXCEPT ![x] = IF x \in aged THEN "deleted" ELSE @]}
  /\ UNCHANGED <<upload, attempt, writer, original, aged, row, unanswered, swept>>

FilesNext ==
  \/ \E u \in Uploads :
       Refuse(u) \/ Store(u) \/ ValidateMagicBytes(u) \/ SanitizeImage(u) \/ UploadFails(u)
  \/ \E j \in Jobs : Generate(j) \/ Complete(j) \/ FailJob(j)
  \/ \E x \in AllImages : \/ WriteOriginal(x) \/ Watermark(x) \/ WriteCopy(x) \/ CreateRow(x)
                          \/ ImageFails(x) \/ DayPasses(x) \/ Unlink(x)
  \/ Walk

FilesSpec == FilesInit /\ [][FilesNext]_fileVars
-------------------------------------------------------------------------------
\* An upload answered with success is on the disk, of an allowed type, and
\* without metadata if it says it is a picture.
UploadsKept ==
  \A u \in Uploads : upload[u].step = "201" =>
    /\ upload[u].disk # "none" /\ isAllowedMime(upload[u].is)
    /\ upload[u].says \in Pictures => upload[u].disk = "clean"

\* A row names an original that stays and a copy that is there until it is a day old;
\* a completed job has the rows of all its images, and a job that failed lacks one
\* unless the database failed at the last moment.
ImagesWhole ==
  /\ \A x \in AllImages : row[x] =>
       /\ original[x]
       /\ shown[x] = "there" \/ (shown[x] = "deleted" /\ x \in aged)
  /\ \A j \in Jobs :
       /\ attempt[j] = "completed" => \A i \in Images : row[<<j, i>>]
       /\ attempt[j] = "failed" => j \in unanswered \/ \E i \in Images : ~row[<<j, i>>]

FilesMatchRows == UploadsKept /\ ImagesWhole
===================================================================================
