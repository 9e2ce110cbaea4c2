------------------------------ MODULE Uploads ------------------------------
(***************************************************************************)
(* How a binary gets into the tournament: the upload page of the web site  *)
(* (web/Pages/Upload.razor.cs) writes a file and puts it into the          *)
(* directory of binaries under the hash of its content, and the sanity     *)
(* checks of the engine (framework/SanityCheckRunner.cs) play a game of    *)
(* every binary in the table against itself.                               *)
(*                                                                         *)
(* Pages, checks and engine are separate processes over one directory and  *)
(* one table, without transactions.  A hash stands for its content.        *)
(*                                                                         *)
(* InvertedLook, UngrantedMove and FatalPlayThrows are not part of the     *)
(* specification: each is the action below it with a plausible mistake,    *)
(* for the checks that show that a property notices.                       *)
(***************************************************************************)
EXTENDS Integers, Sequences, FiniteSets

CONSTANTS
    Pages,          \* circuits of the web site
    Contents,
    Good,           \* contents whose AI captures enough stars
    Null,
    MaxRows,        \* bound: uploads that reach the table
    MaxMishaps     \* bound: failed calls and crashes

VARIABLES
    page,       \* where RealUpload is in each circuit, with what, and message
    temp,       \* the latest file of each page under a random name
    dir,        \* files under their hash: may they be executed?
    rows,       \* Binaries; upload_time is taken to follow the ids
    queue,      \* SanityCheckRunner.tasks: the rows still to be judged
    check,      \* where SanityCheckRunner is, and the game it played
    early,      \* history: rows whose game could not run their file
    mishaps

uploadVars == << page, temp, dir, rows, queue, check, early, mishaps >>

Absent == "absent"
Idle == [at |-> "idle", file |-> Null, moved |-> FALSE, says |-> ""]
Waiting == [at |-> "down", success |-> FALSE]

UploadInit ==
    /\ page = [p \in Pages |-> Idle]
    /\ temp = [p \in Pages |-> Null]
    /\ dir = [c \in Contents |-> Absent]
    /\ rows = << >>
    /\ queue = {}
    /\ check = Waiting
    /\ early = {}
    /\ mishaps = 0

MayMiss == mishaps < MaxMishaps /\ mishaps' = mishaps + 1

checker == << queue, check, early >>

-----------------------------------------------------------------------------
(* RealUpload and CommitFile in circuit p                                  *)

Goes(p, from, to) ==
    /\ page[p].at = from
    /\ page' = [page EXCEPT ![p].at = to]

(* RealUpload returns with an error; or an exception leaves it, the        *)
(* circuit is lost and the user opens the page again.                      *)
Fails(p) == page' = [page EXCEPT ![p] = [Idle EXCEPT !.says = "error"]]

(* The token is unknown, or no file was chosen.                            *)
Refuse(p) ==
    /\ page[p].at = "idle"
    /\ Fails(p)
    /\ UNCHANGED << temp, dir, rows, checker, mishaps >>

(* A file is chosen and the token known; uploading keeps a second call out.*)
Begin(p, c) ==
    /\ page[p].at = "idle"
    /\ Len(rows) + Cardinality({q \in Pages : page[q].at # "idle"}) < MaxRows
    /\ page' = [page EXCEPT ![p] = [Idle EXCEPT !.at = "writing",
                                                      !.file = c]]
    /\ temp' = [temp EXCEPT ![p] = "partial"]
    /\ UNCHANGED << dir, rows, checker, mishaps >>

(* The browser stops sending, or has sent MAX_FILE_SIZE bytes: the file is *)
(* deleted in the finally clause.                                          *)
LosePage(p) ==
    /\ page[p].at = "writing"
    /\ Fails(p)
    /\ temp' = [temp EXCEPT ![p] = Null]
    /\ UNCHANGED << dir, rows, checker, mishaps >>

(* The file is closed, from here on nobody deletes it after an exception;  *)
(* and its hash is computed.                                               *)
Written(p) ==
    /\ Goes(p, "writing", "looking")
    /\ temp' = [temp EXCEPT ![p] = page[p].file]
    /\ UNCHANGED << dir, rows, checker, mishaps >>

InvertedLook(p) ==
    /\ page[p].at = "looking"
    /\ page' = [page EXCEPT ![p].at =
                  IF dir[page[p].file] = Absent THEN "deleting" ELSE "moving"]
    /\ UNCHANGED << temp, dir, rows, checker, mishaps >>

(* File.Exists(targetPath)                                                 *)
Look(p) ==
    /\ page[p].at = "looking"
    /\ page' = [page EXCEPT ![p].at =
                  IF dir[page[p].file] = Absent THEN "moving" ELSE "deleting"]
    /\ UNCHANGED << temp, dir, rows, checker, mishaps >>

Delete(p) ==
    /\ Goes(p, "deleting", "inserting")
    /\ temp' = [temp EXCEPT ![p] = Null]
    /\ UNCHANGED << dir, rows, checker, mishaps >>

UngrantedMove(p) ==
    /\ page[p].at = "moving"
    /\ \/ /\ dir[page[p].file] = Absent
          /\ dir' = [dir EXCEPT ![page[p].file] = "readable"]
          /\ temp' = [temp EXCEPT ![p] = Null]
          /\ page' = [page EXCEPT ![p].at = "inserting", ![p].moved = TRUE]
       \/ /\ dir[page[p].file] # Absent
          /\ Fails(p)
          /\ UNCHANGED << dir, temp >>
    /\ UNCHANGED << rows, checker, mishaps >>

(* File.Move throws if the target came to be since File.Exists.            *)
Move(p) ==
    /\ page[p].at = "moving"
    /\ \/ /\ dir[page[p].file] = Absent
          /\ dir' = [dir EXCEPT ![page[p].file] = "readable"]
          /\ temp' = [temp EXCEPT ![p] = Null]
          /\ page' = [page EXCEPT ![p].at = "granting", ![p].moved = TRUE]
       \/ /\ dir[page[p].file] # Absent
          /\ Fails(p)
          /\ UNCHANGED << dir, temp >>
    /\ UNCHANGED << rows, checker, mishaps >>

(* FileAccessPermissions                                                   *)
Grant(p) ==
    /\ Goes(p, "granting", "inserting")
    /\ dir' = [dir EXCEPT ![page[p].file] = "executable"]
    /\ UNCHANGED << temp, rows, checker, mishaps >>

(* moved: was it this upload that put the file in place?                   *)
Row(p) == [file |-> page[p].file, verdict |-> Null, moved |-> page[p].moved]

Insert(p) ==
    /\ Goes(p, "inserting", "reading")
    /\ rows' = Append(rows, Row(p))
    /\ UNCHANGED << temp, dir, checker, mishaps >>

(* DoCheckCurrent, whose message is replaced by "Upload succeeded."        *)
Succeed(p) ==
    /\ page[p].at = "reading"
    /\ page' = [page EXCEPT ![p].at = "idle", ![p].says = "succeeded"]
    /\ UNCHANGED << temp, dir, rows, checker, mishaps >>

(* A call of the database or the file system throws, perhaps after it took *)
(* effect.                                                                 *)
UploadFails(p) ==
    /\ \/ /\ page[p].at \in {"looking", "moving", "deleting", "granting",
                              "reading"}
          /\ UNCHANGED rows
       \/ /\ page[p].at = "inserting"
          /\ rows' \in {rows, Append(rows, Row(p))}
    /\ Fails(p)
    /\ MayMiss
    /\ UNCHANGED << temp, dir, checker >>

(* The web server dies with all circuits.                                  *)
WebCrash ==
    /\ \E p \in Pages : page[p].at # "idle"
    /\ page' = [p \in Pages |-> Idle]
    /\ MayMiss
    /\ UNCHANGED << temp, dir, rows, checker >>

-----------------------------------------------------------------------------
(* SanityCheckRunner.Run, in the retry loop of Program.RunSanityCheck      *)

uploads == << page, temp, dir >>

Connect ==
    /\ check.at = "down"
    /\ check' = [check EXCEPT !.at = "asking"]
    /\ UNCHANGED << uploads, rows, queue, early, mishaps >>

Unvalidated == {n \in DOMAIN rows : rows[n].verdict = Null}

Ask ==
    /\ check.at = "asking"
    /\ Unvalidated # {}
    /\ queue' = Unvalidated
    /\ check' = [check EXCEPT !.at = "playing"]
    /\ UNCHANGED << uploads, rows, early, mishaps >>

(* The tasks are in the order of upload_time.                              *)
IsFirst(n) == \A m \in queue : n <= m

(* sim.Launch: the binary plays against itself.  What cannot be executed   *)
(* fails like any AI that exits, and captures nothing.                     *)
Play ==
    /\ check.at = "playing"
    /\ \E n \in queue :
         /\ IsFirst(n)
         /\ LET c == rows[n].file
            IN  /\ check' = [at |-> "saving",
                             success |-> dir[c] = "executable" /\ c \in Good]
                /\ early' = IF dir[c] = "executable" THEN early
                            ELSE early \cup {n}
    /\ UNCHANGED << uploads, rows, queue, mishaps >>

FatalPlayThrows ==
    /\ check.at = "playing"
    /\ check' = [Waiting EXCEPT !.at = "ended"]
    /\ queue' = {}
    /\ UNCHANGED << uploads, rows, early, mishaps >>

(* Launch throws (the galaxy of this seed did, or its record cannot be     *)
(* written): the pass is over, and the next one starts at the same row.    *)
PlayThrows ==
    /\ check.at = "playing"
    /\ check' = Waiting
    /\ queue' = {}
    /\ UNCHANGED << uploads, rows, early, mishaps >>

SaveVerdict(n) ==
    /\ n \in queue /\ IsFirst(n)
    /\ rows' = [rows EXCEPT ![n].verdict = IF check.success THEN "passed"
                                                            ELSE "failed"]

Save ==
    /\ check.at = "saving"
    /\ \E n \in queue : SaveVerdict(n) /\ queue' = queue \ {n}
    /\ check' = [check EXCEPT !.at = IF queue' = {} THEN "asking" ELSE "playing"]
    /\ UNCHANGED << uploads, early, mishaps >>

(* The database fails the checks, perhaps after it did as it was told, or  *)
(* the engine dies.                                                        *)
CheckFails ==
    /\ check.at # "down"
    /\ \/ UNCHANGED rows
       \/ check.at = "saving" /\ \E n \in queue : SaveVerdict(n)
    /\ check' = Waiting
    /\ queue' = {}
    /\ MayMiss
    /\ UNCHANGED << uploads, early >>

-----------------------------------------------------------------------------

Upload(p) ==
    \/ \E c \in Contents : Begin(p, c)
    \/ Refuse(p) \/ LosePage(p) \/ Written(p) \/ Look(p) \/ Delete(p)
    \/ Move(p) \/ Grant(p) \/ Insert(p) \/ Succeed(p) \/ UploadFails(p)

UploadNext ==
    \/ \E p \in Pages : Upload(p)
    \/ WebCrash
    \/ Connect \/ Ask \/ Play \/ PlayThrows \/ Save \/ CheckFails

(* What the checks do when no exception comes in between.                  *)
Proceed == Connect \/ Ask \/ Save

(* The checks go on after any exception; and a launch that can succeed is  *)
(* not answered by an exception for ever, since every launch draws a map   *)
(* of its own (random.Next()).  Nothing is assumed of the users.           *)
UploadFairness == WF_uploadVars(Proceed) /\ SF_uploadVars(Play)

UploadSpec == UploadInit /\ [][UploadNext]_uploadVars /\ UploadFairness

-----------------------------------------------------------------------------
(* Properties                                                              *)

States == {"idle", "writing", "looking", "moving", "deleting", "granting",
           "inserting", "reading"}

PageType == [at : States, file : Contents \cup {Null}, moved : BOOLEAN,
             says : {"", "error", "succeeded"}]
BinaryType == [file : Contents, moved : BOOLEAN, verdict : {Null, "passed", "failed"}]
CheckType == [at : {"down", "asking", "playing", "saving"}, success : BOOLEAN]

UploadTypes ==
    /\ page \in [Pages -> PageType]
    /\ temp \in [Pages -> Contents \cup {Null, "partial"}]
    /\ dir \in [Contents -> {Absent, "readable", "executable"}]
    /\ rows \in Seq(BinaryType)
    /\ queue \subseteq DOMAIN rows /\ early \subseteq DOMAIN rows
    /\ check \in CheckType
    /\ mishaps \in Nat

(* What is known at each point of an upload.                               *)
PageInStep(p) ==
    LET at == page[p].at
        file == page[p].file
    IN  /\ at # "idle" => file \in Contents
        /\ at \in {"looking", "moving", "deleting"} => temp[p] = file
        /\ at \in {"granting", "inserting", "reading"} => temp[p] = Null
        /\ at \in {"deleting", "granting", "inserting", "reading"} =>
             dir[file] # Absent
        /\ at \in {"writing", "looking", "moving", "deleting"} => ~page[p].moved
        /\ at = "inserting" /\ page[p].moved => dir[file] = "executable"
        /\ (at = "reading" \/ page[p].says = "succeeded") =>
             \E n \in DOMAIN rows : rows[n].file = file
        /\ at # "idle" => page[p].says = ""
        /\ (at = "idle" /\ temp[p] # Null /\ mishaps = 0) =>
             temp[p] \in Contents /\ dir[temp[p]] # Absent

(* What is known of the rows, and of the one the checks are at.            *)
RowsInStep ==
    /\ \A n \in DOMAIN rows : /\ dir[rows[n].file] # Absent
                              /\ rows[n].moved => dir[rows[n].file] = "executable"
    /\ \A n \in queue : rows[n].verdict = Null
    /\ check.at = "saving" => \A n \in queue : IsFirst(n) =>
         \/ check.success <=> (rows[n].file \in Good)
         \/ n \in early

(* A team that was told of a success has its binary in the table.          *)
Acknowledged ==
    \A p \in Pages : page[p].says = "succeeded" =>
        \E n \in DOMAIN rows : rows[n].file = page[p].file

(* What a team was told of its upload is true, whatever the uploads of the *)
(* same file, failures and crashes in between: its binary is in the table, *)
(* every binary in the table is whole and in its place for good, and no    *)
(* upload whose file was left behind went unanswered without a failure but *)
(* that which lost a race for the same content (Upload.razor.cs:99-124).   *)
UploadsAreKept ==
    /\ UploadTypes
    /\ \A p \in Pages : PageInStep(p)
    /\ RowsInStep
    /\ Acknowledged

(* A binary is judged by what it does, but for one hazard: an upload that  *)
(* finds its file in place may be judged, for good, before the upload that *)
(* put it there has made it executable, or after that one failed to        *)
(* (Upload.razor.cs:107-114, SanityCheckRunner.cs:44-45).                  *)
JudgedFairly ==
    /\ \A n \in DOMAIN rows : rows[n].verdict # Null =>
          \/ (rows[n].verdict = "passed") <=> (rows[n].file \in Good)
          \/ n \in early /\ ~rows[n].moved
    /\ \A n \in early : ~rows[n].moved
    /\ \A c \in Contents : dir[c] = "readable" =>
          \/ \E p \in Pages : page[p].at = "granting" /\ page[p].file = c
          \/ mishaps > 0

(* A verdict is given once: no pass of the checks judges again what an     *)
(* earlier pass, perhaps cut off behind its update, has judged.            *)
JudgedOnce ==
    [][\A n \in DOMAIN rows :
          rows[n].verdict # Null => rows'[n] = rows[n]]_uploadVars

(* The pass knows the rows it has yet to judge, and every verdict is fair, *)
(* and final (SanityCheckRunner.cs:17-53).                                 *)
VerdictsAreFair == [](RowsInStep /\ JudgedFairly) /\ JudgedOnce

(* The inductive invariant (UploadsProofs).                                *)
UploadsInStep ==
    /\ UploadTypes
    /\ (\A p \in Pages : PageInStep(p)) /\ RowsInStep
    /\ JudgedFairly

-----------------------------------------------------------------------------

(* Every binary in the table is judged, although the one at the head of    *)
(* the queue holds up all others while its games end in exceptions         *)
(* (SanityCheckRunner.cs:32-55).                                           *)
RowsAreJudged ==
    \A n \in 1 .. MaxRows :
        Len(rows) >= n ~> (Len(rows) >= n /\ rows[n].verdict # Null)
=============================================================================
