------------------------------ MODULE CvUpload ------------------------------
(***************************************************************************)
(* The upload of a CV to one application: the idempotency key, the file in *)
(* the document storage and the rows of cv_versions.  The file is stored   *)
(* before the transaction that names it and deleted when that transaction  *)
(* fails; no transaction spans the two.                                    *)
(*                                                                         *)
(* The effects of IdempotencyKeys are the rows of cv_versions, in the      *)
(* order of their versions.  The storage key of a file is a random UUID:   *)
(* here the number of the request that stored it.                          *)
(***************************************************************************)
EXTENDS IdempotencyKeys

VARIABLES
  status,  \* what upload looks at of the application: may it get a CV
  files,   \* the files in the storage
  upload   \* how far the action of each request has come

uploadVars == <<now, keys, requests, effects, status, files, upload>>

\* "open" stands for SHORTLISTED, "moved_on" for every other status and for a
\* removed application: upload refuses both in the same way.
ApplicationStatus == {"open", "moved_on"}
Step == {"none", "stored", "orphaned", "in_doubt"}

UploadTyped ==
  /\ KeysTyped
  /\ status \in ApplicationStatus
  /\ files \subseteq DOMAIN requests
  /\ upload \in [1 .. MaxRequests -> Step]

UploadInit ==
  /\ KeysInit
  /\ status = "open"
  /\ files = {}
  /\ upload = [r \in 1 .. MaxRequests |-> "none"]

-----------------------------------------------------------------------------
Tick == ClockTicks /\ UNCHANGED <<status, files, upload>>

\* An interview, a withdrawal or a removal takes the application on; a revoked
\* or expired interview gives it back.
ApplicationChanges(next) ==
  /\ next # status
  /\ status' = next
  /\ UNCHANGED <<keyVars, files, upload>>

\* upload: the status is read before the key is, also for a repeated request,
\* which is refused once the application has moved on.  Files that are no PDF,
\* too large or absent are refused before anything is read.
Upload(k, payload) ==
  /\ status = "open"
  /\ Receive(k, payload)
  /\ UNCHANGED <<status, files, upload>>

\* executeUpload puts the file first, outside of the transaction.
StoreFile(r) ==
  /\ At(r, "acting") /\ upload[r] = "none"
  /\ files' = files \cup {r}
  /\ upload' = [upload EXCEPT ![r] = "stored"]
  /\ UNCHANGED <<keyVars, status>>

\* An error of the storage: it may have stored the file, or a part of it, and
\* nobody deletes it.
StoreFileFails(r) ==
  /\ upload[r] = "none"
  /\ Throws(r)
  /\ \/ UNCHANGED <<files, upload>>
     \/ files' = files \cup {r} /\ upload' = [upload EXCEPT ![r] = "orphaned"]
  /\ UNCHANGED status

\* Faulty variant: the transaction does not wait for the file.
FaultyInsertCv(r) ==
  /\ upload[r] = "none"
  /\ status = "open"
  /\ Commits(r)
  /\ UNCHANGED <<status, files, upload>>

\* The transaction locks the application, reads it again, gives the CV the next
\* version and makes it the current one.
InsertCv(r) ==
  /\ upload[r] = "stored"
  /\ status = "open"
  /\ Commits(r)
  /\ upload' = [upload EXCEPT ![r] = "none"]
  /\ UNCHANGED <<status, files>>

\* The application has moved on, or a statement of the transaction fails: the
\* orphan is deleted and the error goes on.  The deletion may fail, or the
\* process die before it: delete swallows the errors of both storages.
RollBack(r) ==
  /\ upload[r] = "stored"
  /\ Throws(r)
  /\ \/ files' = files \ {r} /\ upload' = [upload EXCEPT ![r] = "none"]
     \/ UNCHANGED files /\ upload' = [upload EXCEPT ![r] = "orphaned"]
  /\ UNCHANGED status

\* The commit is done and its answer lost: the code sees an error like the one
\* before, and deletes the file.
CommitUnanswered(r) ==
  /\ At(r, "acting") /\ upload[r] = "stored"
  /\ status = "open"
  /\ effects' = Append(effects, r)
  /\ Fails(r)
  /\ upload' = [upload EXCEPT ![r] = "in_doubt"]
  /\ files' \in {files, files \ {r}}
  /\ UNCHANGED status

\* What a request does by itself, or what happens to it.
Works(r) ==
  \/ KeyStep(r) /\ UNCHANGED <<status, files, upload>>
  \/ StoreFile(r) \/ StoreFileFails(r) \/ InsertCv(r) \/ RollBack(r)
  \/ CommitUnanswered(r)

Crash(r) == Dies(r) /\ UNCHANGED <<status, files, upload>>

UploadNext ==
  \/ Tick
  \/ \E next \in ApplicationStatus : ApplicationChanges(next)
  \/ \E k \in Keys, p \in Payloads : Upload(k, p)
  \/ \E r \in 1 .. MaxRequests : Works(r) \/ Crash(r)

UploadSpec == UploadInit /\ [][UploadNext]_uploadVars

-----------------------------------------------------------------------------
(* Properties.                                                             *)

\* Files and rows agree, whatever fails or dies in between: a CV has its file
\* unless its commit was in doubt, a client that was told "created", or was told
\* so again, finds the file, and a file without a CV belongs to a request still
\* at work or dead, or to an error the storage has swallowed (README.md:175: the
\* orphan of a failed transaction is cleaned up).
FilesAndRowsAgree ==
  /\ UploadTyped
  /\ \A c \in DOMAIN effects :
       effects[c] \in files \/ upload[effects[c]] = "in_doubt"
  /\ \A r \in DOMAIN requests :
       /\ requests[r].answer = "created" => r \in files
       /\ r \in files /\ (\A c \in DOMAIN effects : effects[c] # r) =>
            requests[r].answer \in {"none", "died"} \/ upload[r] = "orphaned"
=============================================================================
