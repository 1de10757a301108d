------------------------------- MODULE Upload -------------------------------
(* ftp-upload.cpp and the read callback of easy_handle it uploads with: the  *)
(* file is sent as temporary.bin, chunk by chunk, and renamed on the server  *)
(* by the postquote commands once all of it has arrived.  The program may be *)
(* run again and again, killed at any point, and the file edited meanwhile.  *)
EXTENDS Integers, Sequences

CONSTANTS
  Byte,     \* values of a byte
  Versions, \* contents of the local file, each a sequence of bytes
  Chunk,    \* bytes libcurl asks the read callback for, at most
  Missing,  \* there is no such file
  Runs      \* bound: runs of the program

ASSUME UploadAssumption ==
  /\ Chunk \in Nat \ {0} /\ Runs \in Nat
  /\ Versions \subseteq Seq(Byte) /\ Missing \notin Versions

VARIABLES
  local,     \* the file on disk
  temporary, \* temporary.bin on the server
  final,     \* the file of that name on the server
  before,    \* what final was when this run began (history)
  at,        \* "idle", "loaded", "sending", "sent", "renaming", "ended", "over"
  filedata,  \* what load_file returned
  content,   \* what the reader has yet to copy
  ok,        \* curl_easy_perform's result is CURLE_OK
  status,    \* exit status of the last run, or "terminated"
  runs

fileVars == <<local, temporary, final, before>>
programVars == <<at, filedata, content, ok, status, runs>>
uploadVars == <<fileVars, programVars>>

UploadInit ==
  /\ local \in Versions \cup {Missing}
  /\ temporary = Missing /\ final = Missing /\ before = Missing
  /\ at = "idle"
  /\ filedata = <<>> /\ content = <<>>
  /\ ok = FALSE /\ status = "none" /\ runs = 0

----------------------------------------------------------------------------
(* Plausible bugs, used by no specification (see Scheduler).                 *)
any_code_is_success(ok_code) == TRUE
renamed_early == at = "sending" /\ Len(temporary) + 1 >= Len(filedata)

(* The file is written by somebody else between runs.                        *)
Edit ==
  /\ at \in {"idle", "over"}
  /\ local' \in Versions \cup {Missing}
  /\ UNCHANGED <<temporary, final, before, programVars>>

(* main() awaits nothing: upload() calls load_file(), whose exception for a  *)
(* missing file leaves upload() and main().                                  *)
LoadFile ==
  /\ at \in {"idle", "over"} /\ runs < Runs
  /\ runs' = runs + 1
  /\ before' = final
  /\ IF local = Missing
       THEN /\ at' = "over" /\ status' = "terminated"
            /\ UNCHANGED <<filedata, content>>
       ELSE /\ at' = "loaded" /\ status' = "none"
            /\ filedata' = local /\ content' = local
  /\ ok' = FALSE
  /\ UNCHANGED <<local, temporary, final>>

(* STOR temporary.bin: the server empties what an earlier run left there.    *)
StartTransfer ==
  /\ at = "loaded"
  /\ at' = "sending" /\ temporary' = <<>>
  /\ UNCHANGED <<local, final, before, filedata, content, ok, status, runs>>

(* content.subspan(common_length)                                            *)
rest_of(s, n) == SubSeq(s, n + 1, Len(s))

(* libcurl asks for size bytes; the reader copies what it has of them.       *)
read_callback(size) ==
  LET common_length == IF size < Len(content) THEN size ELSE Len(content) IN
  /\ at = "sending" /\ Len(temporary) < Len(filedata)
  /\ temporary' = temporary \o SubSeq(content, 1, common_length)
  /\ content' = rest_of(content, common_length)
  /\ UNCHANGED <<local, final, before, at, filedata, ok, status, runs>>

(* infile_size(): the upload is complete when that many bytes are sent.      *)
all_sent == at = "sending" /\ Len(temporary) = Len(filedata)

Sent ==
  /\ all_sent
  /\ at' = "sent"
  /\ UNCHANGED <<fileVars, filedata, content, ok, status, runs>>

(* RNFR temporary.bin, then RNTO name.  A server command may fail, and the   *)
(* last reply may be lost when the server has done what it was asked.        *)
RenameFrom ==
  /\ at = "sent"
  /\ at' = "renaming"
  /\ UNCHANGED <<fileVars, filedata, content, ok, status, runs>>

RenameTo ==
  /\ at = "renaming"
  /\ final' = temporary /\ temporary' = Missing
  /\ at' = "ended"
  /\ ok' \in BOOLEAN
  /\ UNCHANGED <<local, before, filedata, content, status, runs>>

(* The transfer fails: no connection or login, so that STOR is never sent, a *)
(* cut upload, or a command that is refused.                                 *)
Fails ==
  /\ at \in {"loaded", "sending", "sent", "renaming"}
  /\ at' = "ended"
  /\ ok' = FALSE
  /\ UNCHANGED <<fileVars, filedata, content, status, runs>>

(* result::operator bool() of the transfer's code.                           *)
bool_result(ok_code) == ok_code

(* co_return bool(r), and main() turns it into the exit status.              *)
Exit ==
  /\ at = "ended"
  /\ at' = "over"
  /\ status' = IF bool_result(ok) THEN "success" ELSE "failure"
  /\ UNCHANGED <<fileVars, filedata, content, ok, runs>>

(* The process is killed, or its machine stops.                              *)
Crash ==
  /\ at \notin {"idle", "over"}
  /\ at' = "over"
  /\ status' = "terminated"
  /\ UNCHANGED <<fileVars, filedata, content, ok, runs>>

UploadNext ==
  \/ Edit \/ LoadFile \/ StartTransfer
  \/ \E size \in 1..Chunk : read_callback(size)
  \/ Sent \/ RenameFrom \/ RenameTo \/ Fails \/ Exit \/ Crash

UploadSpec == UploadInit /\ [][UploadNext]_uploadVars
----------------------------------------------------------------------------
(* Whatever is killed or fails at any point, the file on the server is never *)
(* a part of an upload or a mixture: it is what it was before this run, or   *)
(* the whole file this run has read.                                         *)
NeverPartial == at # "idle" => final \in {before, filedata}

(* Exit status 0 means that the server has the file as this run read it.     *)
SuccessMeansUploaded == status = "success" => final = filedata
=============================================================================
