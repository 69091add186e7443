------------------------------ MODULE Transfer ------------------------------
(***************************************************************************)
(* peer/download_peer.rs: one file connection, from the spawned task to    *)
(* the DownloadCompleted it sends, and connect_f of connected_worker.rs    *)
(* around it.                                                              *)
(*                                                                         *)
(* download_direct knows its download; download_pierced is told which by   *)
(* the first bytes of the peer.  Time is counted in the one-second         *)
(* timeouts of the socket's reads.                                         *)
(*                                                                         *)
(* An operator under "Mutant:" is no part of the model: it is the operator *)
(* after it with a plausible bug.                                          *)
(***************************************************************************)
EXTENDS PeerSocket

CONSTANTS
  Size,              \* size of the file, as the search result gave it
  UpdateEvery,       \* PROGRESS_UPDATE_CHUNKS
  Stall,             \* STALL_TIMEOUT, in read timeouts
  ProgressTimeouts   \* values of Download::progress_timeout; 0 is None

ASSUME SizeAssumption    == Size \in Nat
ASSUME UpdateAssumption  == UpdateEvery \in Nat \ {0}
ASSUME TimeoutAssumption == Stall \in Nat \ {0} /\ ProgressTimeouts \subseteq Nat

VARIABLES
  phase,      \* "None", "Connecting", "Piercing", "Resolving", "Opening",
              \* "Reading", "Asking" or "Reported"
  pierced,    \* download_pierced, not download_direct
  limit,      \* the download's progress_timeout
  initiating, \* the download connect_f falls back on, or "Nobody"
  known,      \* the download the transfer is for: "Nobody" until it is resolved
  given,      \* units of the connection read before the transfer had it: they went
              \* with the listener's reader
  file,       \* units in the output file; -1 while this task did not create it
  chunks,     \* chunk_counter, modulo UpdateEvery
  quiet,      \* seconds since last_data_time, up to Stall
  stale,      \* seconds since last_update_time, up to limit
  cancelled,  \* the AtomicBool of the download
  after,      \* chunks written since it was set
  result,     \* "None", "Completed", "Failed", "TimedOut" or "Cancelled"
  told        \* the download whose DownloadCompleted was sent

transferVars == <<phase, pierced, limit, initiating, known, given, file, chunks, quiet,
                  stale, cancelled, after, result, told>>

TransferInit ==
  /\ phase = "None" /\ pierced = FALSE
  /\ limit = 0
  /\ initiating = "Nobody" /\ known = "Nobody"
  /\ given = 0 /\ file = -1
  /\ chunks = 0 /\ quiet = 0 /\ stale = 0
  /\ cancelled = FALSE /\ after = 0
  /\ result = "None" /\ told = "Nobody"

\* The download the connection is for, and another one of the same peer.
Downloads == {"Own", "Other"}

\* How far a clock goes on in a second; the bounds are where it is looked at.
Later(t, most) == IF t < most THEN t + 1 ELSE t

-----------------------------------------------------------------------------
(* How the task ends. *)

\* Mutant: the initiating token is not used.
ReportedResolved(answer) == answer

\* connect_f reports under the download its second query found, or else under the
\* one that was waiting for this peer when the operation was handled.
Reported(answer) == IF answer # "Nobody" THEN answer ELSE initiating

\* Before the peer's token is known a pierced transfer has no one to ask for.
Ends(res) ==
  /\ result' = res
  /\ IF pierced /\ res # "Completed" /\ phase \in {"Opening", "Reading"}
     THEN phase' = "Asking" /\ UNCHANGED told
     ELSE phase' = "Reported" /\ told' = Reported(known)

\* QueryDownloadByToken once more: the download may be gone by now.
AskAgain ==
  /\ phase = "Asking"
  /\ phase' = "Reported"
  /\ \E answer \in {known, "Nobody"} : told' = Reported(answer)
  /\ UNCHANGED <<socketVars, pierced, limit, initiating, known, given, file, chunks, quiet,
                 stale, cancelled, after, result>>

runVars  == <<pierced, initiating, given, cancelled>>
loopVars == <<limit, file, chunks, quiet, stale, after>>

-----------------------------------------------------------------------------
(* The way to the file's first byte. *)

\* spawn_direct_download: of the listener, with its stream but not what its reader
\* has read from it, or of the worker.
SpawnDirect(withStream) ==
  /\ phase = "None"
  /\ phase' = IF withStream THEN "Opening" ELSE "Connecting"
  /\ known' = "Own"
  /\ limit' \in ProgressTimeouts
  /\ given' = taken
  /\ UNCHANGED <<pierced, initiating, cancelled, file, chunks, quiet, stale, after, result,
                 told>>

\* connect_f, with find_initiating_token of the peer.
SpawnPierced ==
  /\ phase = "None"
  /\ phase' = "Connecting"
  /\ pierced' = TRUE
  /\ initiating' \in Downloads \cup {"Nobody"}
  /\ UNCHANGED <<cancelled, known, given, loopVars, result, told>>

\* establish_connection.
EstablishConnection ==
  /\ phase = "Connecting"
  /\ \/ /\ remote' = "Open"
        /\ phase' = IF pierced THEN "Piercing" ELSE "Opening"
        /\ UNCHANGED <<result, told>>
     \/ Ends("Failed") /\ UNCHANGED remote
  /\ UNCHANGED <<script, arrived, taken, extracted, runVars, loopVars, known>>

\* The handshake and the one read for the peer's token, which has a second and no
\* second try; fewer than its four bytes are an error.
ReadToken ==
  /\ phase = "Piercing"
  /\ \/ \E n \in Readable :
          /\ taken' = taken + n
          /\ IF n < 2 THEN Ends("Failed")
             ELSE phase' = "Resolving" /\ UNCHANGED <<result, told>>
     \/ Ends("Failed") /\ UNCHANGED taken
  /\ UNCHANGED <<script, arrived, extracted, remote, runVars, loopVars, known>>

\* The worker's answer.  TokenNotFound names the token: it is asked for again.
Resolve ==
  /\ phase = "Resolving"
  /\ \/ /\ known' = "Own" /\ limit' \in ProgressTimeouts
        /\ phase' = "Opening" /\ UNCHANGED result
     \/ phase' = "Asking" /\ result' = "Failed" /\ UNCHANGED <<known, limit>>
  /\ UNCHANGED <<socketVars, runVars, file, chunks, quiet, stale, after, told>>

\* The output file is created, which truncates one of the same name, and
\* START_DOWNLOAD written; what followed the token is the start of the file.
OpenOutput ==
  /\ phase = "Opening"
  /\ \/ /\ phase' = "Reading"
        /\ file' = IF pierced THEN taken - 2 ELSE 0
        /\ UNCHANGED <<result, told>>
     \/ Ends("Failed") /\ UNCHANGED file
  /\ UNCHANGED <<script, arrived, taken, extracted, remote, runVars, known, limit, chunks,
                 quiet, stale, after>>

-----------------------------------------------------------------------------
(* read_stream_with_offset. *)

Reading == phase = "Reading"

\* Mutant: one unit less than the size is enough.
EnoughButOne(n) == file + n + 1 >= Size

Enough(n) == file + n >= Size

\* Mutant: the flag is looked at only when the peer is silent.
FlagUnseen == FALSE

FlagSeen == cancelled

\* After a chunk: cancellation first, then progress, then the size; the disk may
\* fail at the write or at the last flush.
ReadChunk ==
  /\ Reading
  /\ \E n \in Readable :
       /\ taken' = taken + n
       /\ \/ /\ file' = file + n
             /\ chunks' = (chunks + 1) % UpdateEvery
             /\ quiet' = 0
             /\ after' = IF cancelled THEN after + 1 ELSE after
             /\ IF FlagSeen THEN Ends("Cancelled") /\ UNCHANGED stale
                ELSE /\ IF chunks' = 0 THEN stale' = 0
                        ELSE stale' \in {stale, Later(stale, limit)}
                     /\ IF Enough(n) THEN Ends("Completed") \/ Ends("Failed")
                        ELSE UNCHANGED <<phase, result, told>>
          \/ Ends("Failed") /\ UNCHANGED loopVars
  /\ UNCHANGED <<script, arrived, extracted, remote, runVars, known, limit>>

\* The peer closed: success, whatever the size.
ReadEnd ==
  /\ Reading
  /\ arrived = taken /\ remote = "Eof"
  /\ Ends("Completed") \/ Ends("Failed")
  /\ UNCHANGED <<socketVars, runVars, loopVars, known>>

\* Mutant: a silent peer is waited for.
StalledNever == FALSE

Stalled == quiet' >= Stall

\* A second without a byte.
ReadTimeout ==
  /\ Reading
  /\ arrived = taken /\ remote = "Open"
  /\ quiet' = Later(quiet, Stall) /\ stale' = Later(stale, limit)
  /\ IF cancelled THEN Ends("Cancelled")
     ELSE IF limit > 0 /\ stale' >= limit THEN Ends("TimedOut")
     ELSE IF Stalled THEN Ends("Failed")
     ELSE UNCHANGED <<phase, result, told>>
  /\ UNCHANGED <<socketVars, runVars, known, limit, file, chunks, after>>

ReadError ==
  /\ Reading
  /\ remote = "Reset"
  /\ Ends("Failed")
  /\ UNCHANGED <<socketVars, runVars, loopVars, known>>

\* DownloadHandle::cancel.
Cancel ==
  /\ phase # "None" /\ ~cancelled
  /\ cancelled' = TRUE
  /\ UNCHANGED <<socketVars, phase, pierced, initiating, known, given, loopVars, result, told>>

Work == \/ EstablishConnection \/ ReadToken \/ Resolve \/ OpenOutput
        \/ ReadChunk \/ ReadEnd \/ ReadTimeout \/ ReadError \/ AskAgain

TransferNext == Work \/ Cancel

\* The blocking task runs, and the worker answers it.
TransferFairness == WF_<<socketVars, transferVars>>(Work)

-----------------------------------------------------------------------------
TransferTypeOK ==
  /\ phase \in {"None", "Connecting", "Piercing", "Resolving", "Opening", "Reading",
                "Asking", "Reported"}
  /\ pierced \in BOOLEAN /\ cancelled \in BOOLEAN
  /\ limit \in ProgressTimeouts \cup {0}
  /\ {initiating, known, told} \subseteq Downloads \cup {"Nobody"}
  /\ given \in Nat
  /\ file \in Int /\ file >= -1
  /\ chunks \in 0 .. UpdateEvery - 1
  /\ quiet \in 0 .. Stall /\ stale \in 0 .. limit
  /\ after \in Nat
  /\ result \in {"None", "Completed", "Failed", "TimedOut", "Cancelled"}

\* Units of the script before the file.
Header == 2 * HeaderItems(script)

\* Units read before the first that goes to the file.
Skipped == IF script[1] \in InitItem THEN given ELSE Header

\* A transfer reported Completed has in its file what the peer sent as the file
\* and nothing else: as much as the expected size, or all there was when the peer
\* closed the connection.  On a connection that we made the file is there from its
\* first byte on, what came with the peer's token included; on one that the peer
\* made what the listener read before it gave the connection away is missing.
CompletedFile ==
  result = "Completed"
    => /\ Skipped >= Header /\ file = taken - Skipped
       /\ file >= Size \/ (remote = "Eof" /\ taken = arrived)

\* A transfer is reported to the download it was for.  The end of one nobody is
\* told of had no download waiting for the peer; and a success is never reported
\* to another download, as a failure may be.
ReportReachesItsDownload ==
  phase = "Reported"
    => /\ told = "Nobody" => initiating = "Nobody" /\ result # "Completed"
       /\ result = "Completed" => told = known
       /\ told # known => told = initiating /\ pierced

\* A cancelled transfer writes at most one more chunk, and is never reported as
\* complete after it.
CancelStopsWriting == after <= 1 /\ (after = 1 => result # "Completed")

\* Every transfer ends and is reported, whether the peer sends, stops or is silent.
TransferEnds == phase # "None" ~> phase = "Reported"

=============================================================================
