-------------------------- MODULE BatchDownloader --------------------------
(***************************************************************************)
(* downloader/src/main.rs and the song-rs crate under it: every track of a *)
(* CSV file is searched, the files found are ranked, and the candidates    *)
(* are downloaded one after another until one is Completed; then the row   *)
(* is marked in the CSV file, so that the next run goes on from there.     *)
(*                                                                         *)
(* The client of soulseek-rs is what its status channel tells.  A run may  *)
(* be killed at any step and started again.                                *)
(*                                                                         *)
(* An operator under "Mutant:" is no part of the model: it is the operator *)
(* after it with a plausible bug.                                          *)
(***************************************************************************)
EXTENDS MusicDisk, Sequences, SequencesExt

CONSTANTS
  Tracks,       \* the rows of the CSV file: a sequence of queries
  Replies,      \* what searches find: sequences of files, with the words of their
                \* stems (title, and artist or <<>>) and directories
  Wanted,       \* extensions of the WantedFileTypes
  MaxRetries,   \* --max-retries
  MaxStarts     \* bound: how often the program is started

ASSUME RetriesAssumption == MaxRetries \in Nat /\ MaxStarts \in Nat

VARIABLES
  step,       \* "Off", "Track", "Search", "Candidate", "Receiving" or "Saving"
  starts,     \* how often it was started
  row,        \* the track it is at
  retry,      \* searches made for it
  results,    \* ranked candidates
  attempt,    \* the candidate it is at
  writing,    \* the output file of the candidate was created
  marked,     \* rows whose is_downloaded is true in memory
  csv,        \* and in the file
  completed   \* rows for which Completed was received, in any run

downloaderVars == <<step, starts, row, retry, results, attempt, writing, marked, csv, completed>>

DownloaderInit ==
  /\ step = "Off" /\ starts = 0
  /\ row = 1 /\ retry = 0 /\ attempt = 1
  /\ results = <<>>
  /\ writing = FALSE
  /\ marked = {} /\ csv = {} /\ completed = {}

\* The process is gone, and what it had in memory.
DownloaderExits ==
  /\ step' = "Off"
  /\ row' = 1 /\ retry' = 0 /\ attempt' = 1
  /\ results' = <<>>
  /\ writing' = FALSE
  /\ marked' = {}

-----------------------------------------------------------------------------
(* song-rs: which files of a search are candidates, and in which order. *)

Least(a, b) == IF a < b THEN a ELSE b

\* levenshtein: d[i, j] is the distance of the first i and j letters.
Levenshtein(a, b) ==
  LET d[i \in 0 .. Len(a), j \in 0 .. Len(b)] ==
        IF i = 0 THEN j
        ELSE IF j = 0 THEN i
        ELSE IF a[i] = b[j] THEN d[i - 1, j - 1]
        ELSE 1 + Least(d[i - 1, j - 1], Least(d[i - 1, j], d[i, j - 1]))
  IN  d[Len(a), Len(b)]

\* In percent; a letter is one byte here.
Similarity(a, b) ==
  LET longest == IF Len(a) > Len(b) THEN Len(a) ELSE Len(b)
  IN  IF a = b THEN 100 ELSE 100 - (100 * Levenshtein(a, b)) \div longest

\* parse_soulseek_filename: a stem that is no "Artist - Title" has its artist from
\* the directories, the one above the file's own first.
ParsedArtist(f) ==
  IF f.artist # <<>> THEN f.artist
  ELSE IF Len(f.dirs) >= 2 THEN f.dirs[Len(f.dirs) - 1]
  ELSE IF f.dirs # <<>> THEN Last(f.dirs)
  ELSE <<>>

\* A file without a duration has 0 here.
DurationScore(wanted, has) ==
  LET diff == IF wanted > has THEN wanted - has ELSE has - wanted
  IN  IF has = 0 THEN 50
      ELSE IF diff <= 5 THEN 100
      ELSE IF diff >= 30 THEN 0
      ELSE 100 - 4 * (diff - 5)

ScoreFormatQuality(f) ==
  IF f.ext \in {"flac", "alac", "wav", "aiff", "aif"} THEN 100
  ELSE IF f.bitrate >= 320 THEN 85
  ELSE IF f.bitrate >= 256 THEN 70
  ELSE IF f.bitrate >= 192 THEN 55
  ELSE 35

\* compare_tracks, in hundredths of a percent.
CompareTracks(query, f) ==
  LET artist == ParsedArtist(f)
  IN    45 * Similarity(query.title, f.title)
      + 30 * (IF artist = <<>> THEN 50 ELSE Similarity(query.artist, artist))
      + 10 * DurationScore(query.duration, f.duration)
      + 15 * ScoreFormatQuality(f)

MinScoreThreshold == 5000

\* Candidates of a higher score come first, and of the same score in the order
\* they were found.
RankResults(query, files) ==
  LET kept == SelectSeq(files, LAMBDA f : /\ f.ext \in Wanted
                                          /\ CompareTracks(query, f) >= MinScoreThreshold)
      score == [i \in DOMAIN kept |-> CompareTracks(query, kept[i])]
      order == SetToSortSeq(DOMAIN kept, LAMBDA i, j : \/ score[i] > score[j]
                                                       \/ score[i] = score[j] /\ i < j)
  IN  [i \in DOMAIN order |-> kept[order[i]]]

-----------------------------------------------------------------------------
(* The program. *)

Query == Tracks[row]

\* The output file: the base name of the candidate, in the download directory.
Output == [dir |-> Downloads, name |-> <<results[attempt].base, results[attempt].ext>>]

\* From the CSV file; no tracks, no run.
Start ==
  /\ step = "Off" /\ starts < MaxStarts
  /\ Tracks # <<>>
  /\ starts' = starts + 1
  /\ step' = "Track" /\ row' = 1
  /\ marked' = csv
  /\ UNCHANGED <<disk, retry, results, attempt, writing, csv, completed>>

\* The next row; after the last one the program is done.
Track ==
  /\ step = "Track"
  /\ IF row > Len(Tracks) THEN DownloaderExits
     ELSE /\ IF row \in marked \/ MaxRetries = 0 THEN row' = row + 1 /\ UNCHANGED <<step, retry>>
             ELSE step' = "Search" /\ retry' = 0 /\ UNCHANGED row
          /\ UNCHANGED <<results, attempt, writing, marked>>
  /\ UNCHANGED <<disk, starts, csv, completed>>

\* Another search for the row, unless they are used up.
NextTry ==
  IF retry + 1 < MaxRetries
  THEN retry' = retry + 1 /\ step' = "Search" /\ UNCHANGED row
  ELSE row' = row + 1 /\ step' = "Track" /\ UNCHANGED retry

\* Client::search, or its error.
Search ==
  /\ step = "Search"
  /\ \/ \E files \in Replies :
          LET ranked == RankResults(Query, files)
          IN  /\ results' = ranked
              /\ IF ranked = <<>> THEN NextTry ELSE step' = "Candidate" /\ UNCHANGED <<row, retry>>
     \/ NextTry /\ results' = <<>>
  /\ attempt' = 1
  /\ UNCHANGED <<disk, starts, writing, marked, csv, completed>>

\* Client::download of the next candidate, or its error.
Candidate ==
  /\ step = "Candidate"
  /\ IF attempt > Len(results) THEN NextTry /\ UNCHANGED attempt
     ELSE \/ step' = "Receiving" /\ UNCHANGED <<attempt, row, retry>>
          \/ attempt' = attempt + 1 /\ UNCHANGED <<step, row, retry>>
  /\ writing' = FALSE
  /\ UNCHANGED <<disk, starts, results, marked, csv, completed>>

\* The transfer creates its output file; until then statuses are only displayed.
TransferWrites ==
  /\ step = "Receiving" /\ ~writing
  /\ writing' = TRUE
  /\ disk' = Put(Output, [of |-> results[attempt].of, whole |-> FALSE,
                          tags |-> "Own", backup |-> "No"])
  /\ UNCHANGED <<step, starts, row, retry, results, attempt, marked, csv, completed>>

\* Mutant: the CSV file itself is created and written, not a file beside it.
CsvWhileWriting == {}

\* write_tracks_csv writes <name>.csv.tmp first.
CsvBeforeRename == csv

\* Status Completed: the file is whole, or what there was when the peer closed.
Completed ==
  /\ step = "Receiving" /\ writing
  /\ \E whole \in BOOLEAN : disk' = Put(Output, [disk[Output] EXCEPT !.whole = whole])
  /\ completed' = completed \cup {row}
  /\ marked' = marked \cup {row}
  /\ step' = "Saving" /\ csv' = CsvBeforeRename
  /\ UNCHANGED <<starts, row, retry, results, attempt, writing>>

\* The rename, or an error: it is a warning, and a later row writes all of them.
SaveCsv ==
  /\ step = "Saving"
  /\ csv' \in {csv, marked}
  /\ step' = "Track" /\ row' = row + 1
  /\ UNCHANGED <<disk, starts, retry, results, attempt, writing, marked, completed>>

\* Status Failed: this search's other candidates are not tried.
Failed ==
  /\ step = "Receiving"
  /\ NextTry
  /\ UNCHANGED <<disk, starts, results, attempt, writing, marked, csv, completed>>

\* TimedOut, Cancelled or the end of the channel: the handle is dropped, which
\* cancels, and the next candidate is tried.
GivesUp ==
  /\ step = "Receiving"
  /\ step' = "Candidate" /\ attempt' = attempt + 1
  /\ UNCHANGED <<disk, starts, row, retry, results, writing, marked, csv, completed>>

Killed ==
  /\ step # "Off"
  /\ DownloaderExits
  /\ UNCHANGED <<disk, starts, csv, completed>>

Download == \/ Track \/ Search \/ Candidate \/ TransferWrites \/ Completed \/ SaveCsv
            \/ Failed \/ GivesUp

DownloaderNext == Start \/ Download \/ Killed

-----------------------------------------------------------------------------
\* downloader/src/main.rs:44, "rows already marked true are skipped so reruns
\* resume where they left off": a record of a completed row is never lost, to a
\* kill during the write or to a later row's write, and no download of such a row
\* is made again.
ResumesWhereItLeftOff ==
  [][/\ csv \subseteq csv' /\ csv' \subseteq completed'
     /\ step' = "Receiving" => row' \notin csv']_<<disk, downloaderVars>>

=============================================================================
