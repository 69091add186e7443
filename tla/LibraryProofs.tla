--------------------------- MODULE LibraryProofs ---------------------------
(***************************************************************************)
(* Proofs about Library, for every set of tracks, replies, command lines   *)
(* and names, and any number of starts and runs.                           *)
(***************************************************************************)
EXTENDS Library, TLAPS

\* Files are records of the four fields, and what is in the tag and the backup goes
\* together: no stamp, no MusicBrainz; and the backup is of the original.
DiskSound ==
  \A p \in DOMAIN disk :
    /\ DOMAIN disk[p] = {"of", "whole", "tags", "backup"}
    /\ disk[p].whole \in BOOLEAN
    /\ disk[p].backup \in {"No", "Own"}
    /\ disk[p].backup = "No" => disk[p].tags = "Own"

\* What music-cleaner remembers of the file it is at.
FileKnown ==
  /\ already \in BOOLEAN
  /\ stage \in {"Lookup", "Unknown", "Tag", "Place", "Copy"} => file \in DOMAIN disk
  /\ stage \in {"Lookup", "Tag"} => (already <=> disk[file].backup # "No")
  /\ stage = "Copy" => /\ target \in DOMAIN disk
                       /\ target = file \/ ~disk[target].whole

\* What the downloader writes exists, and the programs take turns.
OutputKnown == step = "Receiving" /\ writing => Output \in DOMAIN disk

TurnsTaken == step = "Off" \/ stage = "Off"

DiskInv == DiskSound /\ FileKnown /\ OutputKnown /\ TurnsTaken

-----------------------------------------------------------------------------
(* Replacing and renaming files. *)

\* A file that is put on the disk is there, and the others are as they were.
LEMMA PutFile ==
  ASSUME NEW p, NEW c, disk' = Put(p, c)
  PROVE  /\ DOMAIN disk' = DOMAIN disk \cup {p}
         /\ disk'[p] = c
         /\ \A q \in DOMAIN disk \ {p} : disk'[q] = disk[q]
BY DEF Put

\* A renamed file is under its new name alone, and the others are as they were.
LEMMA RenameFile ==
  ASSUME NEW p \in DOMAIN disk, NEW to, disk' = Renamed(p, to)
  PROVE  /\ DOMAIN disk' = (DOMAIN disk \ {p}) \cup {to}
         /\ disk'[to] = disk[p]
         /\ \A q \in DOMAIN disk \ {p, to} : disk'[q] = disk[q]
BY DEF Renamed

\* A torn file is the same file but for its end.
LEMMA TornFile ==
  ASSUME NEW c, DOMAIN c = {"of", "whole", "tags", "backup"}
  PROVE  /\ DOMAIN Torn(c) = DOMAIN c
         /\ Torn(c).whole = FALSE
         /\ Torn(c).tags = c.tags /\ Torn(c).backup = c.backup /\ Torn(c).of = c.of
BY DEF Torn

FileSound(c) ==
  /\ DOMAIN c = {"of", "whole", "tags", "backup"}
  /\ c.whole \in BOOLEAN
  /\ c.backup \in {"No", "Own"}
  /\ c.backup = "No" => c.tags = "Own"

\* The disk stays sound when a sound file is put on it or one is renamed.
LEMMA PutSound ==
  ASSUME NEW p, NEW c, DiskSound, FileSound(c), disk' = Put(p, c)
  PROVE  DiskSound'
<1>1. SUFFICES ASSUME NEW q \in DOMAIN disk' PROVE FileSound(disk'[q])
  BY DEF DiskSound, FileSound
<1>2. /\ DOMAIN disk' = DOMAIN disk \cup {p} /\ disk'[p] = c
      /\ \A x \in DOMAIN disk \ {p} : disk'[x] = disk[x]
  BY PutFile
<1>3. CASE q = p
  BY <1>2, <1>3
<1>4. CASE q # p
  <2>1. q \in DOMAIN disk \ {p} /\ disk'[q] = disk[q]
    BY <1>1, <1>2, <1>4
  <2>2. QED BY <2>1 DEF DiskSound, FileSound
<1>5. QED BY <1>3, <1>4

LEMMA RenameSound ==
  ASSUME NEW p \in DOMAIN disk, NEW to, DiskSound, disk' = Renamed(p, to)
  PROVE  DiskSound'
<1>1. SUFFICES ASSUME NEW q \in DOMAIN disk' PROVE FileSound(disk'[q])
  BY DEF DiskSound, FileSound
<1>2. /\ DOMAIN disk' = (DOMAIN disk \ {p}) \cup {to} /\ disk'[to] = disk[p]
      /\ \A x \in DOMAIN disk \ {p, to} : disk'[x] = disk[x]
  BY RenameFile
<1>3. CASE q = to
  BY <1>2, <1>3 DEF DiskSound, FileSound
<1>4. CASE q # to
  <2>1. q \in DOMAIN disk \ {p, to} /\ disk'[q] = disk[q]
    BY <1>1, <1>2, <1>4
  <2>2. QED BY <2>1 DEF DiskSound, FileSound
<1>5. QED BY <1>3, <1>4

LEMMA TornSound ==
  ASSUME NEW c, FileSound(c)
  PROVE  FileSound(Torn(c))
BY TornFile DEF FileSound

-----------------------------------------------------------------------------
(* The downloader's steps. *)

LEMMA InitDisk == Init => DiskInv
BY DEF Init, DownloaderInit, CleanerInit, DiskInv, DiskSound, FileKnown, OutputKnown, TurnsTaken

\* Its steps that leave the files alone.
LEMMA QuietDownloader ==
  ASSUME DiskInv, stage = "Off", UNCHANGED <<disk, cleanerVars>>,
         ~(step' = "Receiving" /\ writing')
  PROVE  DiskInv'
BY DEF DiskInv, DiskSound, FileKnown, OutputKnown, TurnsTaken, cleanerVars

LEMMA DownloaderDisk == DiskInv /\ Downloading => DiskInv'
<1>1. SUFFICES ASSUME DiskInv, Downloading PROVE DiskInv'
  OBVIOUS
<1>2. stage = "Off" /\ DownloaderNext /\ UNCHANGED cleanerVars /\ stage' = "Off"
  BY <1>1 DEF Downloading, cleanerVars
<1>3. CASE Start
  BY <1>1, <1>2, <1>3, QuietDownloader DEF Start
<1>4. CASE Track
  BY <1>1, <1>2, <1>4, QuietDownloader DEF Track, DownloaderExits
<1>5. CASE Search
  BY <1>1, <1>2, <1>5, QuietDownloader DEF Search, NextTry
<1>6. CASE Candidate
  BY <1>1, <1>2, <1>6, QuietDownloader DEF Candidate
<1>7. CASE TransferWrites
  <2>1. FileSound([of |-> results[attempt].of, whole |-> FALSE, tags |-> "Own", backup |-> "No"])
    BY DEF FileSound
  <2>2. DiskSound'
    BY <1>1, <1>7, <2>1, PutSound DEF TransferWrites, DiskInv
  <2>3. DOMAIN disk' = DOMAIN disk \cup {Output}
    BY <1>7, PutFile DEF TransferWrites
  <2>4. Output' = Output
    BY <1>7 DEF TransferWrites, Output
  <2>5. QED BY <1>1, <1>2, <2>2, <2>3, <2>4 DEF DiskInv, FileKnown, OutputKnown, TurnsTaken, cleanerVars
<1>8. CASE Completed
  <2>1. PICK whole \in BOOLEAN : disk' = Put(Output, [disk[Output] EXCEPT !.whole = whole])
    BY <1>8 DEF Completed
  <2>2. FileSound([disk[Output] EXCEPT !.whole = whole])
    BY <1>1, <1>8 DEF DiskInv, OutputKnown, DiskSound, FileSound, Completed
  <2>3. DiskSound'
    BY <1>1, <2>1, <2>2, PutSound DEF DiskInv
  <2>4. step' = "Saving"
    BY <1>8 DEF Completed
  <2>5. QED BY <1>1, <1>2, <2>3, <2>4 DEF DiskInv, FileKnown, OutputKnown, TurnsTaken, cleanerVars
<1>9. CASE SaveCsv
  BY <1>1, <1>2, <1>9, QuietDownloader DEF SaveCsv
<1>10. CASE Failed
  BY <1>1, <1>2, <1>10, QuietDownloader DEF Failed, NextTry
<1>11. CASE GivesUp
  BY <1>1, <1>2, <1>11, QuietDownloader DEF GivesUp
<1>12. CASE Killed
  BY <1>1, <1>2, <1>12, QuietDownloader DEF Killed, DownloaderExits
<1>13. QED
  BY <1>2, <1>3, <1>4, <1>5, <1>6, <1>7, <1>8, <1>9, <1>10, <1>11, <1>12
  DEF DownloaderNext, Download

-----------------------------------------------------------------------------
(* The cleaner's steps. *)

\* A step of the cleaner that is at no file afterwards keeps what it must when the
\* disk stays sound.
LEMMA FileDone ==
  ASSUME DiskInv, step = "Off", UNCHANGED downloaderVars, DiskSound', already' \in BOOLEAN,
         stage' \in {"Off", "Next", "Check"}
  PROVE  DiskInv'
BY DEF DiskInv, FileKnown, OutputKnown, TurnsTaken, downloaderVars

\* What a copy or a move leaves, and what it is still to do.
LEMMA TransferSound ==
  ASSUME NEW to, DiskInv, stage \in {"Unknown", "Place"}, Transferred(to),
         file' = file, already' = already
  PROVE  /\ DiskSound'
         /\ \/ stage' = "Next"
            \/ /\ stage' = "Copy" /\ target' = to /\ to \in DOMAIN disk' /\ file \in DOMAIN disk'
               /\ ~disk'[to].whole
<1>1. file \in DOMAIN disk /\ FileSound(disk[file])
  BY DEF DiskInv, FileKnown, DiskSound, FileSound
<1>2. CASE args.move
  <2>1. disk' = Renamed(file, to) /\ stage' = "Next"
    BY <1>2 DEF Transferred
  <2>2. QED BY <1>1, <2>1, RenameSound DEF DiskInv
<1>3. CASE ~args.move
  <2>1. disk' = Put(to, Torn(disk[file])) /\ target' = to /\ stage' = "Copy"
    BY <1>3 DEF Transferred
  <2>2. FileSound(Torn(disk[file])) /\ Torn(disk[file]).whole = FALSE
    BY <1>1, TornSound, TornFile DEF FileSound
  <2>3. DiskSound'
    BY <2>1, <2>2, PutSound DEF DiskInv
  <2>4. DOMAIN disk' = DOMAIN disk \cup {to} /\ disk'[to] = Torn(disk[file])
    BY <2>1, PutFile
  <2>5. QED BY <1>1, <2>1, <2>2, <2>3, <2>4
<1>4. QED BY <1>2, <1>3

\* A step that ends the file by an error or a kill.
LEMMA UnfinishedSound ==
  ASSUME DiskInv, disk' \in Unfinished
  PROVE  DiskSound'
<1>1. CASE disk' = disk
  BY <1>1 DEF DiskInv, DiskSound
<1>2. CASE stage = "Tag" /\ disk' = Put(file, Torn(disk[file]))
  <2>1. FileSound(disk[file])
    BY <1>2 DEF DiskInv, FileKnown, DiskSound, FileSound
  <2>2. QED BY <1>2, <2>1, TornSound, PutSound DEF DiskInv
<1>3. QED BY <1>1, <1>2 DEF Unfinished

LEMMA CleanerDisk == DiskInv /\ Cleaning => DiskInv'
<1>1. SUFFICES ASSUME DiskInv, Cleaning PROVE DiskInv'
  OBVIOUS
<1>2. step = "Off" /\ CleanerNext /\ UNCHANGED downloaderVars /\ step' = "Off"
  BY <1>1 DEF Cleaning, downloaderVars
<1>3. already \in BOOLEAN
  BY <1>1 DEF DiskInv, FileKnown
<1>4. CASE Run
  BY <1>1, <1>2, <1>3, <1>4, FileDone DEF Run, DiskInv, DiskSound
<1>5. CASE TakeFile
  BY <1>1, <1>2, <1>3, <1>5, FileDone DEF TakeFile, CleanerExits, DiskInv, DiskSound
<1>6. CASE CheckFile
  <2>1. DiskSound' /\ disk' = disk /\ file' = file
    BY <1>1, <1>6 DEF CheckFile, DiskInv, DiskSound
  <2>2. CASE stage' = "Next"
    BY <1>1, <1>2, <1>3, <1>6, <2>1, <2>2, FileDone DEF CheckFile, Stamped
  <2>3. CASE stage' # "Next"
    <3>1. stage' = "Lookup" /\ Exists(file) /\ already' = Stamped(file)
      BY <1>6, <2>3 DEF CheckFile
    <3>2. FileKnown'
      BY <2>1, <3>1 DEF FileKnown, Exists, Stamped
    <3>3. QED BY <1>2, <2>1, <3>2 DEF DiskInv, OutputKnown, TurnsTaken, downloaderVars
  <2>4. QED BY <2>2, <2>3
<1>7. CASE Lookup
  <2>1. DiskSound' /\ FileKnown'
    BY <1>1, <1>7 DEF Lookup, DiskInv, DiskSound, FileKnown
  <2>2. QED BY <1>2, <2>1 DEF DiskInv, OutputKnown, TurnsTaken, downloaderVars
<1>8. CASE RouteToUnknown
  <2>1. stage = "Unknown" /\ Transferred(UnknownPath) /\ file' = file /\ already' = already
    BY <1>8 DEF RouteToUnknown
  <2>2. /\ DiskSound'
        /\ \/ stage' = "Next"
           \/ /\ stage' = "Copy" /\ target' \in DOMAIN disk' /\ file \in DOMAIN disk'
              /\ ~disk'[target'].whole
    BY <1>1, <2>1, TransferSound
  <2>3. FileKnown'
    BY <1>3, <2>1, <2>2 DEF FileKnown
  <2>4. QED BY <1>2, <2>2, <2>3 DEF DiskInv, OutputKnown, TurnsTaken, downloaderVars
<1>9. CASE Tag
  <2>1. stage = "Tag" /\ disk' = Put(file, ApplyMetadata(disk[file])) /\ stage' = "Place"
        /\ UNCHANGED <<file, already>>
    BY <1>9 DEF Tag
  <2>2. FileSound(disk[file]) /\ (already <=> disk[file].backup # "No") /\ file \in DOMAIN disk
    BY <1>1, <2>1 DEF DiskInv, FileKnown, DiskSound, FileSound
  <2>3. FileSound(ApplyMetadata(disk[file]))
    BY <2>2 DEF ApplyMetadata, Backup, FileSound
  <2>4. DiskSound'
    BY <1>1, <2>1, <2>3, PutSound DEF DiskInv
  <2>5. file' \in DOMAIN disk'
    BY <2>1, PutFile
  <2>6. FileKnown'
    BY <1>3, <2>1, <2>5 DEF FileKnown
  <2>7. QED BY <1>2, <2>4, <2>6 DEF DiskInv, OutputKnown, TurnsTaken, downloaderVars
<1>10. CASE Place
  <2>1. stage = "Place" /\ file' = file /\ already' = already
    BY <1>10 DEF Place
  <2>2. CASE stage' = "Next" /\ disk' = disk
    BY <1>1, <1>2, <1>3, <2>1, <2>2, FileDone DEF DiskInv, DiskSound
  <2>3. CASE Transferred(OutputPath)
    <3>1. /\ DiskSound'
          /\ \/ stage' = "Next"
             \/ /\ stage' = "Copy" /\ target' \in DOMAIN disk' /\ file \in DOMAIN disk'
                /\ ~disk'[target'].whole
      BY <1>1, <2>1, <2>3, TransferSound
    <3>2. FileKnown'
      BY <1>3, <2>1, <3>1 DEF FileKnown
    <3>3. QED BY <1>2, <3>1, <3>2 DEF DiskInv, OutputKnown, TurnsTaken, downloaderVars
  <2>4. QED BY <1>10, <2>2, <2>3 DEF Place
<1>11. CASE CopyEnds
  <2>1. stage = "Copy" /\ disk' = Put(target, disk[file]) /\ stage' = "Next"
        /\ already' = already
    BY <1>11 DEF CopyEnds
  <2>2. FileSound(disk[file])
    BY <1>1, <2>1 DEF DiskInv, FileKnown, DiskSound, FileSound
  <2>3. DiskSound'
    BY <1>1, <2>1, <2>2, PutSound DEF DiskInv
  <2>4. QED BY <1>1, <1>2, <1>3, <2>1, <2>3, FileDone
<1>12. CASE FileFails
  BY <1>1, <1>2, <1>3, <1>12, UnfinishedSound, FileDone DEF FileFails
<1>13. CASE CleanerKilled
  BY <1>1, <1>2, <1>13, UnfinishedSound, FileDone DEF CleanerKilled, CleanerExits
<1>14. QED
  BY <1>2, <1>4, <1>5, <1>6, <1>7, <1>8, <1>9, <1>10, <1>11, <1>12, <1>13 DEF CleanerNext

LEMMA DiskInductive == DiskInv /\ [Next]_vars => DiskInv'
<1>1. CASE UNCHANGED vars
  BY <1>1 DEF vars, downloaderVars, cleanerVars, DiskInv, DiskSound, FileKnown, OutputKnown,
              TurnsTaken, Output
<1>2. QED BY <1>1, DownloaderDisk, CleanerDisk DEF Next

THEOREM DiskInvariant == Spec => []DiskInv
<1>1. QED BY InitDisk, DiskInductive, PTL DEF Spec

\* The fields music-cleaner backs up are always the original ones.
THEOREM OriginalsAreKept == Spec => []OriginalsKept
<1>1. DiskInv => OriginalsKept
  BY DEF DiskInv, DiskSound, OriginalsKept
<1>2. QED BY <1>1, DiskInvariant, PTL

-----------------------------------------------------------------------------
(* Runs of the downloader resume where the last one left off. *)

RowInv ==
  /\ csv \subseteq completed
  /\ step # "Off" => csv \subseteq marked /\ marked \subseteq completed
  /\ step \in {"Search", "Candidate", "Receiving"} => row \notin marked

LEMMA InitRow == Init => RowInv
BY DEF Init, DownloaderInit, RowInv

LEMMA DownloaderRow == RowInv /\ DownloaderNext => RowInv' /\ csv \subseteq csv'
<1>1. SUFFICES ASSUME RowInv, DownloaderNext PROVE RowInv' /\ csv \subseteq csv'
  OBVIOUS
<1>2. CASE Start
  BY <1>1, <1>2 DEF Start, RowInv
<1>3. CASE Track
  BY <1>1, <1>3 DEF Track, DownloaderExits, RowInv
<1>4. CASE Search
  BY <1>1, <1>4 DEF Search, NextTry, RowInv
<1>5. CASE Candidate
  BY <1>1, <1>5 DEF Candidate, NextTry, RowInv
<1>6. CASE TransferWrites \/ GivesUp
  BY <1>1, <1>6 DEF TransferWrites, GivesUp, RowInv
<1>7. CASE Completed
  BY <1>1, <1>7 DEF Completed, CsvBeforeRename, RowInv
<1>8. CASE SaveCsv
  BY <1>1, <1>8 DEF SaveCsv, RowInv
<1>9. CASE Failed
  BY <1>1, <1>9 DEF Failed, NextTry, RowInv
<1>10. CASE Killed
  BY <1>1, <1>10 DEF Killed, DownloaderExits, RowInv
<1>11. QED
  BY <1>1, <1>2, <1>3, <1>4, <1>5, <1>6, <1>7, <1>8, <1>9, <1>10 DEF DownloaderNext, Download

LEMMA RowInductive == RowInv /\ [Next]_vars => RowInv' /\ csv \subseteq csv'
<1>1. CASE UNCHANGED downloaderVars
  BY <1>1 DEF downloaderVars, RowInv
<1>2. CASE Downloading
  BY <1>2, DownloaderRow DEF Downloading
<1>3. CASE Cleaning
  BY <1>1, <1>3 DEF Cleaning
<1>4. QED BY <1>1, <1>2, <1>3 DEF Next, vars

\* The record of a completed row is never lost, and the row never downloaded again.
THEOREM RowsAreResumed == Spec => ResumesWhereItLeftOff
<1>1. RowInv /\ [Next]_vars
        => [/\ csv \subseteq csv' /\ csv' \subseteq completed'
            /\ step' = "Receiving" => row' \notin csv']_<<disk, downloaderVars>>
  BY RowInductive DEF RowInv
<1>2. QED BY <1>1, InitRow, RowInductive, PTL DEF Spec, ResumesWhereItLeftOff

-----------------------------------------------------------------------------
(* Which recordings music-cleaner may lose. *)

\* Putting a file loses at most the recording of the file it replaces.
LEMMA PutLoses ==
  ASSUME NEW p, NEW c, disk' = Put(p, c), NEW r \in Recorded(disk) \ Recorded(disk')
  PROVE  p \in DOMAIN disk /\ disk[p].whole /\ disk[p].of = r /\ ~(c.whole /\ c.of = r)
<1>1. /\ DOMAIN disk' = DOMAIN disk \cup {p} /\ disk'[p] = c
      /\ \A q \in DOMAIN disk \ {p} : disk'[q] = disk[q]
  BY PutFile
<1>2. PICK q \in DOMAIN disk : disk[q].whole /\ disk[q].of = r
  BY DEF Recorded
<1>3. \A x \in DOMAIN disk' : ~(disk'[x].whole /\ disk'[x].of = r)
  BY DEF Recorded
<1>4. QED BY <1>1, <1>2, <1>3

\* So does a rename, and not that of the file itself.
LEMMA RenameLoses ==
  ASSUME NEW p \in DOMAIN disk, NEW to, disk' = Renamed(p, to),
         NEW r \in Recorded(disk) \ Recorded(disk')
  PROVE  to \in DOMAIN disk /\ to # p
<1>1. /\ DOMAIN disk' = (DOMAIN disk \ {p}) \cup {to} /\ disk'[to] = disk[p]
      /\ \A q \in DOMAIN disk \ {p, to} : disk'[q] = disk[q]
  BY RenameFile
<1>2. PICK q \in DOMAIN disk : disk[q].whole /\ disk[q].of = r
  BY DEF Recorded
<1>3. \A x \in DOMAIN disk' : ~(disk'[x].whole /\ disk'[x].of = r)
  BY DEF Recorded
<1>4. QED BY <1>1, <1>2, <1>3

\* What OnlyAllowedLosses says of a step that loses the last file of r.
Allowed(r) ==
  \/ /\ stage = "Place" /\ OutputPath # file /\ Exists(OutputPath)
     /\ args.overwriteFiles \/ answer' = "Overwrite"
  \/ stage = "Unknown" /\ Exists(UnknownPath)
  \/ stage = "Tag" /\ r = disk[file].of /\ stage' # "Place"

\* A copy or a move loses a recording only where there is a file already.
LEMMA TransferLoses ==
  ASSUME NEW to, file \in DOMAIN disk, Transferred(to),
         NEW r \in Recorded(disk) \ Recorded(disk')
  PROVE  Exists(to)
<1>1. CASE args.move
  BY <1>1, RenameLoses DEF Transferred, Exists
<1>2. CASE ~args.move
  BY <1>2, PutLoses DEF Transferred, Exists
<1>3. QED BY <1>1, <1>2

LEMMA CleanerLoses ==
  ASSUME DiskInv, CleanerNext, NEW r \in Recorded(disk) \ Recorded(disk')
  PROVE  Allowed(r)
<1>1. disk' # disk
  OBVIOUS
<1>2. CASE RouteToUnknown
  <2>1. stage = "Unknown" /\ file \in DOMAIN disk /\ Transferred(UnknownPath)
    BY <1>2 DEF RouteToUnknown, DiskInv, FileKnown
  <2>2. QED BY <2>1, TransferLoses DEF Allowed
<1>3. CASE Tag
  <2>1. stage = "Tag" /\ disk' = Put(file, ApplyMetadata(disk[file])) /\ file \in DOMAIN disk
    BY <1>3 DEF Tag, DiskInv, FileKnown
  <2>2. ApplyMetadata(disk[file]).of = disk[file].of /\ ApplyMetadata(disk[file]).whole = disk[file].whole
    BY <2>1 DEF DiskInv, DiskSound, ApplyMetadata
  <2>3. QED BY <2>1, <2>2, PutLoses
<1>4. CASE Place
  <2>1. stage = "Place" /\ file \in DOMAIN disk
    BY <1>4 DEF Place, DiskInv, FileKnown
  <2>2. PICK choice \in Resolutions :
          /\ OutputPath # file /\ Transferred(OutputPath) /\ answer' = choice
          /\ Exists(OutputPath) => MayOverwrite(choice)
    BY <1>1, <1>4 DEF Place
  <2>3. Exists(OutputPath)
    BY <2>1, <2>2, TransferLoses
  <2>4. QED BY <2>1, <2>2, <2>3 DEF MayOverwrite, Allowed
<1>5. CASE CopyEnds
  <2>1. /\ disk' = Put(target, disk[file]) /\ target \in DOMAIN disk
        /\ target = file \/ ~disk[target].whole
    BY <1>5 DEF CopyEnds, DiskInv, FileKnown
  <2>2. disk[target].whole /\ ~(disk[file].whole /\ disk[file].of = r) /\ disk[target].of = r
    BY <2>1, PutLoses
  <2>3. QED BY <2>1, <2>2
<1>6. CASE FileFails \/ CleanerKilled
  <2>1. disk' \in Unfinished /\ stage' # "Place"
    BY <1>6 DEF FileFails, CleanerKilled, CleanerExits
  <2>2. stage = "Tag" /\ disk' = Put(file, Torn(disk[file]))
    BY <1>1, <2>1 DEF Unfinished
  <2>3. r = disk[file].of
    BY <2>2, PutLoses
  <2>4. QED BY <2>1, <2>2, <2>3 DEF Allowed
<1>7. QED
  BY <1>1, <1>2, <1>3, <1>4, <1>5, <1>6 DEF CleanerNext, Run, TakeFile, CheckFile, Lookup

\* The last whole file of a recording goes away by the user's leave, in the unknown
\* directory, or while its tag is saved, and in no other way.
THEOREM LossesAreAllowed == Spec => OnlyAllowedLosses
<1>1. DiskInv /\ [Next]_vars
        => [\A r \in Recorded(disk) \ Recorded(disk') :
              stage # "Off" => Allowed(r)]_<<disk, cleanerVars>>
  <2>1. SUFFICES ASSUME DiskInv, [Next]_vars, ~UNCHANGED <<disk, cleanerVars>>,
                        NEW r \in Recorded(disk) \ Recorded(disk'), stage # "Off"
                 PROVE  Allowed(r)
    OBVIOUS
  <2>2. CleanerNext
    BY <2>1 DEF Next, Downloading, Cleaning, vars
  <2>3. QED BY <2>1, <2>2, CleanerLoses
<1>2. QED BY <1>1, DiskInvariant, PTL DEF Spec, OnlyAllowedLosses, Allowed

=============================================================================
