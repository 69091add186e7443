---------------------------- MODULE MusicCleaner ----------------------------
(***************************************************************************)
(* music-cleaner: the audio files of a directory are taken one by one,     *)
(* checked, looked up, tagged where they are, and then copied or moved     *)
(* under the name that their metadata gives them.                          *)
(*                                                                         *)
(* A run may be killed at any step, and anything that reads or writes may  *)
(* fail; either ends the file it is at.                                    *)
(*                                                                         *)
(* An operator under "Mutant:" is no part of the model: it is the operator *)
(* after it with a plausible bug.                                          *)
(***************************************************************************)
EXTENDS MusicDisk, FiniteSets

CONSTANTS
  ArgsChoices,  \* the command lines it is run with
  Titled,       \* recordings whose own tag has a title
  Identified,   \* recordings that AcoustID and MusicBrainz know
  OwnName,      \* the rendered name, by recording: from their own tags,
  FoundName,    \* and from MusicBrainz
  MaxRuns       \* bound: how often the program is run

Args == [recursive : BOOLEAN, output : {"Default", "Output", "Downloads"}, move : BOOLEAN,
         overwriteFiles : BOOLEAN, overwriteMetadata : BOOLEAN,
         nonInteractive : BOOLEAN, noMusicBrainz : BOOLEAN]

ASSUME ArgsAssumption == ArgsChoices \subseteq Args /\ MaxRuns \in Nat

AudioExtensions == {"mp3", "flac", "ogg", "m4a", "wav", "aiff", "aif", "opus"}

VARIABLES
  stage,    \* "Off", "Next", "Check", "Lookup", "Unknown", "Tag", "Place" or "Copy"
  runs,     \* how often it was run
  args,     \* of this run
  todo,     \* files discovered and not taken yet
  file,     \* the file it is at
  already,  \* already_processed
  meta,     \* ResolvedTrackMetadata: "MusicBrainz" or "ExistingFile"
  target,   \* where the file is copied to
  answer    \* the user's choice at the prompt, "None" without one

cleanerVars == <<stage, runs, args, todo, file, already, meta, target, answer>>

NoPath == [dir |-> Downloads, name |-> <<"", "">>]

\* The defaults of the command line.
NoArgs == [recursive |-> FALSE, output |-> "Default", move |-> FALSE, overwriteFiles |-> FALSE,
           overwriteMetadata |-> FALSE, nonInteractive |-> FALSE, noMusicBrainz |-> FALSE]

CleanerInit ==
  /\ stage = "Off" /\ runs = 0
  /\ args = NoArgs
  /\ todo = {} /\ file = NoPath /\ target = NoPath
  /\ already = FALSE /\ meta = "ExistingFile" /\ answer = "None"

\* The process is gone, and what it had in memory.
CleanerExits ==
  /\ stage' = "Off"
  /\ args' = NoArgs
  /\ todo' = {} /\ file' = NoPath /\ target' = NoPath
  /\ already' = FALSE /\ meta' = "ExistingFile" /\ answer' = "None"

-----------------------------------------------------------------------------
(* Paths. *)

IsAudioFile(p) == p.name[2] \in AudioExtensions

\* discover_files: the directory, or all below it.
DiscoverFiles(a) ==
  {p \in DOMAIN disk : /\ IsAudioFile(p)
                       /\ p.dir.root = "Downloads"
                       /\ a.recursive \/ p.dir.unknown = 0}

\* --output-dir, or else where the file is.
OutputRoot == IF args.output = "Default" THEN file.dir ELSE [root |-> args.output, unknown |-> 0]

\* The unknown directory is one below; the name is kept.
UnknownPath == [dir |-> [OutputRoot EXCEPT !.unknown = @ + 1], name |-> file.name]

\* template::render, with the file's extension; two recordings may have one name.
Rendered(of, source) == IF source = "MusicBrainz" THEN FoundName[of] ELSE OwnName[of]

OutputPath ==
  LET source == IF meta = "MusicBrainz" THEN meta ELSE disk[file].tags
  IN  [dir |-> OutputRoot, name |-> <<Rendered(disk[file].of, source), file.name[2]>>]

-----------------------------------------------------------------------------
(* One file. *)

Run ==
  /\ stage = "Off" /\ runs < MaxRuns
  /\ runs' = runs + 1
  /\ stage' = "Next"
  /\ args' \in ArgsChoices
  /\ todo' = DiscoverFiles(args')
  /\ UNCHANGED <<disk, file, already, meta, target, answer>>

TakeFile ==
  /\ stage = "Next"
  /\ \/ todo = {} /\ CleanerExits
     \/ /\ \E p \in todo : file' = p /\ todo' = todo \ {p}
        /\ stage' = "Check"
        /\ answer' = "None"
        /\ UNCHANGED <<args, already, meta, target>>
  /\ UNCHANGED <<disk, runs>>

\* A file that is not all there may have enough frames to be decoded.
Playable == Exists(file) /\ disk[file].whole

\* audio_check, and the guard against processing a file twice.
CheckFile ==
  /\ stage = "Check"
  /\ \/ ~Playable /\ stage' = "Next" /\ UNCHANGED already
     \/ /\ Exists(file)
        /\ already' = Stamped(file)
        /\ stage' = IF already' /\ ~args.overwriteMetadata THEN "Next" ELSE "Lookup"
  /\ UNCHANGED <<disk, runs, args, todo, file, meta, target, answer>>

HasTitle == disk[file].tags = "MusicBrainz" \/ disk[file].of \in Titled

\* lookup_track: a recording is known to both services, or to neither of them.
LookupTrack == disk[file].of \in Identified

\* The lookup may fail all the same; the file's tags are read when it is not to be
\* asked or does not know.
Lookup ==
  /\ stage = "Lookup"
  /\ \/ /\ ~args.noMusicBrainz /\ LookupTrack
        /\ meta' = "MusicBrainz" /\ stage' = "Tag"
     \/ /\ HasTitle
        /\ meta' = "ExistingFile"
        /\ stage' = IF args.noMusicBrainz THEN "Place" ELSE "Tag"
     \/ ~HasTitle /\ stage' = "Unknown" /\ UNCHANGED meta
  /\ UNCHANGED <<disk, runs, args, todo, file, already, target, answer>>

\* A move is done; a copy creates the target and fills it.
Transferred(to) ==
  IF args.move
  THEN disk' = Renamed(file, to) /\ stage' = "Next" /\ UNCHANGED target
  ELSE disk' = Put(to, Torn(disk[file])) /\ target' = to /\ stage' = "Copy"

\* Nobody looks whether there is a file of that name, not even the file itself.
RouteToUnknown ==
  /\ stage = "Unknown"
  /\ Transferred(UnknownPath)
  /\ UNCHANGED <<runs, args, todo, file, already, meta, answer>>

\* Mutant: the fields are backed up whenever the tag is written.
BackupAlways(c) == c.tags

\* write_kyle_backup, on the first run only.
Backup(c) == IF already THEN c.backup ELSE c.tags

\* apply_metadata, and its save of the file in place.
ApplyMetadata(c) ==
  [c EXCEPT !.backup = Backup(c),
            !.tags   = IF meta = "MusicBrainz" THEN "MusicBrainz" ELSE @]

Tag ==
  /\ stage = "Tag"
  /\ disk' = Put(file, ApplyMetadata(disk[file]))
  /\ stage' = "Place"
  /\ UNCHANGED <<runs, args, todo, file, already, meta, target, answer>>

\* Mutant: the indices of the two options are taken for each other.
MayOverwriteOnSkip(choice) == args.overwriteFiles \/ (~args.nonInteractive /\ choice = "Skip")

\* resolve_file_conflict, once the user has chosen.
MayOverwrite(choice) == args.overwriteFiles \/ (~args.nonInteractive /\ choice = "Overwrite")

\* Select::interact is reached only when neither flag is set.
Resolutions ==
  IF Exists(OutputPath) /\ ~args.overwriteFiles /\ ~args.nonInteractive
  THEN {"Skip", "Overwrite"} ELSE {"None"}

\* The file is where it belongs, or its place is taken, or it is copied or moved.
Place ==
  /\ stage = "Place"
  /\ IF OutputPath = file THEN stage' = "Next" /\ UNCHANGED <<disk, target, answer>>
     ELSE \E choice \in Resolutions :
            /\ answer' = choice
            /\ IF Exists(OutputPath) /\ ~MayOverwrite(choice)
               THEN stage' = "Next" /\ UNCHANGED <<disk, target>>
               ELSE Transferred(OutputPath)
  /\ UNCHANGED <<runs, args, todo, file, already, meta>>

CopyEnds ==
  /\ stage = "Copy"
  /\ disk' = Put(target, disk[file])
  /\ stage' = "Next"
  /\ UNCHANGED <<runs, args, todo, file, already, meta, target, answer>>

\* What an unfinished save of the tag leaves; an unfinished copy is on the disk.
Unfinished == IF stage = "Tag" THEN {disk, Put(file, Torn(disk[file]))} ELSE {disk}

\* process_file returns an error: the next file's turn.
FileFails ==
  /\ stage \notin {"Off", "Next"}
  /\ disk' \in Unfinished
  /\ stage' = "Next"
  /\ UNCHANGED <<runs, args, todo, file, already, meta, target, answer>>

CleanerKilled ==
  /\ stage # "Off"
  /\ disk' \in Unfinished
  /\ CleanerExits
  /\ UNCHANGED runs

CleanerNext == \/ Run \/ TakeFile \/ CheckFile \/ Lookup \/ RouteToUnknown \/ Tag \/ Place
               \/ CopyEnds \/ FileFails \/ CleanerKilled

-----------------------------------------------------------------------------
\* music-cleaner/src/metadata.rs:64, "the original data from the very first run is
\* always preserved": whatever runs, forced reruns, copies, failures and kills
\* there were, the KYLE_ fields of a file are never those of MusicBrainz.
OriginalsKept == \A p \in DOMAIN disk : disk[p].backup # "MusicBrainz"

\* The last whole file of a recording goes away in a run of music-cleaner only
\* when another file takes its name and the user gave leave, by --overwrite-files
\* or at the prompt; or when another takes its name in the unknown directory, where
\* no leave is asked (UnknownIsKept below); or while its own tag is saved in place.
OnlyAllowedLosses ==
  [][\A r \in Recorded(disk) \ Recorded(disk') :
       stage # "Off"
         => \/ /\ stage = "Place" /\ OutputPath # file /\ Exists(OutputPath)
               /\ args.overwriteFiles \/ answer' = "Overwrite"
            \/ stage = "Unknown" /\ Exists(UnknownPath)
            \/ stage = "Tag" /\ r = disk[file].of /\ stage' # "Place"]_<<disk, cleanerVars>>

-----------------------------------------------------------------------------
(* What the command line's help says and the code does not do. *)

\* music-cleaner/src/cli.rs:50, "Without this flag, the tool prompts interactively
\* (or skips in --non-interactive mode) when the destination file already exists":
\* without --overwrite-files a non-interactive run replaces no whole file but the
\* one it is at.
UnknownIsKept ==
  [][stage # "Off" /\ args.nonInteractive /\ ~args.overwriteFiles
       => \A p \in DOMAIN disk \ {file} :
            disk[p].whole => p \in DOMAIN disk' /\ disk'[p] = disk[p]]_<<disk, cleanerVars>>

=============================================================================
