----------------------------- MODULE MCLibrary -----------------------------
(***************************************************************************)
(* Library with two tracks and two recordings that get one name from       *)
(* MusicBrainz, of which one has no tags of its own.                       *)
(***************************************************************************)
EXTENDS Library

MCRecording == {"aria", "bolero"}

MCTracks ==
  << [title |-> <<"a", "r", "i">>, artist |-> <<"x", "y">>, duration |-> 180],
     [title |-> <<"b", "o", "l">>, artist |-> <<"x", "y">>, duration |-> 200] >>

File(of, base, ext, title, artist, dirs, duration, bitrate) ==
  [of |-> of, base |-> base, ext |-> ext, title |-> title, artist |-> artist,
   dirs |-> dirs, duration |-> duration, bitrate |-> bitrate]

\* The wrong track of the right artist is a candidate too, below the right one,
\* when its format and duration are good.
MCReplies ==
  { << File("bolero", "02", "txt", <<"b", "o", "l">>, <<"x", "y">>, <<>>, 200, 0),
       File("bolero", "02", "flac", <<"b", "o", "l">>, <<"x", "y">>, <<>>, 184, 0),
       File("aria", "01", "flac", <<"a", "r", "o">>, <<>>, << <<"x", "y">>, <<"l">> >>, 0, 256) >> }

MCOwnName == [r \in MCRecording |-> "u"]
MCFoundName == [r \in MCRecording |-> "t"]

Arg(recursive, output, move, overwriteFiles, overwriteMetadata, nonInteractive, noMusicBrainz) ==
  [recursive |-> recursive, output |-> output, move |-> move, overwriteFiles |-> overwriteFiles,
   overwriteMetadata |-> overwriteMetadata, nonInteractive |-> nonInteractive,
   noMusicBrainz |-> noMusicBrainz]

MCArgs ==
  { Arg(FALSE, "Output",    TRUE,  FALSE, FALSE, TRUE,  FALSE),
    Arg(FALSE, "Default",   TRUE,  FALSE, TRUE,  FALSE, FALSE),
    Arg(TRUE,  "Downloads", FALSE, TRUE,  TRUE,  TRUE,  FALSE),
    Arg(TRUE,  "Default",   TRUE,  FALSE, FALSE, TRUE,  TRUE) }

\* Copies, never asks and may not overwrite.
MCCopyingArgs == { Arg(FALSE, "Default", FALSE, FALSE, FALSE, TRUE, TRUE) }

=============================================================================
