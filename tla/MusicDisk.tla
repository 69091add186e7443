----------------------------- MODULE MusicDisk -----------------------------
(***************************************************************************)
(* The audio files that the two command-line programs leave to each other: *)
(* downloader writes them into its download directory, music-cleaner tags, *)
(* renames, copies and moves them.                                         *)
(*                                                                         *)
(* A directory is the one files are downloaded into, or the output root,   *)
(* and how many times one goes down into "unknown" from there.             *)
(***************************************************************************)
EXTENDS Naturals

Downloads == [root |-> "Downloads", unknown |-> 0]

VARIABLE disk  \* the audio files there are: a function on their paths

\* A path is a directory and a <<base name, extension>>.  A file is a record of the
\* recording it is of, whether all of it is there (whole), whose text fields its
\* tag has (tags: "Own" or "MusicBrainz"), and whose the KYLE_ fields hold, which
\* come with the stamp KYLE_PROCESSED_AT (backup: "No", "Own" or "MusicBrainz").

Exists(p) == p \in DOMAIN disk

Stamped(p) == disk[p].backup # "No"

\* File::create and whatever is written then, which replaces what was there.
Put(p, c) == [q \in DOMAIN disk \cup {p} |-> IF q = p THEN c ELSE disk[q]]

Torn(c) == [c EXCEPT !.whole = FALSE]

\* fs::rename: one step, which replaces the target.
Renamed(p, to) == [q \in (DOMAIN disk \ {p}) \cup {to} |-> IF q = to THEN disk[p] ELSE disk[q]]

\* The recordings some file has all of.
Recorded(d) == {d[p].of : p \in {q \in DOMAIN d : d[q].whole}}

=============================================================================
