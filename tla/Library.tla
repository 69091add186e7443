------------------------------ MODULE Library ------------------------------
(***************************************************************************)
(* A music library is filled by downloader and put in order by             *)
(* music-cleaner, in turns and in any order: each is a program that is run *)
(* by hand, may be killed, and finds on the disk what the other one left.  *)
(***************************************************************************)
EXTENDS BatchDownloader, MusicCleaner

vars == <<disk, downloaderVars, cleanerVars>>

Init ==
  /\ disk = [p \in {} |-> {}]
  /\ DownloaderInit
  /\ CleanerInit

Downloading == stage = "Off" /\ DownloaderNext /\ UNCHANGED cleanerVars

Cleaning == step = "Off" /\ CleanerNext /\ UNCHANGED downloaderVars

Next == Downloading \/ Cleaning

Spec == Init /\ [][Next]_vars

=============================================================================
