------------------------------- MODULE VfsSpec --------------------------------
(***************************************************************************)
(* What the file system promises its user: a file is what the last call    *)
(* that completed on it made of it.  While a call works on a file, and     *)
(* after a call that was cut short or that a transfer failed in, nothing   *)
(* is promised of that one file until the next call completes on it.       *)
(* Only a boot that cannot read the table takes the promise back for all.  *)
(***************************************************************************)
CONSTANTS
    Files,      \* names of files
    Texts,      \* what a call may make of a file
    NoFile,     \* the file does not exist
    Unknown     \* nothing is promised

VARIABLES
    files,      \* by name: what reading the file returns, or Unknown
    calls       \* the call in progress: <<[name, text]>>, or <<>>

fileVars == <<files, calls>>

FileInit == files = [n \in Files |-> NoFile] /\ calls = <<>>

Begin(n, text) ==
    /\ calls = <<>>
    /\ calls' = <<[name |-> n, text |-> text]>>
    /\ files' = [files EXCEPT ![n] = Unknown]

Complete ==
    /\ calls # <<>>
    /\ files' = [files EXCEPT ![calls[1].name] = calls[1].text]
    /\ calls' = <<>>

CutShort == calls # <<>> /\ calls' = <<>> /\ UNCHANGED files

Lose == files' = [n \in Files |-> Unknown] /\ calls' = <<>>

FileNext ==
    \/ \E n \in Files, text \in Texts : Begin(n, text)
    \/ Complete \/ CutShort \/ Lose

FileSpec == FileInit /\ [][FileNext]_fileVars
=============================================================================
