------------------------------ MODULE TempFile ------------------------------
(***************************************************************************)
(* How the JSON stores save (core/mission_persistence.py and                 *)
(* core/approval_queue.py: _save): Path.write_text of <name>.tmp, which      *)
(* truncates it and then writes it, and Path.replace over <name>.json.       *)
(* Writers share the name of the temporary file, so one may truncate or      *)
(* rename what another is writing, and an open handle follows the file it    *)
(* was opened on.                                                           *)
(***************************************************************************)

CONSTANTS
  None,
  Writers,
  Empty,      \* a file that has just been truncated
  Torn        \* a file with a text cut short, or with the tail of another behind it

VARIABLES
  file,       \* the text of <name>.json, None if there is no such file
  tmp,        \* the text of <name>.tmp
  writesTo    \* the file behind the open handle of each writer

fileVars == << file, tmp, writesTo >>

Unreadable == { None, Empty, Torn }

Handles == [Writers -> { "none", "tmp", "file", "gone" }]

\* write_text begins: the temporary file is opened
Truncate(w) ==
  /\ tmp' = Empty
  /\ writesTo' = [writesTo EXCEPT ![w] = "tmp"]
  /\ UNCHANGED file

\* over what another handle has written since the file was opened, a shorter
\* text leaves a tail
overwritten(old, text) == { text } \cup (IF old = Empty THEN {} ELSE { Torn })

\* write_text ends
Write(w, text) ==
  /\ \/ /\ writesTo[w] = "tmp"
        /\ tmp' \in overwritten(tmp, text)
        /\ UNCHANGED file
     \/ /\ writesTo[w] = "file"
        /\ file' \in overwritten(file, text)
        /\ UNCHANGED tmp
     \/ /\ writesTo[w] = "gone"
        /\ UNCHANGED << file, tmp >>
  /\ writesTo' = [writesTo EXCEPT ![w] = "none"]

\* write_text fails part way: what is behind the handle may be left torn
WriteFails(w) ==
  /\ \/ /\ writesTo[w] = "tmp"
        /\ tmp' \in { tmp, Torn }
        /\ UNCHANGED file
     \/ /\ writesTo[w] = "file"
        /\ file' \in { file, Torn }
        /\ UNCHANGED tmp
     \/ /\ writesTo[w] = "gone"
        /\ UNCHANGED << file, tmp >>
  /\ writesTo' = [writesTo EXCEPT ![w] = "none"]

\* the handles follow their files when one is renamed over the other
renamed ==
  [w \in Writers |->
     CASE writesTo[w] = "tmp" -> "file"
       [] writesTo[w] = "file" -> "gone"
       [] OTHER -> writesTo[w]]

\* replace raises when another writer has taken the file away; the stores log it
\* and answer as if all were well
Replace ==
  IF tmp = None
  THEN UNCHANGED fileVars
  ELSE /\ file' = tmp
       /\ tmp' = None
       /\ writesTo' = renamed

=============================================================================
