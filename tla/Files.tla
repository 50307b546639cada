------------------------------- MODULE Files -------------------------------
(***************************************************************************)
(* src/src/files.rs: what one call of write_data_to_file, remove_file or   *)
(* unique_filename does, as the set of its outcomes.  An outcome says what *)
(* is in the file afterwards and whether the caller is told of a change.   *)
(* The filesystem is external: a path is a sequence of tokens, "/" or the  *)
(* name of a folder, and Resolve is the directory it denotes.              *)
(***************************************************************************)
EXTENDS Sequences

CONSTANTS
    None,    \* no file
    Empty    \* the contents of an empty or truncated file

Outcome(content, changed) == [now |-> content, changed |-> changed]

(* The directory a path denotes: empty segments vanish. *)
Resolve(path) == SelectSeq(path, LAMBDA token : token # "/")

(* Err and the PermissionDenied return reach the caller of update_file as      *)
(* FALSE.  On a failure the file is as it was (mkdir, read or open failed),    *)
(* truncated (fs::write failed half way) or complete (the chmod of             *)
(* DEFAULT_FILE_MODE failed, or its octal is invalid).                         *)
FailedWrite(old, data) == {Outcome(c, FALSE) : c \in {old, Empty, data}}

(* Mutants: no suppression of equal contents; a file that exists is kept. *)
WriteAlways(old, data, fails) ==
    IF fails THEN FailedWrite(old, data) ELSE {Outcome(data, TRUE)}
WriteIfMissing(old, data, fails) ==
    IF old # None THEN {Outcome(old, FALSE)} ELSE {Outcome(data, TRUE)}

(* A file with the same digest is left alone, and no change is reported. *)
WriteDataToFile(old, data, fails) ==
    IF old = data THEN {Outcome(old, FALSE)}
    ELSE IF fails THEN FailedWrite(old, data)
    ELSE {Outcome(data, TRUE)}

(* A missing file and a failed unlink are both reported as no change. *)
RemoveFile(old, fails) ==
    IF old = None \/ fails THEN {Outcome(old, FALSE)} ELSE {Outcome(None, TRUE)}

(* namespace_<ns>.<kind>_<name>.<file>: names and files are dotted themselves. *)
UniqueFilename(file, ns, kind, name) == <<ns, kind>> \o name \o file
=============================================================================
