---------------------------- MODULE PolicyStore -----------------------------
(***************************************************************************)
(* pkg/policy: the trained weights of a target, kept in one file per       *)
(* target.  Save writes a temporary file beside it and renames it, under   *)
(* the write lock; Load reads the file under the read lock.  A file is     *)
(* opaque here: whole weights, nothing, or the beginning of some.          *)
(*                                                                         *)
(* The process can stop between any two steps.  Then the files stay as     *)
(* they are and the lock is free again.  The machine is not lost: a write  *)
(* that has returned is read back.                                         *)
(***************************************************************************)
EXTENDS Naturals, Sequences

CONSTANTS
    Targets,      \* node ids, as sequences of characters
    SafeChars,    \* the characters a file name keeps: a-z A-Z 0-9 - .
    Missing,      \* no file
    Partial       \* a file that is not JSON: its write has not come to its end

VARIABLES
    file,     \* file[p]: what is under the name of p
    tmp,      \* tmp[p]: what is under that name + ".tmp"
    saver     \* the goroutine holding the write lock, a set

policyVars == <<file, tmp, saver>>

\* path: every other character becomes an underscore, so that two targets
\* may share a file.
Path(t) == [i \in DOMAIN t |-> IF t[i] \in SafeChars THEN t[i] ELSE "_"]
Paths == {Path(t) : t \in Targets}

PolicyInit ==
    /\ file = [p \in Paths |-> Missing]
    /\ tmp = [p \in Paths |-> Missing]
    /\ saver = {}

\* Mutant of Stored: the file is looked for under the name of the target.
StoredByName(t) == IF t \in Paths /\ file[t] \notin {Missing, Partial} THEN {file[t]} ELSE {}

\* Load's answer, as a set of at most one: a file that is missing or cannot
\* be parsed is no prior.
Stored(t) == IF file[Path(t)] \in {Missing, Partial} THEN {} ELSE {file[Path(t)]}

\* Readers wait for a Save to end; there are no steps between a Load's.
CanLoad == saver = {}

\* Mutant of SaveBegins: without the lock.
SaveBeginsUnlocked(r, t) ==
    /\ tmp' = [tmp EXCEPT ![Path(t)] = Partial]
    /\ UNCHANGED <<file, saver>>

\* Save: takes the lock, creates or truncates the temporary file.
SaveBegins(r, t) ==
    /\ saver = {}
    /\ saver' = {r}
    /\ tmp' = [tmp EXCEPT ![Path(t)] = Partial]
    /\ UNCHANGED file

\* WriteFile has returned.
SaveWritten(t, w) ==
    /\ tmp' = [tmp EXCEPT ![Path(t)] = w]
    /\ UNCHANGED <<file, saver>>

\* WriteFile has failed: Save returns, the temporary file stays.
SaveFails ==
    /\ saver' = {}
    /\ UNCHANGED <<file, tmp>>

SaveRenamed(t) ==
    /\ file' = [file EXCEPT ![Path(t)] = tmp[Path(t)]]
    /\ tmp' = [tmp EXCEPT ![Path(t)] = Missing]
    /\ saver' = {}

\* Rename has failed: the temporary file is removed.
SaveNotRenamed(t) ==
    /\ tmp' = [tmp EXCEPT ![Path(t)] = Missing]
    /\ saver' = {}
    /\ UNCHANGED file

\* The process is gone.
PolicyCrash ==
    /\ saver' = {}
    /\ UNCHANGED <<file, tmp>>
=============================================================================
