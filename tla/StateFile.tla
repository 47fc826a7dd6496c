---- MODULE StateFile ----
(***************************************************************************)
(* ~/.collab/state.json (internal/state/state.go): the writer goroutine of *)
(* each session on a machine, the two names they share, and what "collab   *)
(* status" and "collab export" would read.                                 *)
(*                                                                         *)
(* A name stands for the file it leads to, a file for its content: whose   *)
(* snapshot it is, or that it is empty or torn.  A writer that has opened  *)
(* the temporary file keeps writing to the same file when another writer   *)
(* gives it the other name or takes its name away.  The disk is external   *)
(* and taken to work; a process may end at any step, and its goroutines    *)
(* with it.  When main starts and stops the writer is in Lifecycle.        *)
(***************************************************************************)
EXTENDS Sequences

CONSTANTS Sessions   \* the sessions of one machine

VARIABLES
    life,     \* session -> "coming", "up" once its writer runs, "gone" once its process ends
    stop,     \* session -> its stop channel is closed
    writer,   \* session -> where its writer is
    open,     \* session -> where the file leads from that its writer has open
    tmp,      \* what state.json.tmp leads to
    file,     \* what state.json leads to
    overlap   \* history: two sessions have been up at once

stateVars == <<life, stop, writer, open, tmp, file, overlap>>

Contents == Sessions \cup {"absent", "empty", "torn"}

StateTypeOK ==
    /\ life \in [Sessions -> {"coming", "up", "gone"}]
    /\ stop \in [Sessions -> BOOLEAN]
    /\ writer \in [Sessions -> {"none", "open", "write", "rename", "wait", "done"}]
    /\ open \in [Sessions -> {"nothing", "tmp", "file", "nowhere"}]
    /\ tmp \in Contents /\ file \in Contents
    /\ overlap \in BOOLEAN

StateInit ==
    /\ life = [s \in Sessions |-> "coming"]
    /\ stop = [s \in Sessions |-> FALSE]
    /\ writer = [s \in Sessions |-> "none"]
    /\ open = [s \in Sessions |-> "nothing"]
    /\ tmp = "absent" /\ file = "absent"
    /\ overlap = FALSE

----
(* The session around the writer.                                          *)

\* NewWriter and go Run, which flushes at once.
StartWriter(s) ==
    /\ life[s] = "coming"
    /\ life' = [life EXCEPT ![s] = "up"]
    /\ writer' = [writer EXCEPT ![s] = "open"]
    /\ overlap' = (overlap \/ \E r \in Sessions : life[r] = "up")
    /\ UNCHANGED <<stop, open, tmp, file>>

\* close(stateStop); main does not wait for the writer to notice.
CloseStop(s) ==
    /\ life[s] = "up" /\ ~stop[s]
    /\ stop' = [stop EXCEPT ![s] = TRUE]
    /\ UNCHANGED <<life, writer, open, tmp, file, overlap>>

\* The process ends, in order or not, and with it the writer.
EndProcess(s) ==
    /\ life[s] # "gone"
    /\ life' = [life EXCEPT ![s] = "gone"]
    /\ writer' = [writer EXCEPT ![s] = "none"]
    /\ open' = [open EXCEPT ![s] = "nothing"]
    /\ UNCHANGED <<stop, tmp, file, overlap>>

----
(* Write: os.WriteFile of the temporary file, which opens, truncating, and *)
(* then writes, and os.Rename.                                             *)

Moves(s, from, to) == writer[s] = from /\ writer' = [writer EXCEPT ![s] = to]

\* Mutation: there is no temporary file.
OpenInPlace(s) ==
    /\ Moves(s, "open", "write")
    /\ file' = "empty"
    /\ open' = [open EXCEPT ![s] = "file"]
    /\ UNCHANGED <<life, stop, tmp, overlap>>

OpenTmp(s) ==
    /\ Moves(s, "open", "write")
    /\ tmp' = "empty"
    /\ open' = [open EXCEPT ![s] = "tmp"]
    /\ UNCHANGED <<life, stop, file, overlap>>

\* What a snapshot of s leaves of a file: all of itself, and the end of what was longer.
Over(content, s) == IF content = "empty" THEN {s} ELSE {s, "torn"}

WriteTmp(s) ==
    /\ Moves(s, "write", "rename")
    /\ IF open[s] = "tmp" THEN tmp' \in Over(tmp, s) ELSE UNCHANGED tmp
    /\ IF open[s] = "file" THEN file' \in Over(file, s) ELSE UNCHANGED file
    /\ open' = [open EXCEPT ![s] = "nothing"]
    /\ UNCHANGED <<life, stop, overlap>>

\* What has the temporary name gets the other one, and what had that has none.
Renamed(where) ==
    IF where = "tmp" THEN "file" ELSE IF where = "file" THEN "nowhere" ELSE where

RenameTmp(s) ==
    /\ Moves(s, "rename", "wait")
    /\ tmp # "absent"
    /\ file' = tmp /\ tmp' = "absent"
    /\ open' = [r \in Sessions |-> Renamed(open[r])]
    /\ UNCHANGED <<life, stop, overlap>>

\* Mutation: an error ends the writer.
RenameFailsForGood(s) ==
    /\ Moves(s, "rename", "done")
    /\ tmp = "absent"
    /\ UNCHANGED <<life, stop, open, tmp, file, overlap>>

\* Another writer has renamed the file first; the error is a warning.
RenameFails(s) ==
    /\ Moves(s, "rename", "wait")
    /\ tmp = "absent"
    /\ UNCHANGED <<life, stop, open, tmp, file, overlap>>

----
(* Run: between flushes the writer waits for the tick or the stop; when    *)
(* both are there select takes either.                                     *)

Tick(s) ==
    /\ Moves(s, "wait", "open")
    /\ UNCHANGED <<life, stop, open, tmp, file, overlap>>

\* Remove takes the name away, whoever's snapshot it leads to.
RemoveFile(s) ==
    /\ stop[s]
    /\ Moves(s, "wait", "done")
    /\ file' = "absent"
    /\ open' = [r \in Sessions |-> IF open[r] = "file" THEN "nowhere" ELSE open[r]]
    /\ UNCHANGED <<life, stop, tmp, overlap>>

Flush(s) == OpenTmp(s) \/ WriteTmp(s) \/ RenameTmp(s) \/ RenameFails(s)

Run(s) == Flush(s) \/ Tick(s) \/ RemoveFile(s)

Main(s) == StartWriter(s) \/ CloseStop(s) \/ EndProcess(s)

StateNext == \E s \in Sessions : Run(s) \/ Main(s)

StateSpec == StateInit /\ [][StateNext]_stateVars

----
(* Properties.                                                             *)

\* As long as sessions follow one another, a reader finds a whole snapshot or no file,
\* wherever the writer is and wherever an earlier session was when its process ended
\* (state.go:75-94).
WholeUnlessOverlapping == ~overlap => file \in Sessions \cup {"absent"}

\* Two sessions at once may tear the file, take it for their own and remove it, but the
\* one that goes on gets it back for good (state.go:128-160).
LastSessionOwnsFile ==
    \A s \in Sessions :
       <>[](life[s] = "up" /\ ~stop[s] /\ \A r \in Sessions \ {s} : life[r] # "up")
          => <>[](file = s)
====
