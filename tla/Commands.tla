------------------------------ MODULE Commands ------------------------------
(***************************************************************************)
(* Two commands that go on while something else changes: `run --watch'     *)
(* (main.rs), which runs the script again after every change of its file,  *)
(* and `record' (cli/recorder.rs), the proxy that writes the requests it   *)
(* forwards into a script when it is interrupted.                          *)
(***************************************************************************)
EXTENDS Naturals, Sequences, SequencesExt

CONSTANTS
  MaxEdits,      \* bound: changes of the script
  Clients,       \* requests that reach the proxy
  Unset          \* no value yet

VARIABLES
  file,          \* the script: its version (the mtime) and whether it is valid
  lastModified,  \* last_modified of the watch loop
  watch,         \* where the loop is
  content,       \* version it has read
  ran,           \* version of the last run
  stage,         \* where the handler of each request is
  recorded,      \* RecorderState::requests
  forwarded,     \* requests the target has seen
  saved          \* the flow that was written, Unset before Ctrl+C

watchVars == <<file, lastModified, watch, content, ran>>
recordVars == <<stage, recorded, forwarded, saved>>

CommandInit ==
  /\ file = [version |-> 0, valid |-> TRUE]
  /\ lastModified = 0 /\ watch = "read" /\ content = 0 /\ ran = Unset
  /\ stage = [c \in Clients |-> "new"]
  /\ recorded = <<>> /\ forwarded = <<>> /\ saved = Unset

-----------------------------------------------------------------------------
(* run --watch.                                                            *)

\* The user saves the script, which may not parse or may be gone for a moment.
Edit ==
  /\ file.version < MaxEdits
  /\ \E v \in BOOLEAN : file' = [version |-> file.version + 1, valid |-> v]
  /\ UNCHANGED <<lastModified, watch, content, ran, recordVars>>

\* Read, transpile and extract_config; an error is printed and all of it is
\* tried again at once.
ReadScript ==
  /\ watch = "read"
  /\ IF file.valid THEN watch' = "run" /\ content' = file.version
     ELSE UNCHANGED <<watch, content>>
  /\ UNCHANGED <<file, lastModified, ran, recordVars>>

\* The time the loop compares with is older than what it ran.
RememberedAfterRun == file.version
Remembered == lastModified

RunScript ==
  /\ watch = "run"
  /\ watch' = "poll" /\ ran' = content
  /\ lastModified' = Remembered
  /\ UNCHANGED <<file, content, recordVars>>

Poll ==
  /\ watch = "poll"
  /\ IF file.version # lastModified
     THEN watch' = "read" /\ lastModified' = file.version
     ELSE UNCHANGED <<watch, lastModified>>
  /\ UNCHANGED <<file, content, ran, recordVars>>

-----------------------------------------------------------------------------
(* record.                                                                 *)

Running == saved = Unset

\* handle_proxy reads the request and adds it to the list under the lock ...
RecordRequest(c) ==
  /\ Running /\ stage[c] = "new"
  /\ stage' = [stage EXCEPT ![c] = "recorded"]
  /\ recorded' = Append(recorded, c)
  /\ UNCHANGED <<forwarded, saved, watchVars>>

\* ... then sends it on, unless its URL is not absolute.
ForwardsFirst(c) == stage[c] \in {"new", "recorded"}
MayForward(c) == stage[c] = "recorded"

Forward(c) ==
  /\ Running /\ MayForward(c)
  /\ stage' = [stage EXCEPT ![c] = "sent"]
  /\ forwarded' = Append(forwarded, c)
  /\ UNCHANGED <<recorded, saved, watchVars>>

Refuse(c) ==
  /\ Running /\ stage[c] = "recorded"
  /\ stage' = [stage EXCEPT ![c] = "refused"]
  /\ UNCHANGED <<recorded, forwarded, saved, watchVars>>

\* Ctrl+C: save_flow writes the list.
SaveFlow ==
  /\ Running /\ saved' = recorded
  /\ UNCHANGED <<stage, recorded, forwarded, watchVars>>

WatchSteps == ReadScript \/ RunScript \/ Poll
Record == (\E c \in Clients : RecordRequest(c) \/ Forward(c) \/ Refuse(c)) \/ SaveFlow

CommandFairness == WF_watchVars(WatchSteps)

-----------------------------------------------------------------------------
\* Watch mode catches up: once the user stops editing, the version that stays,
\* if it is valid, is the one that was run last, whenever the edit came.
LastEditRuns == <>[](file.valid => ran = file.version)

\* The recorded flow holds every request the target saw before the recorder
\* was stopped.
FlowComplete == saved # Unset => ToSet(forwarded) \subseteq ToSet(saved)
=============================================================================
