---------------------------- MODULE ScriptRunner ----------------------------
(***************************************************************************)
(* One execution of google_metadata_script_runner: it reads the attributes *)
(* of the instance and, if they hold no script of the wanted type, of the  *)
(* project, and runs the scripts in order.  Modules that start the program *)
(* extend this one.                                                        *)
(*                                                                         *)
(* Abstracted: the content of a script, the retries of one request (it     *)
(* fails or not) and the log.  A file is the sequence of what was copied   *)
(* to it, a part of the script or the whole.                               *)
(***************************************************************************)
EXTENDS Naturals, Sequences, SequencesExt

CONSTANTS
    Guests,           \* the system, the scripts in the attributes and what their URL is
    MaxScriptFaults   \* bound: failed requests, copies and file operations of a run

Levels == {"instance", "project"}

\* A script that a key holds itself, or what its URL is.
Kinds == {"text", "gcs", "http", "invalid"}

\* getWantedKeys(), without the prefix that is the type of the scripts.
GetWantedKeys(os) ==
    IF os = "windows" THEN <<"ps1", "cmd", "bat", "url">> ELSE <<"script", "url">>

ASSUME ScriptAssumption ==
    /\ \A g \in Guests :
        /\ g.os \in {"linux", "windows"} /\ g.urlKind \in Kinds \ {"text"}
        /\ g.attrs \in [Levels -> SUBSET ToSet(GetWantedKeys(g.os))]
    /\ MaxScriptFaults \in Nat

VARIABLES
    os,        \* runtime.GOOS
    attrs,     \* the wanted keys that the attributes of each level hold
    urlKind,   \* what the URL is
    rPc,       \* the program
    level,     \* attributes it is reading, or has taken the scripts from
    queue,     \* the scripts it still has to run
    tmpDirs,   \* temporary directories, by the key they are for
    file,      \* the script in the temporary directory
    attempted, \* history: setupAndRunScript() calls, in order
    ran,       \* history: what was executed, in order: the key and its file
    scriptFaults

scriptVars == <<os, attrs, urlKind, rPc, level, queue, tmpDirs, file, attempted, ran, scriptFaults>>
fixedVars == <<os, attrs, urlKind>>

WantedKeys == GetWantedKeys(os)
KeyKind(k) == IF k = "url" THEN urlKind ELSE "text"

ScriptInit ==
    /\ \E g \in Guests : os = g.os /\ attrs = g.attrs /\ urlKind = g.urlKind
    /\ rPc = "off" /\ level = "instance"
    /\ queue = <<>> /\ tmpDirs = {} /\ file = <<>>
    /\ attempted = <<>> /\ ran = <<>> /\ scriptFaults = 0

ScriptFault == scriptFaults < MaxScriptFaults /\ scriptFaults' = scriptFaults + 1

StartRunner ==
    /\ rPc = "off"
    /\ rPc' = "attrs"
    /\ UNCHANGED <<fixedVars, level, queue, tmpDirs, file, attempted, ran, scriptFaults>>

StartRunnerFails ==
    /\ rPc = "off" /\ ScriptFault
    /\ rPc' = "fatal"
    /\ UNCHANGED <<fixedVars, level, queue, tmpDirs, file, attempted, ran>>

-----------------------------------------------------------------------------
(* main(): getExistingKeys() and the loop over the wanted keys.            *)

\* parseMetadata()
ParseMetadata(l) == SelectSeq(WantedKeys, LAMBDA k : k \in attrs[l])

GetExistingKeys ==
    /\ rPc = "attrs"
    /\ LET found == ParseMetadata(level)
       IN  \/ found # <<>> /\ queue' = found /\ rPc' = "next" /\ UNCHANGED level
           \/ found = <<>> /\ level = "instance" /\ level' = "project" /\ UNCHANGED <<queue, rPc>>
           \/ found = <<>> /\ level = "project" /\ rPc' = "end" /\ UNCHANGED <<queue, level>>
    /\ UNCHANGED <<fixedVars, tmpDirs, file, attempted, ran, scriptFaults>>

\* The attributes cannot be read: logger.Fatalf().
GetExistingKeysFails ==
    /\ rPc = "attrs" /\ ScriptFault
    /\ rPc' = "fatal"
    /\ UNCHANGED <<fixedVars, level, queue, tmpDirs, file, attempted, ran>>

Finish ==
    /\ rPc = "next" /\ queue = <<>>
    /\ rPc' = "end"
    /\ UNCHANGED <<fixedVars, level, queue, tmpDirs, file, attempted, ran, scriptFaults>>

-----------------------------------------------------------------------------
(* setupAndRunScript() of the first key of the queue.                      *)

Key == Head(queue)

\* It returns, failed or not, to the loop; os.RemoveAll() was deferred.
ReturnScript ==
    /\ rPc' = "next"
    /\ queue' = Tail(queue)
    /\ tmpDirs' = tmpDirs \ {Key}
    /\ file' = <<>>

\* The URL parses and the temporary directory is there, and the file if it is a
\* download.
Setup ==
    /\ rPc = "next" /\ queue # <<>> /\ KeyKind(Key) # "invalid"
    /\ attempted' = Append(attempted, Key)
    /\ tmpDirs' = tmpDirs \cup {Key}
    /\ rPc' = IF KeyKind(Key) = "text" THEN "write" ELSE "lookup"
    /\ UNCHANGED <<fixedVars, level, queue, file, ran, scriptFaults>>

SetupFails ==
    /\ rPc = "next" /\ queue # <<>>
    /\ \/ KeyKind(Key) = "invalid" /\ UNCHANGED scriptFaults
       \/ ScriptFault
    /\ attempted' = Append(attempted, Key)
    /\ ReturnScript
    /\ UNCHANGED <<fixedVars, level, ran>>

WriteFile ==
    /\ rPc = "write"
    /\ file' = <<"whole">>
    /\ rPc' = "exec"
    /\ UNCHANGED <<fixedVars, level, queue, tmpDirs, attempted, ran, scriptFaults>>

\* os.WriteFile() or net.LookupHost() fails.
WriteFileFails ==
    /\ rPc \in {"write", "lookup"} /\ ScriptFault
    /\ ReturnScript
    /\ UNCHANGED <<fixedVars, level, attempted, ran>>

\* downloadScript(): parseGCS() decides.
DownloadScript ==
    /\ rPc = "lookup"
    /\ rPc' = IF KeyKind(Key) = "gcs" THEN "gcs" ELSE "http"
    /\ UNCHANGED <<fixedVars, level, queue, tmpDirs, file, attempted, ran, scriptFaults>>

\* io.Copy() of either download: it appends to what the file holds.
Download ==
    /\ rPc \in {"gcs", "http"}
    /\ file' = Append(file, "whole")
    /\ rPc' = "exec"
    /\ UNCHANGED <<fixedVars, level, queue, tmpDirs, attempted, ran, scriptFaults>>

\* Fault: a copy that broke counts as a download.
DownloadURLFailsIgnored ==
    /\ rPc = "http" /\ ScriptFault
    /\ rPc' = "exec" /\ file' = Append(file, "part")
    /\ UNCHANGED <<fixedVars, level, queue, tmpDirs, attempted, ran>>

\* Whatever fails in downloadGSURL(), the unauthenticated download is tried next,
\* with the same file.
DownloadGSURLFails ==
    /\ rPc = "gcs" /\ ScriptFault
    /\ rPc' = "http"
    /\ file' \in {file, Append(file, "part")}
    /\ UNCHANGED <<fixedVars, level, queue, tmpDirs, attempted, ran>>

DownloadURLFails ==
    /\ rPc = "http" /\ ScriptFault
    /\ ReturnScript
    /\ UNCHANGED <<fixedVars, level, attempted, ran>>

\* runScript(): the exit status is only logged.
RunScript ==
    /\ rPc = "exec"
    /\ ran' = Append(ran, <<Key, file>>)
    /\ ReturnScript
    /\ UNCHANGED <<fixedVars, level, attempted, scriptFaults>>

ScriptStep ==
    \/ GetExistingKeys \/ GetExistingKeysFails \/ Finish
    \/ Setup \/ SetupFails \/ WriteFile \/ WriteFileFails
    \/ DownloadScript \/ Download \/ DownloadGSURLFails \/ DownloadURLFails \/ RunScript

Ended == rPc \in {"end", "fatal"}

-----------------------------------------------------------------------------
\* Type invariant of the program.
ScriptTypeOK ==
    /\ [os |-> os, attrs |-> attrs, urlKind |-> urlKind] \in Guests /\ level \in Levels
    /\ rPc \in {"off", "attrs", "next", "write", "lookup", "gcs", "http", "exec", "end", "fatal"}
    /\ file \in Seq({"part", "whole"})
    /\ scriptFaults \in 0..MaxScriptFaults

\* What is executed is a script that was written or downloaded to its end, whatever
\* failed on the way, and lies in its own temporary directory.  A part can only come
\* before it, from a copy of downloadGSURL() that broke: the fallback neither
\* truncates nor rewinds the file.
WholeScripts ==
    /\ \A i \in DOMAIN ran : LET f == ran[i][2]
                             IN  /\ f # <<>> /\ f[Len(f)] = "whole"
                                 /\ Len(f) > 1 => ran[i][1] = "url" /\ urlKind = "gcs"
    /\ rPc = "exec" => tmpDirs = {Key}
=============================================================================
