---------------------------- MODULE OSLoginConfig ----------------------------
(***************************************************************************)
(* The OS Login manager's configuration files (oslogin.go): sshd_config,   *)
(* pam.d/sshd and group.conf with their marked Google lines, nsswitch.conf *)
(* and the deprecated directives of pam.d/su.                              *)
(*                                                                         *)
(* A file is the sequence strings.Split(contents, "\n") returns: one that  *)
(* ends in a newline ends in an empty line.  Markers are the lines "C"     *)
(* (googleComment), "S" and "E" (googleBlockStart and End); a directive of *)
(* the agent is named by what it configures.                               *)
(***************************************************************************)
EXTENDS Naturals, Sequences, SequencesExt

CONSTANTS
    MdFlags,           \* the flags the metadata may hold
    UserLines,         \* lines of the files that are not the agent's
    InitialFiles,      \* what a file may hold when the agent first runs
    CertAuthentication, \* cfg.OSLogin.CertAuthentication
    MaxChanges,        \* bound: changes of the flags in the metadata
    MaxEdits,          \* bound: lines an administrator adds
    MaxFaults,         \* bound: files that cannot be read or opened
    MaxCrashes         \* bound: deaths of the agent

Idle == <<"idle", "">>
Done == <<"done", "">>
Files == {"sshd", "pam", "group"}
Flags == [enable : BOOLEAN, twofactor : BOOLEAN, skey : BOOLEAN, reqCerts : BOOLEAN]
AgentLines == {"C", "S", "E", "ca", "keys", "keys_sk", "2fa", "include", "match",
               "pam_login", "pam_group", "pam_mkhomedir", "video"}
Lines == UserLines \cup AgentLines \cup {""}
Deprecated == "pam_su"   \* deprecatedConfigDirectives
NoFlags == [enable |-> FALSE, twofactor |-> FALSE, skey |-> FALSE, reqCerts |-> FALSE]

ASSUME ConfigAssumption ==
    /\ MdFlags \subseteq Flags
    /\ UserLines \cap (AgentLines \cup {""}) = {}
    /\ InitialFiles \subseteq Seq(Lines) \ {<<>>}
    /\ CertAuthentication \in BOOLEAN
    /\ {MaxChanges, MaxEdits, MaxFaults, MaxCrashes} \subseteq Nat

VARIABLES
    flags,     \* the flags in the metadata
    newFlags, oldFlags, \* in newMetadata and oldMetadata
    firstRun,  \* oldMetadata.Project.ProjectID is empty
    conf,      \* the files with marked lines
    nss,       \* nsswitch.conf: the OS Login suffix of each database line; "lost" without any
    su,        \* pam.d/su
    pc,        \* where Set() is
    proposed,  \* contents about to be written
    userPart,  \* history: the administrator's lines of each file
    torn,      \* history: files whose truncation was not followed by the write
    changes, edits, faults, crashes

mdVars == <<newFlags, oldFlags, firstRun>>
fileVars == <<conf, nss, su>>
boundVars == <<changes, edits, faults, crashes>>
vars == <<flags, mdVars, fileVars, pc, proposed, userPart, torn, boundVars>>

-----------------------------------------------------------------------------
(* The algorithms.                                                         *)

FilterStart == [google |-> FALSE, block |-> FALSE, out |-> <<>>]

\* One line: the cases of the switch, in their order.
FilterLine(s, line) ==
    CASE line = "C" /\ ~s.block -> [s EXCEPT !.google = TRUE]
      [] line = "E" -> [s EXCEPT !.block = FALSE, !.google = FALSE]
      [] line # "E" /\ (s.block \/ line = "S") -> [s EXCEPT !.block = TRUE]
      [] line \notin {"C", "S", "E"} /\ ~s.block /\ s.google -> [s EXCEPT !.google = FALSE]
      [] OTHER -> [s EXCEPT !.out = Append(@, line)]

\* The loop over the lines.
FilterLoop(lines) ==
    LET state[n \in 0..Len(lines)] ==
            IF n = 0 THEN FilterStart ELSE FilterLine(state[n - 1], lines[n])
    IN  state[Len(lines)]

\* Fault: a file without a final newline loses its last line.
FilterGoogleLinesFront(lines) ==
    LET filtered == FilterLoop(lines).out
    IN  IF filtered # <<>> THEN Front(filtered) ELSE filtered

FilterGoogleLines(lines) ==
    LET filtered == FilterLoop(lines).out
    IN  IF filtered # <<>> /\ Last(filtered) = "" THEN Front(filtered) ELSE filtered

\* strings.Join(lines, "\n") + "\n", split again.
Joined(lines) == IF lines = <<>> THEN <<"", "">> ELSE Append(lines, "")

When(cond, lines) == IF cond THEN lines ELSE <<>>

\* Lines between googleBlockStart and googleBlockEnd.
Block(lines) == <<"S">> \o lines \o <<"E">>

SSHHeader(f) ==
    Block((IF f.reqCerts /\ ~f.skey
           THEN <<"ca">>
           ELSE When(CertAuthentication /\ ~f.skey, <<"ca">>)
                \o <<IF f.skey THEN "keys_sk" ELSE "keys">>)
          \o When(f.twofactor, <<"2fa">>))

SSHFooter(f) == Block(<<"include">> \o When(f.twofactor, <<"match">>))

UpdateSSHConfig(lines, f) ==
    LET filtered == FilterGoogleLines(lines)
    IN  Joined(IF f.enable THEN SSHHeader(f) \o filtered \o SSHFooter(f) ELSE filtered)

UpdatePAMsshdPamless(lines, f) ==
    LET filtered == FilterGoogleLines(lines)
        top == Block(When(f.twofactor, <<"pam_login">>) \o <<"pam_group">>)
    IN  Joined(IF f.enable THEN top \o filtered \o Block(<<"pam_mkhomedir">>) ELSE filtered)

UpdateGroupConf(lines, f) ==
    Joined(FilterGoogleLines(lines) \o When(f.enable, <<"C", "video">>))

Update(file, lines, f) ==
    CASE file = "sshd" -> UpdateSSHConfig(lines, f)
      [] file = "pam" -> UpdatePAMsshdPamless(lines, f)
      [] file = "group" -> UpdateGroupConf(lines, f)

\* A database line names OS Login not at all, as the agent does, or otherwise; a file
\* without such lines stays as it is.
UpdateNSSwitchConfig(suffix, f) ==
    CASE f.enable /\ suffix = "none" -> "ours"
      [] ~f.enable /\ suffix = "ours" -> "none"
      [] OTHER -> suffix

\* The file is written only when a line was removed, with one more newline.
CleanupDeprecatedLines(lines) ==
    LET kept == SelectSeq(lines, LAMBDA l : l # Deprecated)
    IN  IF Len(kept) = Len(lines) THEN lines ELSE Joined(kept)

\* The lines that are in S, in their order.
KeepIn(S, part, line) == IF line \in S THEN Append(part, line) ELSE part
Only(S, lines) ==
    LET part[n \in 0..Len(lines)] ==
            IF n = 0 THEN <<>> ELSE KeepIn(S, part[n - 1], lines[n])
    IN  part[Len(lines)]

\* Every block is closed, every comment is followed by what it marks, and the
\* agent's lines, only they, are inside.
Clean(lines) ==
    LET end == FilterLoop(lines)
    IN  /\ ~end.google /\ ~end.block
        /\ ToSet(end.out) \subseteq UserLines \cup {""}

\* That holds of the file, and of the file without its final newline.
WellMarked(lines) == Clean(lines) /\ (Last(lines) = "" => Clean(Front(lines)))

\* The agent finds what it, or an earlier version of it, has left, in files of which
\* an administrator has put no line between its own.
ASSUME FilesAssumption ==
    \A lines \in InitialFiles :
        WellMarked(lines) /\ Only(UserLines, FilterLoop(lines).out) = Only(UserLines, lines)

Init ==
    /\ flags \in MdFlags
    /\ newFlags = NoFlags /\ oldFlags = NoFlags
    /\ firstRun = TRUE
    /\ \E lines \in InitialFiles : conf = [file \in Files |-> lines]
    /\ nss \in {"none", "foreign"}
    /\ su \in {<<"x", "">>, <<"x", Deprecated, "">>}
    /\ pc = Idle
    /\ proposed = <<>>
    /\ userPart = [file \in Files |-> Only(UserLines, conf[file])]
    /\ torn = {}
    /\ changes = 0 /\ edits = 0 /\ faults = 0 /\ crashes = 0

-----------------------------------------------------------------------------
(* The environment.                                                        *)

MetadataChange ==
    /\ changes < MaxChanges
    /\ changes' = changes + 1
    /\ flags' \in MdFlags \ {flags}
    /\ UNCHANGED <<mdVars, fileVars, pc, proposed, userPart, torn, edits, faults, crashes>>

\* An administrator adds a line at the top or at the bottom while the agent is
\* not in Set(): above an open comment or inside a block it would be the agent's.
EditFile(file, line) ==
    /\ pc = Idle /\ edits < MaxEdits
    /\ edits' = edits + 1
    /\ \/ /\ conf' = [conf EXCEPT ![file] = <<line>> \o @]
          /\ userPart' = [userPart EXCEPT ![file] = <<line>> \o @]
       \/ /\ Last(conf[file]) = ""
          /\ \E end \in {<<line>>, <<line, "">>} :
                conf' = [conf EXCEPT ![file] = Front(@) \o end]
          /\ userPart' = [userPart EXCEPT ![file] = Append(@, line)]
    /\ UNCHANGED <<flags, mdVars, nss, su, pc, proposed, torn, changes, faults, crashes>>

Crash ==
    /\ crashes < MaxCrashes
    /\ crashes' = crashes + 1
    /\ torn' = torn \cup {file \in Files \cup {"nss"} : pc = <<"write", file>>}
    /\ pc' = Idle
    /\ newFlags' = NoFlags /\ oldFlags' = NoFlags /\ firstRun' = TRUE
    /\ proposed' = <<>>
    /\ UNCHANGED <<flags, fileVars, userPart, changes, edits, faults>>

-----------------------------------------------------------------------------
(* osloginMgr.Set().                                                       *)

\* osloginMgr.Diff()
Diff == firstRun \/ oldFlags # flags

\* A metadata event, up to cleanupDeprecatedDirectives(), whose write of pam.d/su (a file
\* no property speaks of) is taken as one step.
HandleEvent ==
    /\ pc = Idle /\ Diff
    /\ newFlags' = flags
    /\ su' = CleanupDeprecatedLines(su)
    /\ pc' = <<"open", "sshd">>
    /\ UNCHANGED <<flags, oldFlags, firstRun, conf, nss, proposed, userPart, torn, boundVars>>

After(file) ==
    CASE file = "sshd" -> <<"open", "nss">>
      [] file = "nss" -> <<"open", "pam">>
      [] file = "pam" -> <<"open", "group">>
      [] file = "group" -> Done

\* The file is as proposed, or it cannot be read or opened.
SkipFile(file) ==
    /\ pc = <<"open", file>>
    /\ \/ Update(file, conf[file], newFlags) = conf[file] /\ UNCHANGED faults
       \/ faults < MaxFaults /\ faults' = faults + 1
    /\ pc' = After(file)
    /\ UNCHANGED <<flags, mdVars, fileVars, proposed, userPart, torn, changes, edits, crashes>>

\* writeConfigFile() truncates the file when it opens it.
OpenFile(file) ==
    /\ pc = <<"open", file>>
    /\ proposed' = Update(file, conf[file], newFlags)
    /\ proposed' # conf[file]
    /\ conf' = [conf EXCEPT ![file] = <<"">>]
    /\ pc' = <<"write", file>>
    /\ UNCHANGED <<flags, mdVars, nss, su, userPart, torn, boundVars>>

WriteFile(file) ==
    /\ pc = <<"write", file>>
    /\ conf' = [conf EXCEPT ![file] = proposed]
    /\ proposed' = <<>>
    /\ pc' = After(file)
    /\ UNCHANGED <<flags, mdVars, nss, su, userPart, torn, boundVars>>

\* The write fails (its error is ignored): the file stays empty.
WriteFileFails(file) ==
    /\ pc = <<"write", file>>
    /\ faults < MaxFaults /\ faults' = faults + 1
    /\ torn' = torn \cup {file}
    /\ proposed' = <<>>
    /\ pc' = After(file)
    /\ UNCHANGED <<flags, mdVars, fileVars, userPart, changes, edits, crashes>>

\* writeNSSwitchConfig(): nothing to write, or the file cannot be read or opened.
SkipNSSwitchConfig ==
    /\ pc = <<"open", "nss">>
    /\ \/ UpdateNSSwitchConfig(nss, newFlags) = nss /\ UNCHANGED faults
       \/ faults < MaxFaults /\ faults' = faults + 1
    /\ pc' = After("nss")
    /\ UNCHANGED <<flags, mdVars, fileVars, proposed, userPart, torn, changes, edits, crashes>>

\* The same writeConfigFile().
OpenNSSwitchConfig ==
    /\ pc = <<"open", "nss">>
    /\ UpdateNSSwitchConfig(nss, newFlags) # nss
    /\ proposed' = <<UpdateNSSwitchConfig(nss, newFlags)>>
    /\ nss' = "lost"
    /\ pc' = <<"write", "nss">>
    /\ UNCHANGED <<flags, mdVars, conf, su, userPart, torn, boundVars>>

WriteNSSwitchConfig ==
    /\ pc = <<"write", "nss">>
    /\ nss' = proposed[1]
    /\ proposed' = <<>>
    /\ pc' = After("nss")
    /\ UNCHANGED <<flags, mdVars, conf, su, userPart, torn, boundVars>>

\* Fault: the flags of the next event are taken for the ones handled.
SetDoneLatest ==
    /\ pc = Done
    /\ oldFlags' = flags /\ firstRun' = FALSE
    /\ pc' = Idle
    /\ UNCHANGED <<flags, newFlags, fileVars, proposed, userPart, torn, boundVars>>

\* The services are restarted and the callback ends.
SetDone ==
    /\ pc = Done
    /\ oldFlags' = newFlags /\ firstRun' = FALSE
    /\ pc' = Idle
    /\ UNCHANGED <<flags, newFlags, fileVars, proposed, userPart, torn, boundVars>>

AgentStep ==
    \/ HandleEvent \/ SkipNSSwitchConfig \/ OpenNSSwitchConfig \/ WriteNSSwitchConfig \/ SetDone
    \/ \E file \in Files : SkipFile(file) \/ OpenFile(file) \/ WriteFile(file)
    \/ \E file \in Files \cup {"nss"} : WriteFileFails(file)

Next ==
    \/ AgentStep \/ MetadataChange \/ Crash
    \/ \E file \in Files, line \in UserLines : EditFile(file, line)

Spec == Init /\ [][Next]_vars

-----------------------------------------------------------------------------
\* Type invariant of the manager and of its files.
TypeOK ==
    /\ {flags, newFlags, oldFlags} \subseteq Flags
    /\ firstRun \in BOOLEAN /\ torn \subseteq Files \cup {"nss"}
    /\ DOMAIN conf = Files /\ \A file \in Files : conf[file] # <<>> /\ ToSet(conf[file]) \subseteq Lines
    /\ nss \in {"none", "ours", "foreign", "lost"}
    /\ ToSet(su) \subseteq {"x", "", Deprecated}
    /\ pc \in {Idle, Done} \cup ({"open", "write"} \X (Files \cup {"nss"}))
    /\ changes \in 0..MaxChanges /\ edits \in 0..MaxEdits
    /\ faults \in 0..MaxFaults /\ crashes \in 0..MaxCrashes

\* Enabling, changing and disabling OS Login, in any order and with files that
\* cannot be opened, never removes, reorders or duplicates a line that is not
\* the agent's, whether or not the file ends in a newline.  A file loses its lines
\* only when the agent died, or the write failed, after that file was truncated.
UserLinesKept ==
    \A file \in Files :
        file \in torn \/ pc = <<"write", file>> \/ Only(UserLines, conf[file]) = userPart[file]

\* A file the agent has written is what it would propose again: the next Set()
\* with the same flags returns without writing, and the file does not grow.
Settled ==
    ~firstRun /\ edits = 0 => \A file \in Files : Update(file, conf[file], oldFlags) = conf[file]

AgentPart(lines) == Only(AgentLines, lines)

\* The agent's lines of every file are those of the flags f, and nsswitch.conf
\* names OS Login as they ask, unless its lines were lost.
Configured(f) ==
    /\ \A file \in Files : AgentPart(conf[file]) = AgentPart(Update(file, <<"">>, f))
    /\ nss # (IF f.enable THEN "none" ELSE "ours")
    /\ nss = "lost" => "nss" \in torn

\* "If the user disables OS login via metadata, the configuration changes will
\* be removed", and they are made when it is enabled: when no event is left that
\* Set() would handle, the files are as the flags ask, whenever the agent died,
\* and the next Set() finds nothing to write.  A file that could not be opened or
\* written is the only way to fail, and nsswitch.conf, which has no lines to add to
\* when the agent died between truncating it and writing it.
ConfigFollowsMetadata ==
    pc = Idle /\ faults = 0 =>
        /\ ~Diff => Configured(flags)
        /\ Settled
=============================================================================
