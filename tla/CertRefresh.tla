---------------------------- MODULE CertRefresh ----------------------------
(***************************************************************************)
(* gce_workload_cert_refresh: a program that a systemd timer starts every  *)
(* ten minutes.  A run writes the credentials it gets from the metadata    *)
(* server into a directory named after the current second and then lets   *)
(* the symbolic link the workloads use point to it.                        *)
(*                                                                         *)
(* The unit is of type oneshot: systemd starts no second run beside one    *)
(* that goes on.  Another one may well start in the same second, by        *)
(* `systemctl start'.                                                      *)
(***************************************************************************)
EXTENDS Naturals, FiniteSets

CONSTANTS
    Times,      \* seconds, as time.RFC3339 names them
    NoTime,
    MaxGen,     \* bound: generations of the credentials
    MaxFaults,  \* bound: failed requests and file operations, kills and reboots
    MaxManual   \* bound: runs in the second of the one before

ASSUME CertAssumption ==
    /\ NoTime \notin Times
    /\ MaxGen \in Nat \ {0} /\ MaxFaults \in Nat /\ MaxManual \in Nat

VARIABLES
    gen,      \* the generation the metadata server hands out
    dirs,     \* the content directories that exist, by their second
    link,     \* target of the symbolic link
    temps,    \* temporary links that exist
    pc,       \* where the run is
    now,      \* its second
    old,      \* oldTarget
    got,      \* generation of the last answer
    last,     \* the second of the last run
    manual,   \* runs in the second of the one before, so far
    faults    \* so far

fileVars == <<dirs, link, temps>>
runVars == <<pc, now, old, got, last, manual>>
vars == <<gen, fileVars, runVars, faults>>

Files == {"status", "cert", "key", "ca"}
Empty == [status |-> 0, cert |-> 0, key |-> 0, ca |-> 0]

Init ==
    /\ gen = 1
    /\ dirs = [t \in {} |-> Empty] /\ link = NoTime /\ temps = {}
    /\ pc = "idle" /\ now = NoTime /\ old = NoTime /\ got = 0 /\ last = NoTime
    /\ manual = 0
    /\ faults = 0

-----------------------------------------------------------------------------
(* The guest around the program.                                           *)

Rotate ==
    /\ gen < MaxGen /\ gen' = gen + 1
    /\ UNCHANGED <<fileVars, runVars, faults>>

Fault == faults < MaxFaults /\ faults' = faults + 1

EndRun == pc' = "idle" /\ now' = NoTime /\ old' = NoTime /\ got' = 0

\* The run is killed; a file it was just writing stays behind truncated.
Kill ==
    /\ pc # "idle" /\ Fault /\ EndRun
    /\ \/ UNCHANGED dirs
       \/ pc \in Files /\ dirs' = [dirs EXCEPT ![now][pc] = 0]
    /\ UNCHANGED <<gen, link, temps, last, manual>>

Reboot ==
    /\ Fault /\ EndRun
    /\ dirs' = [t \in {} |-> Empty] /\ link' = NoTime /\ temps' = {} /\ last' = NoTime
    /\ UNCHANGED <<gen, manual>>

-----------------------------------------------------------------------------
(* A run.  It ends without an effect when workload certificates are not    *)
(* enabled or their status cannot be read.                                 *)

\* isEnabled(), timeNow() and the request for the status.
Begin(second) ==
    /\ pc = "idle"
    /\ pc' = "mkdir" /\ now' = second /\ last' = second
    /\ UNCHANGED <<gen, fileVars, old, got, faults>>

\* A second no run has had.  Which one does not matter, and those nothing is named
\* after any more come back, to keep the number of states finite.
Unused == Times \ (DOMAIN dirs \cup temps \cup {link, last})
NewSecond == CHOOSE t \in Unused : TRUE

TimerRun == Unused # {} /\ Begin(NewSecond) /\ UNCHANGED manual

ManualRun ==
    /\ manual < MaxManual /\ last # NoTime
    /\ Begin(last)
    /\ manual' = manual + 1

\* Any other request or file operation fails, and the run with it.
Fail ==
    /\ pc \notin {"idle", "readlink"} /\ Fault /\ EndRun
    /\ UNCHANGED <<gen, fileVars, last, manual>>

MkdirAll ==
    /\ pc = "mkdir"
    /\ pc' = "status"
    /\ dirs' = [t \in DOMAIN dirs \cup {now} |-> IF t \in DOMAIN dirs THEN dirs[t] ELSE Empty]
    /\ UNCHANGED <<gen, link, temps, now, old, got, last, manual, faults>>

\* os.WriteFile() of one file, and where the run goes on.
WriteFile(file, generation, next) ==
    /\ pc = file
    /\ dirs' = [dirs EXCEPT ![now][file] = generation]
    /\ pc' = next
    /\ UNCHANGED <<gen, link, temps, now, old, got, last, manual, faults>>

WriteStatus == WriteFile("status", 1, "stat")

\* os.Stat() follows the link: one that points nowhere looks like none, and then
\* cannot be created.
CreateSymlink ==
    /\ pc = "stat"
    /\ link' = IF link = NoTime THEN now ELSE link
    /\ IF link \in DOMAIN dirs \cup {NoTime}
       THEN pc' = "identities" /\ UNCHANGED <<now, old, got>>
       ELSE EndRun
    /\ UNCHANGED <<gen, dirs, temps, last, manual, faults>>

\* getMetadata() of workload-identities, then of trust-anchors.
Get(from, next) ==
    /\ pc = from
    /\ pc' = next
    /\ got' = gen
    /\ UNCHANGED <<gen, fileVars, now, old, last, manual, faults>>

GetIdentities == Get("identities", "cert")
WriteCertificate == WriteFile("cert", got, "key")
WritePrivateKey == WriteFile("key", got, "anchors")
GetTrustAnchors == Get("anchors", "ca")
WriteTrustAnchors == WriteFile("ca", got, "symlink")

\* Fault: the temporary link has the same name in every run.
TempSymlinkFixed ==
    /\ pc = "symlink"
    /\ temps' = temps \cup {now}
    /\ IF temps = {} THEN pc' = "readlink" /\ UNCHANGED <<now, old, got>> ELSE EndRun
    /\ UNCHANGED <<gen, dirs, link, last, manual, faults>>

\* os.Symlink() does not replace a link an earlier run left behind.
TempSymlink ==
    /\ pc = "symlink"
    /\ temps' = temps \cup {now}
    /\ IF now \notin temps THEN pc' = "readlink" /\ UNCHANGED <<now, old, got>> ELSE EndRun
    /\ UNCHANGED <<gen, dirs, link, last, manual, faults>>

ReadOldTarget ==
    /\ pc = "readlink"
    /\ old' = link
    /\ pc' = "rename"
    /\ UNCHANGED <<gen, fileVars, now, got, last, manual, faults>>

\* The error of os.Readlink() is only logged: the run goes on without an oldTarget
\* and leaves the directory behind.
ReadOldTargetFails ==
    /\ pc = "readlink" /\ Fault
    /\ old' = NoTime
    /\ pc' = "rename"
    /\ UNCHANGED <<gen, fileVars, now, got, last, manual>>

\* Fault: oldTarget is read after the rename.
RotateSymlinkFirst ==
    /\ pc = "rename"
    /\ link' = now /\ temps' = temps \ {now} /\ old' = now
    /\ pc' = "remove"
    /\ UNCHANGED <<gen, dirs, now, got, last, manual, faults>>

RotateSymlink ==
    /\ pc = "rename"
    /\ link' = now /\ temps' = temps \ {now}
    /\ pc' = "remove"
    /\ UNCHANGED <<gen, dirs, now, old, got, last, manual, faults>>

\* Fault: oldTarget is not compared with newTarget.
RemoveOldTargetAlways ==
    /\ pc = "remove"
    /\ dirs' = [t \in DOMAIN dirs \ {old} |-> dirs[t]]
    /\ EndRun
    /\ UNCHANGED <<gen, link, temps, last, manual, faults>>

\* newTarget is what the link now points to.
RemoveOldTarget ==
    /\ pc = "remove"
    /\ dirs' = [t \in DOMAIN dirs \ (IF old # link THEN {old} ELSE {}) |-> dirs[t]]
    /\ EndRun
    /\ UNCHANGED <<gen, link, temps, last, manual, faults>>

RunStep ==
    \/ MkdirAll \/ WriteStatus \/ CreateSymlink
    \/ GetIdentities \/ WriteCertificate \/ WritePrivateKey
    \/ GetTrustAnchors \/ WriteTrustAnchors
    \/ TempSymlink \/ ReadOldTarget \/ RotateSymlink \/ RemoveOldTarget

Next ==
    \/ Rotate \/ Kill \/ Reboot
    \/ TimerRun \/ ManualRun \/ Fail \/ ReadOldTargetFails \/ RunStep

Spec == Init /\ [][Next]_vars

\* The timer goes off, and a run goes on until it ends.
FairSpec == Spec /\ WF_vars(TimerRun) /\ WF_vars(RunStep)

-----------------------------------------------------------------------------
\* Type invariant of the files and of the run.
TypeOK ==
    /\ gen \in 1..MaxGen
    /\ DOMAIN dirs \subseteq Times
    /\ \A t \in DOMAIN dirs : dirs[t] \in [Files -> 0..MaxGen]
    /\ link \in Times \cup {NoTime} /\ temps \subseteq Times
    /\ pc \in {"idle", "mkdir", "stat", "identities", "anchors", "symlink", "readlink", "rename",
               "remove"} \cup Files
    /\ now \in Times \cup {NoTime} /\ old \in Times \cup {NoTime} /\ last \in Times \cup {NoTime}
    /\ got \in 0..MaxGen /\ manual \in 0..MaxManual /\ faults \in 0..MaxFaults

\* What a workload finds at the link, and below it.
Path == IF link = NoTime THEN "none" ELSE IF link \in DOMAIN dirs THEN "directory" ELSE "broken link"
Shown == IF link \in DOMAIN dirs THEN dirs[link] ELSE Empty

\* A run is at work in the directory the link points to.
WritesShown == pc \notin {"idle", "mkdir"} /\ now = link

Swap == INSTANCE CredentialSwap WITH
            path <- Path, shown <- Shown, writing <- WritesShown

\* The program implements CredentialSwap: the link, once made, always leads to a
\* directory, and but for a run in the same second what is found there changes from
\* one matching set of files to another, never to an older one, whatever fails or
\* is killed on the way.
SwapsWhole == Swap!Spec

\* Content directories do not pile up: one that is neither linked nor of the
\* present run was left behind by a run in which something failed.
OldIsRemoved ==
    Cardinality(DOMAIN dirs \ ({link, now} \cup IF pc = "remove" THEN {old} ELSE {})) <= faults

\* Once the metadata stays the same, the workloads get it and keep it: no
\* left-over of a failed run (a directory, a temporary link, a half-written
\* directory behind the link) keeps the later ones from succeeding.
CredentialsGetFresh == <>[](Swap!Whole(Shown) /\ Shown.cert = gen)
=============================================================================
