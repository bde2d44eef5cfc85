------------------------- MODULE CertRefreshProofs -------------------------
(***************************************************************************)
(* Theorems about CertRefresh, for any number of seconds, generations,     *)
(* faults and runs: what the link shows is only ever replaced as a whole   *)
(* (CredentialSwap is implemented), and directories do not pile up.        *)
(***************************************************************************)
EXTENDS CertRefresh, FiniteSetTheorems, TLAPS

-----------------------------------------------------------------------------
(* The inductive invariant.                                                *)

\* A run works in the directory of its second, which is that of the last run.
RunInv ==
    /\ pc = "idle" => now = NoTime
    /\ pc # "idle" => now \in Times /\ now = last
    /\ pc \notin {"idle", "mkdir"} => now \in DOMAIN dirs

\* The link leads to a directory, and nothing but config_status is written before
\* it is there.
LinkInv ==
    /\ link # NoTime => link \in DOMAIN dirs
    /\ link = NoTime =>
          /\ pc \in {"idle", "mkdir", "status", "stat"}
          /\ \A t \in DOMAIN dirs : dirs[t].cert = 0 /\ dirs[t].key = 0 /\ dirs[t].ca = 0
    /\ pc = "rename" => old \in {link, NoTime}
    /\ pc = "remove" => link = now

\* What the run has put into its directory by now, and that no directory holds a
\* newer certificate.
StatusWritten == {"stat", "identities", "cert", "key", "anchors", "ca", "symlink", "readlink", "rename"}
CertWritten == {"key", "anchors", "ca", "symlink", "readlink", "rename"}
AllWritten == {"symlink", "readlink", "rename"}

ContentInv ==
    /\ got <= gen
    /\ \A t \in DOMAIN dirs : dirs[t].cert <= gen
    /\ pc \in StatusWritten => dirs[now].status = 1
    /\ pc = "cert" => got > 0 /\ \A t \in DOMAIN dirs : dirs[t].cert <= got
    /\ pc \in CertWritten =>
          dirs[now].cert > 0 /\ \A t \in DOMAIN dirs : dirs[t].cert <= dirs[now].cert
    /\ pc = "key" => got = dirs[now].cert
    /\ pc \in CertWritten \ {"key"} => dirs[now].key = dirs[now].cert
    /\ pc = "ca" => got >= dirs[now].cert
    /\ pc \in AllWritten => dirs[now].ca >= dirs[now].cert

CertInv == TypeOK /\ RunInv /\ LinkInv /\ ContentInv

\* A run in the second of a failed one finds its directory, which then is counted
\* as left behind already, and ends at the temporary link.
Retried == pc \notin {"readlink", "rename", "remove"} /\ now \in temps

\* The linked directory is as good as left behind once oldTarget could not be read.
LeftBehind ==
    DOMAIN dirs \ ((IF pc = "rename" /\ old # link THEN {} ELSE {link})
                          \cup (IF Retried THEN {} ELSE {now})
                          \cup (IF pc = "remove" THEN {old} ELSE {}))

LeftInv ==
    /\ last \in temps => last \in DOMAIN dirs
    /\ IsFiniteSet(DOMAIN dirs)
    /\ Cardinality(LeftBehind) <= faults

-----------------------------------------------------------------------------
(* What the shared parts of the actions do.                                *)

\* os.WriteFile() changes one file of one directory.
LEMMA OneFileChanges ==
    ASSUME TypeOK, now \in DOMAIN dirs, NEW f \in Files, NEW v \in 0..MaxGen,
           dirs' = [dirs EXCEPT ![now][f] = v]
    PROVE  /\ DOMAIN dirs' = DOMAIN dirs
           /\ \A t \in DOMAIN dirs : dirs'[t] \in [Files -> 0..MaxGen]
           /\ \A t \in DOMAIN dirs \ {now} : dirs'[t] = dirs[t]
           /\ dirs'[now][f] = v
           /\ \A g \in Files \ {f} : dirs'[now][g] = dirs[now][g]
<1>1. dirs[now] \in [Files -> 0..MaxGen]
  BY DEF TypeOK
<1>2. DOMAIN dirs' = DOMAIN dirs
  OBVIOUS
<1>3. \A t \in DOMAIN dirs \ {now} : dirs'[t] = dirs[t]
  OBVIOUS
<1>4. dirs'[now] = [dirs[now] EXCEPT ![f] = v]
  OBVIOUS
<1>5. dirs'[now] \in [Files -> 0..MaxGen]
  BY <1>1, <1>4
<1> QED BY <1>1, <1>2, <1>3, <1>4, <1>5 DEF TypeOK

\* A second nothing is named after.
LEMMA NewSecondIsUnused == Unused # {} => NewSecond \in Unused
  BY DEF NewSecond

\* The program starts in CertInv.
LEMMA CertInit == Init => CertInv
  BY CertAssumption
  DEF Init, Empty, CertInv, TypeOK, RunInv, LinkInv, ContentInv, StatusWritten, CertWritten,
      AllWritten, Files

\* Every action keeps CertInv.
LEMMA CertStep == CertInv /\ [Next]_vars => CertInv'
<1> SUFFICES ASSUME CertInv, [Next]_vars PROVE CertInv'
  OBVIOUS
<1> TypeOK /\ RunInv /\ LinkInv /\ ContentInv
  BY DEF CertInv
<1> USE CertAssumption DEF fileVars, runVars, StatusWritten, CertWritten, AllWritten
<1>t. /\ gen \in 1..MaxGen /\ got \in 0..MaxGen /\ manual \in 0..MaxManual /\ faults \in 0..MaxFaults
      /\ \A t \in DOMAIN dirs : dirs[t] \in [Files -> 0..MaxGen]
      /\ \A t \in DOMAIN dirs : /\ dirs[t].cert \in 0..MaxGen /\ dirs[t].key \in 0..MaxGen
                                /\ dirs[t].ca \in 0..MaxGen /\ dirs[t].status \in 0..MaxGen
  BY DEF TypeOK, Files
<1>1. CASE Rotate
  <2>1. TypeOK'
    BY <1>1 DEF Rotate, TypeOK
  <2>2. RunInv' /\ LinkInv'
    BY <1>1 DEF Rotate, RunInv, LinkInv
  <2>3. ContentInv'
    BY <1>1, <1>t DEF Rotate, ContentInv
  <2> QED BY <2>1, <2>2, <2>3 DEF CertInv
<1>2. ASSUME EndRun, UNCHANGED <<dirs, link, gen>>, TypeOK' PROVE CertInv'
  <2>1. RunInv'
    BY <1>2 DEF EndRun, RunInv
  <2>2. LinkInv'
    BY <1>2 DEF EndRun, LinkInv
  <2>3. ContentInv'
    BY <1>2, <1>t DEF EndRun, ContentInv
  <2> QED BY <1>2, <2>1, <2>2, <2>3 DEF CertInv
<1>3. CASE Kill
  <2>1. CASE UNCHANGED dirs
    <3>1. TypeOK'
      BY <1>3, <2>1 DEF Kill, EndRun, Fault, TypeOK
    <3> QED BY <1>3, <2>1, <3>1, <1>2 DEF Kill
  <2>2. CASE pc \in Files /\ dirs' = [dirs EXCEPT ![now][pc] = 0]
    <3>1. now \in DOMAIN dirs
      BY <2>2 DEF Files, RunInv
    <3>2. /\ DOMAIN dirs' = DOMAIN dirs
          /\ \A t \in DOMAIN dirs : dirs'[t] \in [Files -> 0..MaxGen]
          /\ \A t \in DOMAIN dirs \ {now} : dirs'[t] = dirs[t]
          /\ dirs'[now][pc] = 0
          /\ \A g \in Files \ {pc} : dirs'[now][g] = dirs[now][g]
      <4>1. ASSUME NEW f \in Files, f = pc
            PROVE  /\ DOMAIN dirs' = DOMAIN dirs
                   /\ \A t \in DOMAIN dirs : dirs'[t] \in [Files -> 0..MaxGen]
                   /\ \A t \in DOMAIN dirs \ {now} : dirs'[t] = dirs[t]
                   /\ dirs'[now][f] = 0
                   /\ \A g \in Files \ {f} : dirs'[now][g] = dirs[now][g]
        <5>1. dirs' = [dirs EXCEPT ![now][f] = 0] /\ 0 \in 0..MaxGen
          BY <2>2, <4>1
        <5> QED BY <3>1, <5>1, OneFileChanges
      <4> QED BY <2>2, <4>1
    <3>3. \A t \in DOMAIN dirs, g \in Files : dirs'[t][g] = dirs[t][g] \/ dirs'[t][g] = 0
      BY <3>2
    <3>4. TypeOK'
      BY <1>3, <2>2, <3>2 DEF Kill, EndRun, Fault, TypeOK
    <3>5. RunInv'
      BY <1>3, <3>2 DEF Kill, EndRun, RunInv
    <3>6. LinkInv'
      BY <1>3, <3>2, <3>3 DEF Kill, EndRun, LinkInv, Files
    <3>7. ContentInv'
      BY <1>3, <3>2, <3>3, <1>t DEF Kill, EndRun, ContentInv, Files
    <3> QED BY <3>4, <3>5, <3>6, <3>7 DEF CertInv
  <2> QED BY <1>3, <2>1, <2>2 DEF Kill
<1>4. CASE Reboot
  <2>1. TypeOK'
    BY <1>4 DEF Reboot, EndRun, Fault, TypeOK
  <2>2. RunInv' /\ LinkInv'
    BY <1>4 DEF Reboot, EndRun, RunInv, LinkInv
  <2>3. ContentInv'
    BY <1>4, <1>t DEF Reboot, EndRun, ContentInv
  <2> QED BY <2>1, <2>2, <2>3 DEF CertInv
<1>5. CASE TimerRun \/ ManualRun
  <2>1. PICK s \in Times : Begin(s) /\ manual' \in 0..MaxManual
    BY <1>5, <1>t, NewSecondIsUnused DEF TimerRun, ManualRun, Unused, TypeOK
  <2>2. TypeOK'
    BY <2>1 DEF Begin, TypeOK
  <2>3. RunInv' /\ LinkInv'
    BY <2>1 DEF Begin, RunInv, LinkInv
  <2>4. ContentInv'
    BY <2>1 DEF Begin, ContentInv
  <2> QED BY <2>2, <2>3, <2>4 DEF CertInv
<1>6. CASE Fail
  <2>1. TypeOK'
    BY <1>6 DEF Fail, EndRun, Fault, TypeOK
  <2> QED BY <1>6, <2>1, <1>2 DEF Fail
<1>7. CASE MkdirAll
  <2>1. /\ pc = "mkdir" /\ pc' = "status" /\ now \in Times
        /\ UNCHANGED <<gen, link, temps, now, old, got, last, manual, faults>>
        /\ DOMAIN dirs' = DOMAIN dirs \cup {now}
        /\ \A t \in DOMAIN dirs : dirs'[t] = dirs[t]
        /\ now \notin DOMAIN dirs => dirs'[now] = Empty
    BY <1>7 DEF MkdirAll, RunInv
  <2>2. /\ Empty \in [Files -> 0..MaxGen] /\ Empty.cert = 0 /\ Empty.key = 0 /\ Empty.ca = 0
    BY DEF Empty, Files
  <2>3. TypeOK'
    BY <2>1, <2>2 DEF TypeOK, Files
  <2>4. RunInv' /\ LinkInv'
    BY <2>1, <2>2 DEF RunInv, LinkInv
  <2>5. ContentInv'
    BY <2>1, <2>2, <1>t DEF ContentInv
  <2> QED BY <2>3, <2>4, <2>5 DEF CertInv
<1>8. CASE CreateSymlink
  <2>1. /\ pc = "stat" /\ pc' = "identities" /\ now \in DOMAIN dirs /\ now # NoTime
        /\ UNCHANGED <<gen, dirs, temps, now, old, got, last, manual, faults>>
        /\ link' = IF link = NoTime THEN now ELSE link
    BY <1>8 DEF CreateSymlink, RunInv, LinkInv
  <2>2. TypeOK'
    BY <2>1 DEF TypeOK
  <2>3. RunInv' /\ LinkInv'
    BY <2>1 DEF RunInv, LinkInv
  <2>4. ContentInv'
    BY <2>1 DEF ContentInv
  <2> QED BY <2>2, <2>3, <2>4 DEF CertInv
<1>9. CASE GetIdentities \/ GetTrustAnchors
  <2>1. TypeOK'
    BY <1>9 DEF GetIdentities, GetTrustAnchors, Get, TypeOK, Files
  <2>2. RunInv' /\ LinkInv'
    BY <1>9 DEF GetIdentities, GetTrustAnchors, Get, RunInv, LinkInv
  <2>3. ContentInv'
    BY <1>9, <1>t DEF GetIdentities, GetTrustAnchors, Get, ContentInv, RunInv
  <2> QED BY <2>1, <2>2, <2>3 DEF CertInv
<1>10. ASSUME NEW f \in Files, NEW v \in 0..MaxGen, NEW next, WriteFile(f, v, next),
              <<f, v, next>> \in {<<"status", 1, "stat">>, <<"cert", got, "key">>,
                                  <<"key", got, "anchors">>, <<"ca", got, "symlink">>}
       PROVE  CertInv'
  <2>1. /\ pc = f /\ pc' = next /\ now \in DOMAIN dirs
        /\ UNCHANGED <<gen, link, temps, now, old, got, last, manual, faults>>
    BY <1>10 DEF WriteFile, RunInv, Files
  <2>2. /\ DOMAIN dirs' = DOMAIN dirs
        /\ \A t \in DOMAIN dirs : dirs'[t] \in [Files -> 0..MaxGen]
        /\ \A t \in DOMAIN dirs \ {now} : dirs'[t] = dirs[t]
        /\ dirs'[now][f] = v
        /\ \A g \in Files \ {f} : dirs'[now][g] = dirs[now][g]
    BY <1>10, <2>1, OneFileChanges DEF WriteFile
  <2>3. TypeOK'
    BY <1>10, <2>1, <2>2 DEF TypeOK, Files
  <2>4. RunInv' /\ LinkInv'
    BY <1>10, <2>1, <2>2 DEF RunInv, LinkInv, Files
  <2>5. ContentInv'
    <3>1. CASE f = "status"
      BY <1>10, <1>t, <2>1, <2>2, <3>1 DEF ContentInv, Files
    <3>2. CASE f = "cert"
      BY <1>10, <1>t, <2>1, <2>2, <3>2 DEF ContentInv, Files
    <3>3. CASE f = "key"
      BY <1>10, <1>t, <2>1, <2>2, <3>3 DEF ContentInv, Files
    <3>4. CASE f = "ca"
      BY <1>10, <1>t, <2>1, <2>2, <3>4 DEF ContentInv, Files
    <3> QED BY <3>1, <3>2, <3>3, <3>4 DEF Files
  <2> QED BY <2>3, <2>4, <2>5 DEF CertInv
<1>11. CASE WriteStatus \/ WriteCertificate \/ WritePrivateKey \/ WriteTrustAnchors
  BY <1>10, <1>11, <1>t DEF WriteStatus, WriteCertificate, WritePrivateKey, WriteTrustAnchors, Files
<1>12. CASE TempSymlink
  <2>1. temps' \subseteq Times
    BY <1>12 DEF TempSymlink, TypeOK, RunInv
  <2>2. TypeOK'
    BY <1>12, <2>1 DEF TempSymlink, EndRun, TypeOK
  <2>3. CASE EndRun
    BY <1>12, <1>2, <2>2, <2>3 DEF TempSymlink
  <2>4. CASE pc' = "readlink" /\ UNCHANGED <<now, old, got>>
    <3>1. RunInv' /\ LinkInv'
      BY <1>12, <2>4 DEF TempSymlink, RunInv, LinkInv
    <3>2. ContentInv'
      BY <1>12, <2>4 DEF TempSymlink, ContentInv
    <3> QED BY <2>2, <3>1, <3>2 DEF CertInv
  <2> QED BY <1>12, <2>3, <2>4 DEF TempSymlink
<1>13. CASE ReadOldTarget \/ ReadOldTargetFails \/ RotateSymlink
  <2>1. now \in Times /\ now # NoTime /\ now \in DOMAIN dirs
    BY <1>13 DEF ReadOldTarget, ReadOldTargetFails, Fault, RotateSymlink, RunInv
  <2>2. TypeOK'
    BY <1>13, <2>1 DEF ReadOldTarget, ReadOldTargetFails, Fault, RotateSymlink, TypeOK
  <2>3. RunInv' /\ LinkInv'
    BY <1>13, <2>1 DEF ReadOldTarget, ReadOldTargetFails, Fault, RotateSymlink, RunInv, LinkInv
  <2>4. ContentInv'
    BY <1>13 DEF ReadOldTarget, ReadOldTargetFails, Fault, RotateSymlink, ContentInv
  <2> QED BY <2>2, <2>3, <2>4 DEF CertInv
<1>14. CASE RemoveOldTarget
  <2>1. /\ DOMAIN dirs' \subseteq DOMAIN dirs /\ \A t \in DOMAIN dirs' : dirs'[t] = dirs[t]
        /\ link \in DOMAIN dirs => link \in DOMAIN dirs'
        /\ UNCHANGED <<gen, link, temps, last, manual, faults>> /\ pc = "remove" /\ EndRun
    BY <1>14 DEF RemoveOldTarget
  <2>2. TypeOK'
    BY <2>1 DEF EndRun, TypeOK
  <2>3. RunInv' /\ LinkInv'
    BY <2>1 DEF EndRun, RunInv, LinkInv
  <2>4. ContentInv'
    BY <2>1, <1>t DEF EndRun, ContentInv
  <2> QED BY <2>2, <2>3, <2>4 DEF CertInv
<1>15. CASE UNCHANGED vars
  BY <1>15 DEF vars, CertInv, TypeOK, RunInv, LinkInv, ContentInv
<1> QED
  BY <1>1, <1>3, <1>4, <1>5, <1>6, <1>7, <1>8, <1>9, <1>11, <1>12, <1>13, <1>14, <1>15
  DEF Next, RunStep

\* The contents of the directories, and where a run is, go together as CertInv
\* says; type correctness is part of it.
THEOREM CertCorrect == Spec => []CertInv
  BY CertInit, CertStep, PTL DEF Spec

-----------------------------------------------------------------------------
(* CredentialSwap is implemented.                                          *)

\* What a directory holds, and what CredentialSwap shows, are of one type.
LEMMA DirectoryHoldsContents == \A c \in [Files -> 0..MaxGen] : c \in Swap!Contents
<1> TAKE c \in [Files -> 0..MaxGen]
<1>1. c = [status |-> c["status"], cert |-> c["cert"], key |-> c["key"], ca |-> c["ca"]]
  BY DEF Files
<1>2. c["status"] \in 0..MaxGen /\ c["cert"] \in 0..MaxGen /\ c["key"] \in 0..MaxGen
      /\ c["ca"] \in 0..MaxGen
  BY DEF Files
<1> QED BY <1>1, <1>2 DEF Swap!Contents

\* A step that leaves the link and the directory behind it alone shows nothing.
LEMMA NothingShown ==
    ASSUME UNCHANGED link,
           link \in DOMAIN dirs <=> link \in DOMAIN dirs',
           link \in DOMAIN dirs => dirs'[link] = dirs[link]
    PROVE  Swap!Next
<1>1. Path' = Path /\ Shown' = Shown
  BY DEF Path, Shown
<1>2. WritesShown' \in BOOLEAN
  BY DEF WritesShown
<1> QED BY <1>1, <1>2 DEF Swap!Next, Swap!Reopen

\* A step that changes files of the run's own directory is a Write of
\* CredentialSwap when the link leads there, and is not seen when it does not.
LEMMA OwnDirectoryChanges ==
    ASSUME CertInv, UNCHANGED link, pc \in Files,
           DOMAIN dirs' = DOMAIN dirs,
           dirs'[now] \in [Files -> 0..MaxGen],
           \A t \in DOMAIN dirs \ {now} : dirs'[t] = dirs[t]
    PROVE  Swap!Next
<1>1. CASE link = now
  <2>1. now \in DOMAIN dirs /\ WritesShown
    BY <1>1 DEF CertInv, RunInv, WritesShown, Files
  <2>2. Path' = Path /\ Shown' = dirs'[now]
    BY <1>1, <2>1 DEF Path, Shown
  <2>3. Shown' \in Swap!Contents /\ WritesShown' \in BOOLEAN
    BY <2>2, DirectoryHoldsContents DEF WritesShown
  <2> QED BY <2>1, <2>2, <2>3 DEF Swap!Next, Swap!Write
<1>2. CASE link # now
  BY <1>2, NothingShown
<1> QED BY <1>1, <1>2

\* Every step of the program is a step of CredentialSwap or changes nothing there.
LEMMA SwapStep == CertInv /\ [Next]_vars => [Swap!Next]_Swap!vars
<1> SUFFICES ASSUME CertInv, [Next]_vars PROVE [Swap!Next]_Swap!vars
  OBVIOUS
<1> TypeOK /\ RunInv /\ LinkInv /\ ContentInv
  BY DEF CertInv
<1> USE CertAssumption DEF fileVars, runVars
<1>1. CASE Rotate \/ Fail \/ TimerRun \/ ManualRun \/ GetIdentities \/ GetTrustAnchors
           \/ TempSymlink \/ ReadOldTarget \/ ReadOldTargetFails
  <2>1. UNCHANGED <<link, dirs>>
    BY <1>1 DEF Rotate, Fail, TimerRun, ManualRun, Begin, GetIdentities, GetTrustAnchors, Get,
                TempSymlink, ReadOldTarget, ReadOldTargetFails
  <2> QED BY <2>1, NothingShown
<1>2. CASE Kill
  <2>1. UNCHANGED link
    BY <1>2 DEF Kill
  <2>2. CASE UNCHANGED dirs
    BY <2>1, <2>2, NothingShown
  <2>3. CASE pc \in Files /\ dirs' = [dirs EXCEPT ![now][pc] = 0]
    <3>1. now \in DOMAIN dirs
      BY <2>3 DEF RunInv, Files
    <3>2. ASSUME NEW f \in Files, f = pc PROVE dirs'[now] \in [Files -> 0..MaxGen]
      <4>1. dirs' = [dirs EXCEPT ![now][f] = 0] /\ 0 \in 0..MaxGen
        BY <2>3, <3>2
      <4> QED BY <3>1, <4>1, OneFileChanges
    <3>3. DOMAIN dirs' = DOMAIN dirs /\ \A t \in DOMAIN dirs \ {now} : dirs'[t] = dirs[t]
      BY <2>3
    <3> QED BY <2>1, <2>3, <3>2, <3>3, OwnDirectoryChanges
  <2> QED BY <1>2, <2>2, <2>3 DEF Kill
<1>3. CASE Reboot
  <2>1. link' = NoTime /\ DOMAIN dirs' = {} /\ pc' = "idle"
    BY <1>3 DEF Reboot, EndRun
  <2>2. Path' = "none" /\ Shown' = Swap!Nothing /\ WritesShown' = FALSE
    BY <2>1 DEF Path, Shown, WritesShown, Empty, Swap!Nothing
  <2> QED BY <2>2 DEF Swap!Next, Swap!Reboot
<1>4. CASE MkdirAll
  <2>1. link = NoTime \/ link \in DOMAIN dirs
    BY DEF LinkInv
  <2>2. link = NoTime => link \notin DOMAIN dirs /\ link # now
    BY <1>4 DEF TypeOK, MkdirAll, RunInv
  <2>3. /\ UNCHANGED link /\ DOMAIN dirs' = DOMAIN dirs \cup {now}
        /\ \A t \in DOMAIN dirs : dirs'[t] = dirs[t]
    BY <1>4 DEF MkdirAll
  <2> QED BY <2>1, <2>2, <2>3, NothingShown
<1>5. ASSUME NEW f \in Files, NEW v \in 0..MaxGen, NEW next, WriteFile(f, v, next)
      PROVE  Swap!Next
  <2>1. /\ pc = f /\ now \in DOMAIN dirs /\ UNCHANGED link
        /\ dirs' = [dirs EXCEPT ![now][f] = v]
    BY <1>5 DEF WriteFile, RunInv, Files
  <2>2. /\ DOMAIN dirs' = DOMAIN dirs /\ dirs'[now] \in [Files -> 0..MaxGen]
        /\ \A t \in DOMAIN dirs \ {now} : dirs'[t] = dirs[t]
    BY <2>1, OneFileChanges
  <2> QED BY <2>1, <2>2, OwnDirectoryChanges
<1>6. CASE WriteStatus \/ WriteCertificate \/ WritePrivateKey \/ WriteTrustAnchors
  <2>1. got \in 0..MaxGen /\ 1 \in 0..MaxGen
    BY DEF TypeOK
  <2> QED
    BY <1>5, <1>6, <2>1 DEF WriteStatus, WriteCertificate, WritePrivateKey, WriteTrustAnchors, Files
<1>7. CASE CreateSymlink
  <2>1. /\ pc = "stat" /\ pc' = "identities" /\ now \in DOMAIN dirs /\ now # NoTime
        /\ UNCHANGED <<dirs, now>> /\ link' = IF link = NoTime THEN now ELSE link
    BY <1>7 DEF CreateSymlink, RunInv, LinkInv
  <2>2. CASE link # NoTime
    BY <2>1, <2>2, NothingShown
  <2>3. CASE link = NoTime
    <3>1. dirs[now] \in [Files -> 0..MaxGen] /\ dirs[now]["status"] = 1
          /\ dirs[now]["cert"] = 0 /\ dirs[now]["key"] = 0 /\ dirs[now]["ca"] = 0
      BY <2>1, <2>3 DEF TypeOK, LinkInv, ContentInv, StatusWritten
    <3>2. dirs[now] = [status |-> 1, cert |-> 0, key |-> 0, ca |-> 0]
      BY <3>1 DEF Files
    <3>3. Path = "none" /\ Path' = "directory" /\ Shown' = dirs[now] /\ WritesShown'
      BY <2>1, <2>3 DEF Path, Shown, WritesShown
    <3>4. 1 \in 1..MaxGen /\ Shown' = [Swap!Nothing EXCEPT !.status = 1]
      BY <3>2, <3>3 DEF Swap!Nothing
    <3>5. WritesShown' \in BOOLEAN
      BY DEF WritesShown
    <3> QED BY <3>3, <3>4, <3>5 DEF Swap!Next, Swap!Appear
  <2> QED BY <2>2, <2>3
<1>8. CASE RotateSymlink
  <2>1. /\ pc = "rename" /\ link' = now /\ UNCHANGED dirs /\ now \in DOMAIN dirs /\ now # NoTime
        /\ link # NoTime /\ link \in DOMAIN dirs
    BY <1>8 DEF RotateSymlink, RunInv, LinkInv
  <2>2. Path = "directory" /\ Path' = "directory" /\ Shown = dirs[link] /\ Shown' = dirs[now]
    BY <2>1 DEF Path, Shown
  <2>3. Shown' \in Swap!Contents
    BY <2>1, <2>2, DirectoryHoldsContents DEF TypeOK
  <2>4. Swap!Whole(dirs[now]) /\ dirs[now].cert >= dirs[link].cert
    <3>1. dirs[now]["cert"] \in Nat /\ dirs[link]["cert"] \in Nat
      BY <2>1 DEF TypeOK, Files
    <3> QED BY <2>1, <3>1 DEF ContentInv, StatusWritten, CertWritten, AllWritten, Swap!Whole
  <2>5. WritesShown' \in BOOLEAN
    BY DEF WritesShown
  <2> QED BY <2>2, <2>3, <2>4, <2>5 DEF Swap!Next, Swap!Replace
<1>9. CASE RemoveOldTarget
  <2>1. /\ DOMAIN dirs' \subseteq DOMAIN dirs /\ \A t \in DOMAIN dirs' : dirs'[t] = dirs[t]
        /\ link \in DOMAIN dirs => link \in DOMAIN dirs'
        /\ UNCHANGED link
    BY <1>9 DEF RemoveOldTarget
  <2> QED BY <2>1, NothingShown
<1>10. CASE UNCHANGED vars
  BY <1>10 DEF vars, Swap!vars, Path, Shown, WritesShown
<1> QED
  BY <1>1, <1>2, <1>3, <1>4, <1>6, <1>7, <1>8, <1>9, <1>10 DEF Next, RunStep

\* The program implements CredentialSwap: what the workloads find at the link is
\* never half of one set of credentials and half of another but for a run in the
\* same second, and never gets older.
THEOREM ImplementsCredentialSwap == Spec => SwapsWhole
<1>1. Init => Swap!Init
  BY DEF Init, Path, Shown, WritesShown, Empty, Swap!Init, Swap!Nothing
<1> QED BY <1>1, SwapStep, CertCorrect, PTL DEF Spec, SwapsWhole, Swap!Spec

-----------------------------------------------------------------------------
(* Directories do not pile up.                                             *)

\* A set that has at most one element more.
LEMMA AtMostOneMore ==
    ASSUME NEW S, IsFiniteSet(S), NEW x, NEW T, T \subseteq S \cup {x}
    PROVE  IsFiniteSet(T) /\ Cardinality(T) <= Cardinality(S) + 1
<1>1. IsFiniteSet(S \cup {x}) /\ Cardinality(S \cup {x}) <= Cardinality(S) + 1
  <2>1. Cardinality(S) \in Nat
    BY FS_CardinalityType
  <2>2. /\ IsFiniteSet(S \cup {x})
        /\ Cardinality(S \cup {x}) = Cardinality(S) \/ Cardinality(S \cup {x}) = Cardinality(S) + 1
    BY FS_AddElement
  <2> QED BY <2>1, <2>2
<1>2. IsFiniteSet(T) /\ Cardinality(T) <= Cardinality(S \cup {x})
  BY <1>1, FS_Subset
<1> QED BY <1>1, <1>2, FS_CardinalityType

\* Every action keeps the count of directories left behind.
LEMMA LeftStep == CertInv /\ CertInv' /\ LeftInv /\ [Next]_vars => LeftInv'
<1> SUFFICES ASSUME CertInv, CertInv', LeftInv, [Next]_vars PROVE LeftInv'
  OBVIOUS
<1> TypeOK /\ TypeOK' /\ RunInv /\ LinkInv
  BY DEF CertInv
<1> USE CertAssumption DEF fileVars, runVars
<1>a. IsFiniteSet(DOMAIN dirs) /\ Cardinality(LeftBehind) <= faults /\ faults \in Nat
  BY DEF LeftInv, TypeOK
<1>b. LeftBehind \subseteq DOMAIN dirs /\ IsFiniteSet(LeftBehind) /\ Cardinality(LeftBehind) \in Nat
  BY <1>a, FS_Subset, FS_CardinalityType DEF LeftBehind
\* Most steps leave no more behind.
<1>c. ASSUME last' \in temps' => last' \in DOMAIN dirs', IsFiniteSet(DOMAIN dirs'),
             LeftBehind' \subseteq LeftBehind, faults' = faults
      PROVE  LeftInv'
  <2>1. Cardinality(LeftBehind') <= Cardinality(LeftBehind) /\ Cardinality(LeftBehind') \in Nat
    BY <1>b, <1>c, FS_Subset, FS_CardinalityType
  <2> QED BY <1>a, <1>b, <1>c, <2>1 DEF LeftInv
\* A run that fails or is killed leaves one directory behind.
<1>d. ASSUME EndRun, Fault, pc # "idle", DOMAIN dirs' = DOMAIN dirs, UNCHANGED <<link, temps, last>>
      PROVE  LeftInv'
  <2>1. LeftBehind' \subseteq LeftBehind \cup {IF pc = "remove" THEN old ELSE now}
    <3>1. LeftBehind' \subseteq DOMAIN dirs \ {link}
      BY <1>d DEF LeftBehind, EndRun
    <3>2. CASE pc = "remove"
      BY <3>1, <3>2 DEF LeftBehind, LinkInv
    <3>3. CASE pc # "remove"
      BY <3>1, <3>3 DEF LeftBehind
    <3> QED BY <3>2, <3>3
  <2>2. Cardinality(LeftBehind') <= Cardinality(LeftBehind) + 1
    BY <1>b, <2>1, AtMostOneMore
  <2>3. IsFiniteSet(LeftBehind') /\ Cardinality(LeftBehind') \in Nat
    BY <1>b, <2>1, AtMostOneMore, FS_CardinalityType
  <2>4. faults' = faults + 1
    BY <1>d DEF Fault
  <2> QED BY <1>a, <1>b, <1>d, <2>2, <2>3, <2>4 DEF LeftInv
<1>1. CASE Rotate \/ GetIdentities \/ GetTrustAnchors \/ ReadOldTarget \/ WriteStatus
           \/ WriteCertificate \/ WritePrivateKey \/ WriteTrustAnchors
  <2>1. DOMAIN dirs' = DOMAIN dirs /\ UNCHANGED <<link, temps, now, last, faults>>
    BY <1>1 DEF Rotate, GetIdentities, GetTrustAnchors, Get, ReadOldTarget, WriteFile,
                WriteStatus, WriteCertificate, WritePrivateKey, WriteTrustAnchors
  <2>2. \/ pc \notin {"rename", "remove"} /\ pc' # "remove" /\ Retried' = Retried
        \/ UNCHANGED <<pc, old>>
    BY <1>1 DEF Rotate, GetIdentities, GetTrustAnchors, Get, ReadOldTarget, WriteFile,
                WriteStatus, WriteCertificate, WritePrivateKey, WriteTrustAnchors, Retried
  <2>3. pc' = "rename" /\ pc # "rename" => old' = link
    BY <1>1 DEF Rotate, GetIdentities, GetTrustAnchors, Get, ReadOldTarget, WriteFile,
                WriteStatus, WriteCertificate, WritePrivateKey, WriteTrustAnchors, Files
  <2>4. LeftBehind' \subseteq LeftBehind
    BY <2>1, <2>2, <2>3 DEF LeftBehind, Retried
  <2> QED BY <1>a, <1>c, <2>1, <2>4 DEF LeftInv
<1>2. CASE Kill
  <2>1. DOMAIN dirs' = DOMAIN dirs
    BY <1>2 DEF Kill
  <2> QED BY <1>2, <1>d, <2>1 DEF Kill
<1>3. CASE Fail
  BY <1>3, <1>d DEF Fail
<1>12. CASE ReadOldTargetFails
  <2>1. /\ pc = "readlink" /\ pc' = "rename" /\ faults' = faults + 1
        /\ UNCHANGED <<dirs, link, temps, now, last>>
    BY <1>12 DEF ReadOldTargetFails, Fault
  <2>2. LeftBehind' \subseteq LeftBehind \cup {link}
    BY <2>1 DEF LeftBehind, Retried
  <2>3. Cardinality(LeftBehind') <= Cardinality(LeftBehind) + 1
    BY <1>b, <2>2, AtMostOneMore
  <2>4. IsFiniteSet(LeftBehind') /\ Cardinality(LeftBehind') \in Nat
    BY <1>b, <2>2, AtMostOneMore, FS_CardinalityType
  <2> QED BY <1>a, <1>b, <2>1, <2>3, <2>4 DEF LeftInv
<1>4. CASE Reboot
  <2>1. DOMAIN dirs' = {} /\ temps' = {}
    BY <1>4 DEF Reboot
  <2>2. LeftBehind' = {} /\ faults' \in Nat
    BY <2>1 DEF LeftBehind, TypeOK
  <2> QED BY <2>1, <2>2, FS_EmptySet DEF LeftInv
<1>5. CASE TimerRun \/ ManualRun
  <2>1. /\ pc = "idle" /\ pc' = "mkdir" /\ now' = last' /\ now = NoTime
        /\ UNCHANGED <<dirs, link, temps, faults>>
    BY <1>5 DEF TimerRun, ManualRun, Begin, RunInv
  <2>2. LeftBehind' \subseteq LeftBehind
    <3>1. NoTime \notin DOMAIN dirs
      BY DEF TypeOK
    <3> QED BY <2>1, <3>1 DEF LeftBehind
  <2>3. last' \in temps' => last' \in DOMAIN dirs'
    BY <1>5, <2>1, NewSecondIsUnused DEF TimerRun, ManualRun, Begin, Unused, LeftInv
  <2> QED BY <1>a, <1>c, <2>1, <2>2, <2>3
<1>6. CASE MkdirAll
  <2>1. /\ pc = "mkdir" /\ pc' = "status" /\ now = last
        /\ DOMAIN dirs' = DOMAIN dirs \cup {now} /\ UNCHANGED <<link, temps, now, last, faults>>
    BY <1>6 DEF MkdirAll, RunInv
  <2>2. Retried' = Retried /\ (Retried => now \in DOMAIN dirs)
    BY <2>1 DEF Retried, LeftInv
  <2>3. LeftBehind' \subseteq LeftBehind
    BY <2>1, <2>2 DEF LeftBehind
  <2>4. IsFiniteSet(DOMAIN dirs')
    BY <1>a, <2>1, FS_AddElement
  <2> QED BY <1>c, <2>1, <2>3, <2>4 DEF LeftInv
<1>7. CASE CreateSymlink
  <2>1. /\ pc = "stat" /\ pc' = "identities" /\ UNCHANGED <<dirs, temps, now, last, faults>>
        /\ link' = IF link = NoTime THEN now ELSE link
    BY <1>7 DEF CreateSymlink, LinkInv
  <2>2. Retried' = Retried /\ NoTime \notin DOMAIN dirs
    BY <2>1 DEF Retried, TypeOK
  <2>3. LeftBehind' \subseteq LeftBehind
    BY <2>1, <2>2 DEF LeftBehind
  <2> QED BY <1>a, <1>c, <2>1, <2>3 DEF LeftInv
<1>8. CASE TempSymlink
  <2>1. /\ pc = "symlink" /\ temps' = temps \cup {now} /\ UNCHANGED <<dirs, link, last, faults>>
        /\ now = last /\ now \in DOMAIN dirs
    BY <1>8 DEF TempSymlink, RunInv
  <2>2. LeftBehind' \subseteq LeftBehind
    <3>1. CASE now \in temps
      <4>1. pc' = "idle"
        BY <1>8, <3>1 DEF TempSymlink, EndRun
      <4> QED BY <2>1, <3>1, <4>1 DEF LeftBehind, Retried
    <3>2. CASE now \notin temps
      <4>1. pc' = "readlink" /\ now' = now
        BY <1>8, <3>2 DEF TempSymlink
      <4> QED BY <2>1, <4>1 DEF LeftBehind, Retried
    <3> QED BY <3>1, <3>2
  <2> QED BY <1>a, <1>c, <2>1, <2>2
<1>9. CASE RotateSymlink
  <2>1. /\ pc = "rename" /\ pc' = "remove" /\ link' = now /\ temps' = temps \ {now}
        /\ UNCHANGED <<dirs, now, old, last, faults>> /\ old \in {link, NoTime}
    BY <1>9 DEF RotateSymlink, LinkInv
  <2>2. LeftBehind' \subseteq LeftBehind
    BY <2>1 DEF LeftBehind, Retried
  <2> QED BY <1>a, <1>c, <2>1, <2>2 DEF LeftInv
<1>10. CASE RemoveOldTarget
  <2>1. /\ pc = "remove" /\ pc' = "idle" /\ link = now /\ now = last /\ now \in DOMAIN dirs
        /\ DOMAIN dirs' = DOMAIN dirs \ (IF old # link THEN {old} ELSE {})
        /\ UNCHANGED <<link, temps, last, faults>>
    BY <1>10 DEF RemoveOldTarget, EndRun, RunInv, LinkInv
  <2>2. LeftBehind' \subseteq LeftBehind
    BY <2>1 DEF LeftBehind, Retried
  <2>3. IsFiniteSet(DOMAIN dirs')
    BY <1>a, <2>1, FS_Subset
  <2> QED BY <1>c, <2>1, <2>2, <2>3
<1>11. CASE UNCHANGED vars
  BY <1>11 DEF vars, LeftInv, LeftBehind, Retried
<1> QED
  BY <1>1, <1>2, <1>3, <1>4, <1>5, <1>6, <1>7, <1>8, <1>9, <1>10, <1>11, <1>12
  DEF Next, RunStep

\* Each directory that is neither linked nor of the present run was left behind by
\* a run that failed, was killed or could not read the link, and none of these
\* leaves two behind.
THEOREM OldDirectoriesAreRemoved == Spec => []OldIsRemoved
<1>1. Init => LeftInv
  <2> SUFFICES ASSUME Init PROVE LeftInv
    OBVIOUS
  <2>1. DOMAIN dirs = {} /\ temps = {} /\ faults = 0
    BY DEF Init
  <2>2. LeftBehind = {}
    BY <2>1 DEF LeftBehind
  <2> QED BY <2>1, <2>2, FS_EmptySet DEF LeftInv
<1>2. LeftInv /\ TypeOK => OldIsRemoved
  <2> SUFFICES ASSUME LeftInv, TypeOK PROVE OldIsRemoved
    OBVIOUS
  <2> DEFINE Counted == DOMAIN dirs \ ({link, now} \cup IF pc = "remove" THEN {old} ELSE {})
  <2>1. Counted \subseteq LeftBehind /\ LeftBehind \subseteq DOMAIN dirs
    BY DEF LeftBehind
  <2>2. IsFiniteSet(LeftBehind) /\ Cardinality(LeftBehind) <= faults /\ faults \in Nat
    BY <2>1, FS_Subset DEF LeftInv, TypeOK
  <2>3. Cardinality(Counted) <= Cardinality(LeftBehind) /\ IsFiniteSet(Counted)
    BY <2>1, <2>2, FS_Subset
  <2>4. Cardinality(Counted) \in Nat /\ Cardinality(LeftBehind) \in Nat
    BY <2>2, <2>3, FS_CardinalityType
  <2>5. Cardinality(Counted) <= faults
    BY <2>2, <2>3, <2>4
  <2> QED BY <2>5 DEF OldIsRemoved
<1>3. CertInv => TypeOK
  BY DEF CertInv
<1> QED BY <1>1, <1>2, <1>3, LeftStep, CertCorrect, PTL DEF Spec
=============================================================================
