--------------------------- MODULE ManagersProofs ---------------------------
(***************************************************************************)
(* Theorems about Managers, for any users, keys and descriptors and any    *)
(* number of changes, faults and restarts: what the accounts manager       *)
(* believes of the disk, how often logs are collected, and how often a     *)
(* password is set for a key.                                              *)
(***************************************************************************)
EXTENDS Managers, SequenceTheorems, WellFoundedInduction, TLAPS

-----------------------------------------------------------------------------
(* The inductive invariant of the Linux accounts.                          *)

\* The keys and the cache are kept by user.  (That the keys are sequences is left
\* to TLC: getUserKeys() is modelled with SelectSeq.)
Shape ==
    /\ DOMAIN ak = Users /\ DOMAIN temp = Users /\ DOMAIN sshKeys = Users
    /\ DOMAIN mdKeyMap = Users
    /\ faults \in Seq(FaultKinds)
    /\ todo \subseteq Users /\ gUsers \subseteq Users /\ gfile \subseteq Users
    /\ pc \notin {"idle", "users", "remove", "write"} => cur \in Users

\* A user is being taken off, and forgotten last.
BeingRemoved(u) == u = cur /\ pc \in {"ungroup", "removed"}

\* No temporary file was left behind: there is one while it is being put in place,
\* and it holds what is to become of the keys.
TempInv ==
    Failed \cap {"commit", "crash"} = {} =>
        /\ \A u \in Users : temp[u] = None \/ (u = cur /\ pc \in {"rename", "removerename"})
        /\ pc = "rename" => temp[cur] = mdKeyMap[cur]
        /\ pc = "removerename" => temp[cur] = None

\* Nothing failed but the creation of users: the cache is what is on disk, and
\* google_users names its users between updates.
TrackInv ==
    /\ \A u \in NoLogin : ak[u] = None /\ (pc \in {"rename", "removerename"} => u # cur)
    /\ \A u \in Users : ak[u] # None => u \in passwd
    /\ pc \in {"rename", "removerename"} => cur \in passwd
    /\ Failed \subseteq {"create", "group"} =>
          /\ ~gNil
          /\ \A u \in Users \ NoLogin : ak[u] = sshKeys[u] \/ BeingRemoved(u)
          /\ pc = "ungroup" \/ pc = "removed" => ak[cur] = None
          /\ pc = "idle" => gfile = {u \in Users : sshKeys[u] # None}

AccountsInv == Shape /\ TempInv /\ CacheMatchesDisk /\ TrackInv

-----------------------------------------------------------------------------
(* The inductive invariant of the diagnostics on Windows.                  *)

\* The program was started for a request once, or once more for every fault, and
\* the one that was just started is about to be recorded.
DiagnosticsInv ==
    /\ wFaults.number \in Nat
    /\ DOMAIN collected = Requests
    /\ \A r \in Requests :
        /\ collected[r] \in Nat
        /\ collected[r] <= wFaults.number
              + (IF r \in recorded \/ (wPc = "record" /\ r = wNew.request) THEN 1 ELSE 0)
    /\ wPc = "record" => mgr = "diagnostics"

-----------------------------------------------------------------------------
(* The accounts.                                                           *)

\* A fault is recorded, and no fault is forgotten.
LEMMA FaultRecorded ==
    ASSUME Shape, NEW kind, Fault(kind)
    PROVE  faults' \in Seq(FaultKinds) /\ kind \in Failed' /\ Failed \subseteq Failed'
<1>1. kind \in FaultKinds /\ faults' = Append(faults, kind) /\ faults \in Seq(FaultKinds)
  BY AccountsAssumption DEF Fault, Shape
<1>2. /\ faults' \in Seq(FaultKinds) /\ Len(faults') = Len(faults) + 1 /\ Len(faults) \in Nat
      /\ faults'[Len(faults) + 1] = kind
      /\ \A i \in 1..Len(faults) : faults'[i] = faults[i]
  BY <1>1, AppendProperties, LenProperties
<1>3. DOMAIN faults = 1..Len(faults) /\ DOMAIN faults' = 1..(Len(faults) + 1)
  BY <1>1, <1>2, LenProperties
<1>4. DOMAIN faults \subseteq DOMAIN faults' /\ Len(faults) + 1 \in DOMAIN faults'
  BY <1>2, <1>3
<1>5. kind \in Failed'
  BY <1>2, <1>4 DEF Failed
<1>6. Failed \subseteq Failed'
  BY <1>2, <1>3, <1>4 DEF Failed
<1> QED BY <1>2, <1>5, <1>6

\* A step that records a fault, or none.
LEMMA FaultsGrow ==
    ASSUME Shape, UNCHANGED faults \/ \E kind \in FaultKinds : Fault(kind)
    PROVE  faults' \in Seq(FaultKinds) /\ Failed \subseteq Failed'
<1>1. CASE UNCHANGED faults
  BY <1>1 DEF Shape, Failed
<1>2. CASE \E kind \in FaultKinds : Fault(kind)
  BY <1>2, FaultRecorded
<1> QED BY <1>1, <1>2

\* The accounts manager starts in AccountsInv.
LEMMA AccountsInit == Init => AccountsInv
<1> SUFFICES ASSUME Init PROVE AccountsInv
  OBVIOUS
<1>1. Shape
  BY DEF Init, Shape
<1>2. TempInv /\ CacheMatchesDisk
  BY DEF Init, TempInv, CacheMatchesDisk
<1>3. TrackInv
  BY AccountsAssumption DEF Init, TrackInv
<1> QED BY <1>1, <1>2, <1>3 DEF AccountsInv

\* Every action of the accounts manager keeps AccountsInv.
LEMMA AccountsStep == AccountsInv /\ [Next]_vars => AccountsInv'
<1> SUFFICES ASSUME AccountsInv, [Next]_vars PROVE AccountsInv'
  OBVIOUS
<1> Shape /\ TempInv /\ CacheMatchesDisk /\ TrackInv
  BY DEF AccountsInv
<1> USE AccountsAssumption
        DEF serverVars, accountVars, keyVars, mdVars, localVars, loopVars
<1>k. {"create", "group", "write", "remove", "commit", "read", "crash"} \subseteq FaultKinds
  BY DEF FaultKinds
<1>1. CASE ServerChange
  <2>1. Shape'
    BY <1>1 DEF ServerChange, Failed, Shape
  <2>2. TempInv'
    BY <1>1 DEF ServerChange, Failed, TempInv, Shape
  <2>3. CacheMatchesDisk'
    BY <1>1 DEF ServerChange, Failed, CacheMatchesDisk, Shape
  <2>4. TrackInv'
    BY <1>1 DEF ServerChange, Failed, TrackInv, BeingRemoved, Shape
  <2> QED BY <2>1, <2>2, <2>3, <2>4 DEF AccountsInv
<1>2. CASE \E k \in Keys : Expire(k)
  <2>0. UNCHANGED <<accountVars, keyVars, gfile, sshKeys, pc, localVars, loopVars, faults>> /\ Failed' = Failed
    BY <1>2 DEF Expire, Failed
  <2>1. Shape'
    BY <2>0 DEF Shape
  <2>2. TempInv'
    BY <2>0 DEF TempInv
  <2>3. CacheMatchesDisk'
    BY <2>0 DEF CacheMatchesDisk
  <2>4. TrackInv'
    BY <2>0 DEF TrackInv, BeingRemoved
  <2> QED BY <2>1, <2>2, <2>3, <2>4 DEF AccountsInv
<1>3. CASE Crash
  <2>1. faults' \in Seq(FaultKinds) /\ "crash" \in Failed'
    BY <1>3, FaultRecorded DEF Crash
  <2>2. Shape'
    BY <1>3, <2>1 DEF Crash, Restarted, Shape
  <2>3. TempInv' /\ CacheMatchesDisk'
    BY <2>1 DEF TempInv, CacheMatchesDisk
  <2>4. TrackInv'
    BY <1>3, <2>1 DEF Crash, Restarted, TrackInv, BeingRemoved
  <2> QED BY <2>2, <2>3, <2>4 DEF AccountsInv
<1>4. CASE HandleEvent
  <2>0. faults' \in Seq(FaultKinds) /\ Failed \subseteq Failed' /\ (gNil' => "read" \in Failed')
    BY <1>4, <1>k, FaultsGrow, FaultRecorded DEF HandleEvent
  <2>1. Shape'
    BY <1>4, <2>0 DEF HandleEvent, Shape
  <2>2. TempInv'
    BY <1>4, <2>0 DEF HandleEvent, TempInv
  <2>3. CacheMatchesDisk'
    BY <1>4, <2>0 DEF HandleEvent, CacheMatchesDisk
  <2>4. TrackInv'
    BY <1>4, <2>0 DEF HandleEvent, TrackInv, BeingRemoved
  <2> QED BY <2>1, <2>2, <2>3, <2>4 DEF AccountsInv
<1>5. CASE SkipEvent
  <2>1. Shape'
    BY <1>5 DEF SkipEvent, Failed, Shape
  <2>2. TempInv'
    BY <1>5 DEF SkipEvent, Failed, TempInv, Shape
  <2>3. CacheMatchesDisk'
    BY <1>5 DEF SkipEvent, Failed, CacheMatchesDisk, Shape
  <2>4. TrackInv'
    BY <1>5 DEF SkipEvent, Failed, TrackInv, BeingRemoved, Shape
  <2> QED BY <2>1, <2>2, <2>3, <2>4 DEF AccountsInv
<1>6. ASSUME NEW u \in Users, CreateUser(u) PROVE AccountsInv'
  <2>0. UNCHANGED <<faults, ak, temp, gfile>> /\ pc = "users" /\ passwd' = passwd \cup {u} /\ Failed' = Failed
    BY <1>6 DEF CreateUser, Failed
  <2>1. CASE gNil /\ Restarted
    <3>1. Shape'
      BY <2>0, <2>1 DEF Restarted, Shape
    <3>2. TempInv' /\ CacheMatchesDisk'
      BY <2>0, <2>1 DEF Restarted, TempInv, CacheMatchesDisk
    <3>3. TrackInv'
      BY <2>0, <2>1 DEF Restarted, TrackInv
    <3> QED BY <3>1, <3>2, <3>3 DEF AccountsInv
  <2>2. CASE ~gNil
    <3>0. /\ gUsers' = gUsers \cup {u} /\ cur' = u /\ todo' = todo \ {u} /\ pc' = "compare"
          /\ UNCHANGED <<sshKeys, mdKeyMap, gNil>>
      BY <1>6, <2>2 DEF CreateUser
    <3>1. Shape'
      BY <2>0, <3>0 DEF Shape
    <3>2. TempInv' /\ CacheMatchesDisk'
      BY <2>0, <3>0 DEF TempInv, CacheMatchesDisk
    <3>3. TrackInv'
      BY <2>0, <3>0 DEF TrackInv, BeingRemoved
    <3> QED BY <3>1, <3>2, <3>3 DEF AccountsInv
  <2> QED BY <1>6, <2>1, <2>2 DEF CreateUser
<1>7. ASSUME NEW u \in Users, CreateUserFails(u) PROVE AccountsInv'
  <2>0. faults' \in Seq(FaultKinds) /\ Failed \subseteq Failed'
    BY <1>7, <1>k, FaultsGrow DEF CreateUserFails
  <2>1. Shape'
    BY <1>7, <2>0 DEF CreateUserFails, Shape
  <2>2. TempInv'
    BY <1>7, <2>0 DEF CreateUserFails, TempInv, Shape
  <2>3. CacheMatchesDisk'
    BY <1>7, <2>0 DEF CreateUserFails, CacheMatchesDisk, Shape
  <2>4. TrackInv'
    BY <1>7, <2>0 DEF CreateUserFails, TrackInv, BeingRemoved, Shape
  <2> QED BY <2>1, <2>2, <2>3, <2>4 DEF AccountsInv
<1>8. ASSUME NEW u \in Users, ExistingUser(u) PROVE AccountsInv'
  <2>0. faults' \in Seq(FaultKinds) /\ Failed \subseteq Failed'
    BY <1>8, <1>k, FaultsGrow DEF ExistingUser
  <2>1. Shape'
    BY <1>8, <2>0 DEF ExistingUser, Shape
  <2>2. TempInv'
    BY <1>8, <2>0 DEF ExistingUser, TempInv, Shape
  <2>3. CacheMatchesDisk'
    BY <1>8, <2>0 DEF ExistingUser, CacheMatchesDisk, Shape
  <2>4. TrackInv'
    BY <1>8, <2>0 DEF ExistingUser, TrackInv, BeingRemoved, Shape
  <2> QED BY <2>1, <2>2, <2>3, <2>4 DEF AccountsInv
<1>9. CASE KeysUpToDate
  <2>1. Shape'
    BY <1>9 DEF KeysUpToDate, Failed, Shape
  <2>2. TempInv'
    BY <1>9 DEF KeysUpToDate, Failed, TempInv, Shape
  <2>3. CacheMatchesDisk'
    BY <1>9 DEF KeysUpToDate, Failed, CacheMatchesDisk, Shape
  <2>4. TrackInv'
    BY <1>9 DEF KeysUpToDate, Failed, TrackInv, BeingRemoved, Shape
  <2> QED BY <2>1, <2>2, <2>3, <2>4 DEF AccountsInv
<1>10. CASE UpdateKeys
  <2>0. Failed' = Failed
    BY <1>10 DEF UpdateKeys, Failed
  <2>1. Shape'
    BY <1>10 DEF UpdateKeys, WriteTemp, Shape
  <2>2. TempInv'
    BY <1>10, <2>0 DEF UpdateKeys, WriteTemp, Overlay, TempInv, Shape
  <2>3. CacheMatchesDisk'
    BY <1>10, <2>0 DEF UpdateKeys, WriteTemp, CacheMatchesDisk
  <2>4. TrackInv'
    BY <1>10, <2>0 DEF UpdateKeys, WriteTemp, TrackInv, BeingRemoved
  <2> QED BY <2>1, <2>2, <2>3, <2>4 DEF AccountsInv
<1>11. CASE UpdateKeysFails
  <2>0. /\ faults' \in Seq(FaultKinds) /\ Failed \subseteq Failed' /\ ~(Failed' \subseteq {"create", "group"})
        /\ "commit" \notin Failed' =>
              \/ temp' = temp /\ pc = "compare"
              \/ temp' = [temp EXCEPT ![cur] = None] /\ pc = "rename"
        /\ UNCHANGED ak
    <3>1. CASE pc = "compare" /\ Fault("write") /\ UNCHANGED keyVars
      <4>1. faults' \in Seq(FaultKinds) /\ Failed \subseteq Failed' /\ "write" \in Failed'
        BY <3>1, <1>k, FaultRecorded
      <4> QED BY <3>1, <4>1
    <3>2. CASE pc = "rename" /\ Fault("write") /\ temp' = [temp EXCEPT ![cur] = None] /\ UNCHANGED ak
      <4>1. faults' \in Seq(FaultKinds) /\ Failed \subseteq Failed' /\ "write" \in Failed'
        BY <3>2, <1>k, FaultRecorded
      <4> QED BY <3>2, <4>1
    <3>3. CASE pc = "rename" /\ Fault("commit") /\ UNCHANGED keyVars
      <4>1. faults' \in Seq(FaultKinds) /\ Failed \subseteq Failed' /\ "commit" \in Failed'
        BY <3>3, <1>k, FaultRecorded
      <4> QED BY <3>3, <4>1
    <3> QED BY <1>11, <3>1, <3>2, <3>3 DEF UpdateKeysFails, WriteFails, CommitFails
  <2>1. Shape'
    BY <1>11, <2>0 DEF UpdateKeysFails, WriteFails, CommitFails, Shape
  <2>2. TempInv'
    BY <1>11, <2>0 DEF UpdateKeysFails, TempInv, Shape
  <2>3. CacheMatchesDisk'
    BY <1>11, <2>0 DEF UpdateKeysFails, CacheMatchesDisk
  <2>4. TrackInv'
    BY <1>11, <2>0 DEF UpdateKeysFails, TrackInv
  <2> QED BY <2>1, <2>2, <2>3, <2>4 DEF AccountsInv
<1>12. CASE UpdateKeysDone
  <2>0. /\ Failed' = Failed /\ pc' = "users" /\ cur \in Users
        /\ \/ pc = "rename" /\ Rename
           \/ pc = "compare" /\ cur \in NoLogin /\ UNCHANGED <<ak, temp>>
        /\ sshKeys' = [sshKeys EXCEPT ![cur] = mdKeyMap[cur]]
        /\ UNCHANGED <<faults, passwd, gfile, mdKeyMap, gUsers, gNil, todo, cur>>
    BY <1>12 DEF UpdateKeysDone, Failed, Shape
  <2>1. Shape'
    BY <2>0 DEF Rename, Shape
  <2>2. TempInv'
    BY <2>0 DEF Rename, TempInv, Shape
  <2>3. CacheMatchesDisk'
    BY <2>0 DEF Rename, CacheMatchesDisk, TempInv, Shape
  <2>4. TrackInv'
    <3>1. CASE pc = "rename" /\ Rename
      BY <2>0, <3>1 DEF Rename, TrackInv, TempInv, BeingRemoved, Shape
    <3>2. CASE pc = "compare" /\ cur \in NoLogin /\ UNCHANGED <<ak, temp>>
      BY <2>0, <3>2 DEF TrackInv, BeingRemoved, Shape
    <3> QED BY <2>0, <3>1, <3>2
  <2> QED BY <2>1, <2>2, <2>3, <2>4 DEF AccountsInv
<1>13. CASE UsersDone
  <2>1. Shape'
    BY <1>13 DEF UsersDone, Failed, Shape
  <2>2. TempInv'
    BY <1>13 DEF UsersDone, Failed, TempInv, Shape
  <2>3. CacheMatchesDisk'
    BY <1>13 DEF UsersDone, Failed, CacheMatchesDisk, Shape
  <2>4. TrackInv'
    BY <1>13 DEF UsersDone, Failed, TrackInv, BeingRemoved, Shape
  <2> QED BY <2>1, <2>2, <2>3, <2>4 DEF AccountsInv
<1>14. ASSUME NEW u \in Users, RemoveNext(u) PROVE AccountsInv'
  <2>1. Shape'
    BY <1>14 DEF RemoveNext, Failed, Shape
  <2>2. TempInv'
    BY <1>14 DEF RemoveNext, Failed, TempInv, Shape
  <2>3. CacheMatchesDisk'
    BY <1>14 DEF RemoveNext, Failed, CacheMatchesDisk, Shape
  <2>4. TrackInv'
    BY <1>14 DEF RemoveNext, Failed, TrackInv, BeingRemoved, Shape
  <2> QED BY <2>1, <2>2, <2>3, <2>4 DEF AccountsInv
<1>15. CASE DeleteUser
  <2>1. Shape'
    BY <1>15 DEF DeleteUser, Failed, Shape
  <2>2. TempInv'
    BY <1>15 DEF DeleteUser, Failed, TempInv, Shape
  <2>3. CacheMatchesDisk'
    BY <1>15 DEF DeleteUser, Failed, CacheMatchesDisk, Shape
  <2>4. TrackInv'
    BY <1>15 DEF DeleteUser, Failed, TrackInv, BeingRemoved, Shape
  <2> QED BY <2>1, <2>2, <2>3, <2>4 DEF AccountsInv
<1>16. CASE RemoveKeys
  <2>0. Failed' = Failed
    BY <1>16 DEF RemoveKeys, Failed
  <2>1. Shape'
    BY <1>16 DEF RemoveKeys, WriteTemp, Shape
  <2>2. TempInv'
    BY <1>16, <2>0 DEF RemoveKeys, WriteTemp, Overlay, TempInv, Shape
  <2>3. CacheMatchesDisk'
    BY <1>16, <2>0 DEF RemoveKeys, WriteTemp, CacheMatchesDisk
  <2>4. TrackInv'
    BY <1>16, <2>0 DEF RemoveKeys, WriteTemp, TrackInv, BeingRemoved
  <2> QED BY <2>1, <2>2, <2>3, <2>4 DEF AccountsInv
<1>17. CASE RemoveKeysDone
  <2>0. /\ Failed' = Failed /\ pc' = "ungroup" /\ cur \in Users
        /\ \/ pc = "removerename" /\ Rename
           \/ pc = "removing" /\ cur \in NoLogin /\ UNCHANGED <<ak, temp>>
        /\ UNCHANGED <<faults, passwd, gfile, sshKeys, mdKeyMap, gUsers, gNil, todo, cur>>
    BY <1>17 DEF RemoveKeysDone, Failed, Shape
  <2>1. Shape'
    BY <2>0 DEF Rename, Shape
  <2>2. TempInv'
    BY <2>0 DEF Rename, TempInv, Shape
  <2>3. CacheMatchesDisk'
    BY <2>0 DEF Rename, CacheMatchesDisk, TempInv, Shape
  <2>4. TrackInv'
    <3>1. CASE pc = "removerename" /\ Rename
      BY <2>0, <3>1 DEF Rename, TrackInv, TempInv, BeingRemoved, Shape
    <3>2. CASE pc = "removing" /\ cur \in NoLogin /\ UNCHANGED <<ak, temp>>
      BY <2>0, <3>2 DEF TrackInv, BeingRemoved, Shape
    <3> QED BY <2>0, <3>1, <3>2
  <2> QED BY <2>1, <2>2, <2>3, <2>4 DEF AccountsInv
<1>18. CASE Ungroup
  <2>0. faults' \in Seq(FaultKinds) /\ Failed \subseteq Failed'
    BY <1>18, <1>k, FaultsGrow DEF Ungroup
  <2>1. Shape'
    BY <1>18, <2>0 DEF Ungroup, Shape
  <2>2. TempInv'
    BY <1>18, <2>0 DEF Ungroup, TempInv, Shape
  <2>3. CacheMatchesDisk'
    BY <1>18, <2>0 DEF Ungroup, CacheMatchesDisk, Shape
  <2>4. TrackInv'
    BY <1>18, <2>0 DEF Ungroup, TrackInv, BeingRemoved, Shape
  <2> QED BY <2>1, <2>2, <2>3, <2>4 DEF AccountsInv
<1>19. CASE RemoveFails
  <2>0. /\ faults' \in Seq(FaultKinds) /\ Failed \subseteq Failed'
        /\ Failed' \subseteq {"create", "group"} =>
              pc = "removing" /\ cur \notin passwd /\ UNCHANGED <<temp, faults>>
        /\ "commit" \notin Failed' =>
              \/ temp' = temp /\ pc = "removing"
              \/ temp' = [temp EXCEPT ![cur] = None] /\ pc = "removerename"
        /\ UNCHANGED ak
    <3>1. CASE pc = "removing" /\ cur \notin passwd /\ UNCHANGED <<keyVars, faults>>
      <4>1. faults' \in Seq(FaultKinds) /\ Failed' = Failed
        BY <3>1 DEF Shape, Failed
      <4> QED BY <3>1, <4>1
    <3>2. CASE pc = "removing" /\ Fault("remove") /\ UNCHANGED keyVars
      <4>1. faults' \in Seq(FaultKinds) /\ Failed \subseteq Failed' /\ "remove" \in Failed'
        BY <3>2, <1>k, FaultRecorded
      <4> QED BY <3>2, <4>1
    <3>3. CASE pc = "removerename" /\ CommitFails("remove")
      BY <3>3, <1>k, FaultRecorded DEF CommitFails
    <3> QED BY <1>19, <3>1, <3>2, <3>3 DEF RemoveFails, WriteFails
  <2>1. Shape'
    <3>1. DOMAIN temp' = Users
      BY <1>19 DEF RemoveFails, WriteFails, CommitFails, Shape
    <3> QED BY <1>19, <2>0, <3>1 DEF RemoveFails, Shape
  <2>2. TempInv'
    BY <1>19, <2>0 DEF RemoveFails, TempInv, Shape
  <2>3. CacheMatchesDisk'
    BY <1>19, <2>0 DEF RemoveFails, CacheMatchesDisk
  <2>4. TrackInv'
    <3>1. Failed' \subseteq {"create", "group"} => ak[cur] = None
      BY <1>19, <2>0 DEF TrackInv, Shape
    <3> QED BY <1>19, <2>0, <3>1 DEF RemoveFails, TrackInv, BeingRemoved
  <2> QED BY <2>1, <2>2, <2>3, <2>4 DEF AccountsInv
<1>20. CASE ForgetUser
  <2>1. Shape'
    BY <1>20 DEF ForgetUser, Failed, Shape
  <2>2. TempInv'
    BY <1>20 DEF ForgetUser, Failed, TempInv, Shape
  <2>3. CacheMatchesDisk'
    BY <1>20 DEF ForgetUser, Failed, CacheMatchesDisk, Shape
  <2>4. TrackInv'
    BY <1>20 DEF ForgetUser, Failed, TrackInv, BeingRemoved, Shape
  <2> QED BY <2>1, <2>2, <2>3, <2>4 DEF AccountsInv
<1>21. CASE TruncateUsersFile
  <2>1. Shape'
    BY <1>21 DEF TruncateUsersFile, Failed, Shape
  <2>2. TempInv'
    BY <1>21 DEF TruncateUsersFile, Failed, TempInv, Shape
  <2>3. CacheMatchesDisk'
    BY <1>21 DEF TruncateUsersFile, Failed, CacheMatchesDisk, Shape
  <2>4. TrackInv'
    BY <1>21 DEF TruncateUsersFile, Failed, TrackInv, BeingRemoved, Shape
  <2> QED BY <2>1, <2>2, <2>3, <2>4 DEF AccountsInv
<1>22. CASE WriteUsersFile
  <2>1. Shape'
    BY <1>22 DEF WriteUsersFile, Failed, Shape
  <2>2. TempInv'
    BY <1>22 DEF WriteUsersFile, Failed, TempInv, Shape
  <2>3. CacheMatchesDisk'
    BY <1>22 DEF WriteUsersFile, Failed, CacheMatchesDisk, Shape
  <2>4. TrackInv'
    BY <1>22 DEF WriteUsersFile, Failed, TrackInv, BeingRemoved, Shape
  <2> QED BY <2>1, <2>2, <2>3, <2>4 DEF AccountsInv
<1>23. CASE WriteUsersFileFails
  <2>0. faults' \in Seq(FaultKinds) /\ Failed \subseteq Failed' /\ "write" \in Failed'
    BY <1>23, <1>k, FaultRecorded DEF WriteUsersFileFails
  <2>1. Shape'
    BY <1>23, <2>0 DEF WriteUsersFileFails, Shape
  <2>2. TempInv'
    BY <1>23, <2>0 DEF WriteUsersFileFails, TempInv
  <2>3. CacheMatchesDisk'
    BY <1>23, <2>0 DEF WriteUsersFileFails, CacheMatchesDisk
  <2>4. TrackInv'
    BY <1>23, <2>0 DEF WriteUsersFileFails, TrackInv
  <2> QED BY <2>1, <2>2, <2>3, <2>4 DEF AccountsInv
<1>24. CASE UNCHANGED vars
  BY <1>24 DEF vars, AccountsInv, Shape, TempInv, CacheMatchesDisk, TrackInv, BeingRemoved, Failed
<1> QED
  BY <1>1, <1>2, <1>3, <1>4, <1>5, <1>6, <1>7, <1>8, <1>9, <1>10, <1>11, <1>12, <1>13, <1>14, <1>15,
     <1>16, <1>17, <1>18, <1>19, <1>20, <1>21, <1>22, <1>23, <1>24
  DEF Next, AgentStep

\* The cache, the disk and google_users go together as AccountsInv says, on either
\* platform.
THEOREM AccountsCorrect == ManagersSpec => []AccountsInv
<1>1. ManagersInit => AccountsInv
  BY AccountsInit DEF ManagersInit
<1>2. AccountsInv /\ [ManagersNext]_allVars => AccountsInv'
  <2>1. [ManagersNext]_allVars => [Next]_vars
    BY DEF ManagersNext, LinuxNext, WindowsNext, allVars
  <2> QED BY <2>1, AccountsStep
<1> QED BY <1>1, <1>2, PTL DEF ManagersSpec

\* A user whose keys are skipped, because the cache holds them, has them on disk.
THEOREM CacheIsRight == ManagersSpec => []CacheMatchesDisk
<1>1. AccountsInv => CacheMatchesDisk
  BY DEF AccountsInv
<1> QED BY <1>1, AccountsCorrect, PTL

\* A user who holds keys of the agent's is in google_users between updates, however
\* many users could not be created or put into groups.
THEOREM UsersWithKeysAreTracked == ManagersSpec => []KeysTracked
<1>1. AccountsInv => KeysTracked
  <2> SUFFICES ASSUME AccountsInv, pc = "idle", Failed \subseteq {"create", "group"},
                      NEW u \in Users, ak[u] # None
               PROVE  u \in gfile
    BY DEF KeysTracked
  <2>1. u \notin NoLogin /\ ak[u] = sshKeys[u]
    BY DEF AccountsInv, TrackInv, BeingRemoved
  <2> QED BY <2>1 DEF AccountsInv, TrackInv
<1> QED BY <1>1, AccountsCorrect, PTL

-----------------------------------------------------------------------------
(* The diagnostics.                                                        *)

\* What a step may do that starts no program: it fails once at most, and only a step
\* that fails gives a request up that is yet to be recorded.
Bystander ==
    /\ UNCHANGED <<mgr, recorded, collected>>
    /\ \/ UNCHANGED wFaults
       \/ wFaults'.number = wFaults.number + 1
    /\ \/ wPc # "record" /\ wPc' # "record"
       \/ UNCHANGED <<wPc, wNew>>
       \/ wFaults'.number = wFaults.number + 1 /\ wPc' # "record"

\* A step of another manager is a bystander's.
LEMMA OtherManagers ==
    ASSUME DiagnosticsInv, WinAccountsStep \/ WsfcStep \/ WinAddressStep, UNCHANGED diagnosticsVars
    PROVE  Bystander
<1> USE DEF diagnosticsVars, EventDone, Goto, WinFault
<1>1. UNCHANGED <<recorded, collected>>
  OBVIOUS
<1>2. ASSUME mgr # "diagnostics", UNCHANGED mgr, wPc' # "record",
             UNCHANGED wFaults \/ wFaults'.number = wFaults.number + 1
      PROVE  Bystander
  BY <1>1, <1>2 DEF Bystander, DiagnosticsInv
<1>3. CASE WinAccountsStep
  <2>1. CASE WinDiff
    BY <2>1, <1>2 DEF WinDiff, WinAt
  <2>2. ASSUME NEW u \in WinUsers, CreateSSHUser(u) PROVE Bystander
    BY <2>2, <1>2 DEF CreateSSHUser, WinAt
  <2>3. CASE ReadPublicKeys
    BY <2>3, <1>2 DEF ReadPublicKeys, WinAt
  <2>4. CASE CreateOrResetPwd
    <3>1. mgr = "accounts" /\ Goto("print")
      BY <2>4 DEF CreateOrResetPwd, WinAt
    <3>2. UNCHANGED wFaults \/ WinFault("group") \/ WinFault("password")
      BY <2>4, Zenon DEF CreateOrResetPwd
    <3> QED BY <1>2, <3>1, <3>2
  <2>5. CASE PrintCreds
    BY <2>5, <1>2 DEF PrintCreds, WinAt
  <2>6. CASE WritePublicKeys
    BY <2>6, <1>2 DEF WritePublicKeys, WinAt
  <2> QED BY <1>3, <2>1, <2>2, <2>3, <2>4, <2>5, <2>6 DEF WinAccountsStep
<1>4. CASE WsfcStep
  <2>1. CASE WsfcSet
    BY <2>1, <1>2 DEF WsfcSet, WsfcAt
  <2>2. CASE WsfcRun
    BY <2>2, <1>2 DEF WsfcRun, WsfcAt
  <2>3. CASE CloseListener
    BY <2>3, <1>2 DEF CloseListener, WsfcAt
  <2>4. CASE WaitForRequests
    BY <2>4, <1>2 DEF WaitForRequests, WsfcAt
  <2> QED BY <1>4, <2>1, <2>2, <2>3, <2>4 DEF WsfcStep
<1>5. CASE WinAddressStep
  <2>1. CASE ReadForwards
    BY <2>1, <1>2 DEF ReadForwards, AddrAt
  <2>2. CASE ReadForwardsFails
    BY <2>2, <1>2 DEF ReadForwardsFails, AddrAt
  <2>3. ASSUME NEW ip \in WinIps, AddAddress(ip) PROVE Bystander
    BY <2>3, <1>2 DEF AddAddress, AddrAt
  <2>4. ASSUME NEW ip \in WinIps, RemoveAddress(ip) PROVE Bystander
    BY <2>4, <1>2 DEF RemoveAddress, AddrAt
  <2>5. CASE WriteForwards
    BY <2>5, <1>2 DEF WriteForwards, AddrAt
  <2> QED BY <1>5, <2>1, <2>2, <2>3, <2>4, <2>5 DEF WinAddressStep
<1> QED BY <1>3, <1>4, <1>5

\* A bystander's step keeps DiagnosticsInv.
LEMMA BystanderStep == DiagnosticsInv /\ Bystander => DiagnosticsInv'
<1> SUFFICES ASSUME DiagnosticsInv, Bystander PROVE DiagnosticsInv'
  OBVIOUS
<1>1. wFaults'.number \in Nat /\ wFaults'.number >= wFaults.number
  BY DEF DiagnosticsInv, Bystander
<1>2. DOMAIN collected' = Requests /\ (wPc' = "record" => mgr' = "diagnostics")
  BY DEF DiagnosticsInv, Bystander
<1>3. ASSUME NEW r \in Requests
      PROVE  /\ collected'[r] \in Nat
             /\ collected'[r] <= wFaults'.number
                   + (IF r \in recorded' \/ (wPc' = "record" /\ r = wNew'.request) THEN 1 ELSE 0)
  <2>1. collected'[r] = collected[r] /\ collected[r] \in Nat /\ recorded' = recorded
    BY DEF DiagnosticsInv, Bystander
  <2>2. collected[r] <= wFaults.number
           + (IF r \in recorded \/ (wPc = "record" /\ r = wNew.request) THEN 1 ELSE 0)
    BY DEF DiagnosticsInv
  <2>3. wFaults.number \in Nat
    BY DEF DiagnosticsInv
  <2>4. CASE r \in recorded
    BY <1>1, <2>1, <2>2, <2>3, <2>4
  <2>5. CASE r \notin recorded
    BY <1>1, <2>1, <2>2, <2>3, <2>5 DEF Bystander
  <2> QED BY <2>4, <2>5
<1> QED BY <1>1, <1>2, <1>3 DEF DiagnosticsInv, Requests

\* Every step of the managers keeps DiagnosticsInv.
LEMMA DiagnosticsKept == DiagnosticsInv /\ [ManagersNext]_allVars => DiagnosticsInv'
<1> SUFFICES ASSUME DiagnosticsInv, [ManagersNext]_allVars PROVE DiagnosticsInv'
  OBVIOUS
<1> USE DEF eventVars, diagnosticsVars
<1>1. CASE UNCHANGED windowsVars
  BY <1>1, BystanderStep DEF windowsVars, Bystander
<1>2. CASE EventStep
  BY <1>2, BystanderStep DEF EventStep, MetadataEvent, Bystander
<1>3. CASE (WinAccountsStep \/ WsfcStep \/ WinAddressStep) /\ UNCHANGED diagnosticsVars
  BY <1>3, BystanderStep, OtherManagers
<1>4. CASE DiagnosticsStep
  <2>1. CASE PassRequest
    BY <2>1, BystanderStep DEF PassRequest, EventDone, WinFault, Bystander
  <2>2. CASE CollectLogs
    <3>1. /\ wNew.request \notin recorded /\ wPc # "record" /\ wPc' = "record" /\ mgr = "diagnostics"
          /\ UNCHANGED <<mgr, wNew, wFaults, recorded>>
          /\ collected' = [collected EXCEPT ![wNew.request] = @ + 1]
      BY <2>2 DEF CollectLogs, Collects, Goto
    <3>2. ASSUME NEW r \in Requests
          PROVE  /\ collected'[r] \in Nat
                 /\ collected'[r] <= wFaults'.number
                       + (IF r \in recorded' \/ (wPc' = "record" /\ r = wNew'.request) THEN 1 ELSE 0)
      BY <3>1 DEF DiagnosticsInv
    <3> QED BY <3>1, <3>2 DEF DiagnosticsInv, Requests
  <2>3. CASE RecordRequest
    <3>1. CASE recorded' = recorded \cup {wNew.request} /\ UNCHANGED wFaults
      <4>1. wPc = "record" /\ wPc' = "idle" /\ UNCHANGED <<mgr, wFaults, collected>>
        BY <2>3, <3>1 DEF RecordRequest, EventDone
      <4> QED BY <3>1, <4>1 DEF DiagnosticsInv, Requests
    <3>2. CASE WinFault("write") /\ UNCHANGED recorded
      BY <2>3, <3>2, BystanderStep DEF RecordRequest, EventDone, WinFault, Bystander
    <3> QED BY <2>3, <3>1, <3>2 DEF RecordRequest
  <2> QED BY <1>4, <2>1, <2>2, <2>3 DEF DiagnosticsStep
<1>5. CASE BackgroundStep
  BY <1>5, BystanderStep DEF BackgroundStep, CollectDone, HandleConnection, HealthCheckDone, Bystander
<1>6. CASE Restart
  <2>1. CASE wPc = "idle"
    BY <1>6, <2>1, BystanderStep DEF Restart, RestartAgent, DiagnosticsRestarted, Bystander
  <2>2. CASE wPc # "idle"
    BY <1>6, <2>2, BystanderStep DEF Restart, RestartAgent, DiagnosticsRestarted, WinFault, Bystander
  <2> QED BY <2>1, <2>2
<1>7. CASE ChangeMetadata /\ UNCHANGED diagnosticsVars
  BY <1>7, BystanderStep DEF ChangeMetadata, Bystander
<1>8. CASE Accept /\ UNCHANGED diagnosticsVars
  BY <1>8, BystanderStep DEF Accept, Bystander
<1> QED
  BY <1>1, <1>2, <1>3, <1>4, <1>5, <1>6, <1>7, <1>8
  DEF ManagersNext, LinuxNext, WindowsNext, ManagerStep, allVars

\* Logs are collected once for a request, however often the agent restarts and the
\* metadata changes, and once more for every fault that lost the record.
THEOREM LogsCollectedOnce == ManagersSpec => []CollectedOnce
<1>1. ManagersInit => DiagnosticsInv
  BY DEF ManagersInit, LoopInit, DiagnosticsInit, DiagnosticsInv, Requests
<1>2. DiagnosticsInv => CollectedOnce
  <2> SUFFICES ASSUME DiagnosticsInv, NEW r \in Requests PROVE collected[r] <= 1 + wFaults.number
    BY DEF CollectedOnce
  <2> QED BY DEF DiagnosticsInv
<1> QED BY <1>1, <1>2, DiagnosticsKept, PTL DEF ManagersSpec
-----------------------------------------------------------------------------
(***************************************************************************)
(* The Windows accounts.  ResetOnce bounds what was done; the inductive    *)
(* invariant also counts what is still to come: a password that is about   *)
(* to be set for a key, and one that will be because the key is in         *)
(* metadata and not, or soon no longer, in the registry.                   *)
(***************************************************************************)

\* Metadata lists a key once, and two keys with an ID are of one user.
DistinctKeys ==
    "accounts" \in DOMAIN Parts =>
        /\ \A d \in Parts["accounts"] :
            /\ DOMAIN d.keys \subseteq Nat
            /\ \A m, n \in DOMAIN d.keys : d.keys[m].id = d.keys[n].id => m = n
        /\ \A k, l \in WinKeys : k.id = l.id => k.user = l.user

Has(d, i) == \E n \in DOMAIN d.keys : d.keys[n].id = i
Recorded(i) == \E k \in publicKeys : k.id = i
One(b) == IF b THEN 1 ELSE 0

\* The keys that are left, without the one whose reply is being printed.
Left == IF wPc = "print" THEN toAdd \ {Min(toAdd)} ELSE toAdd
Pending(i) == \E n \in Left : wNew.keys[n].id = i

\* Whether a password will be set for key i although none is pending: the event that
\* is running forgets a key that its metadata does not hold.
Needed(i) ==
    IF wPc = "idle" THEN Has(wMd, i) /\ ~Recorded(i)
    ELSE IF wPc \in {"start", "ssh"} /\ Has(wNew, i) THEN ~Recorded(i)
    ELSE ~Has(wNew, i) /\ Has(wMd, i)

\* How often key i has been put into metadata at most.
Periods(i) == IF Has(wMd, i) THEN 1 + wChanges \div 2 ELSE (wChanges + 1) \div 2

WinTypeInv ==
    /\ "accounts" \in DOMAIN Parts /\ wMd \in Parts["accounts"] /\ publicKeys \subseteq WinKeys
    /\ wPc \in {"idle", "start", "ssh", "keys", "print"}
    /\ wPc # "idle" => wNew \in Parts["accounts"]
    /\ IF wPc \in {"keys", "print"} THEN toAdd \subseteq DOMAIN wNew.keys ELSE toAdd = {}
    /\ wPc = "print" => toAdd # {}

ResetInv == \A i \in KeyIds : resets[i] + One(Pending(i)) + One(Needed(i)) <= wFaults.number + Periods(i)

WindowsInv ==
    /\ DiagnosticsInv /\ wChanges \in Nat /\ resets \in [KeyIds -> Nat]
    /\ mgr # "accounts" => \A i \in KeyIds : resets[i] = 0
    /\ mgr = "accounts" => WinTypeInv /\ ResetInv

\* Half of a number.
LEMMA Halves ==
    \A c \in Nat :
        /\ c \div 2 \in Nat /\ (c + 1) \div 2 \in Nat
        /\ c \div 2 <= (c + 1) \div 2 /\ (c + 1) \div 2 <= 1 + c \div 2
        /\ ((c + 1) + 1) \div 2 = 1 + c \div 2
  OBVIOUS

\* A set of numbers that is not empty holds its minimum.
LEMMA MinIsElement ==
    ASSUME NEW T \in SUBSET Nat, T # {}
    PROVE  Min(T) \in T
<1>1. IsWellFoundedOn(OpToRel(<, Nat), Nat)
  BY NatLessThanWellFounded
<1>2. PICK x \in T : \A y \in T : ~(<<y, x>> \in OpToRel(<, Nat))
  BY <1>1, WFMin, Zenon
<1>3. \A y \in T : ~(y < x)
  BY <1>2, Zenon DEF OpToRel
<1>4. \A y \in T : x <= y
  BY <1>3
<1> QED BY <1>4 DEF Min

\* Every step leaves the manager, counts a change at most, and sets a password only as
\* the manager of the accounts.
LEMMA LoopStep ==
    ASSUME [ManagersNext]_allVars
    PROVE  /\ UNCHANGED mgr /\ (wChanges' = wChanges \/ wChanges' = wChanges + 1)
           /\ mgr # "accounts" => UNCHANGED resets
<1> USE DEF EventDone, Goto, eventVars, winAccountVars, resetVars
<1>1. CASE UNCHANGED windowsVars
  BY <1>1, Zenon DEF windowsVars
<1>2. CASE EventStep
  BY <1>2, Zenon DEF EventStep, MetadataEvent
<1>3. CASE WinAccountsStep
  <2>1. CASE WinDiff
    BY <2>1, Zenon DEF WinDiff, WinAt
  <2>2. ASSUME NEW u \in WinUsers, CreateSSHUser(u)
        PROVE  mgr = "accounts" /\ UNCHANGED <<mgr, wChanges>>
    BY <2>2, Zenon DEF CreateSSHUser, WinAt
  <2>3. CASE ReadPublicKeys
    BY <2>3, Zenon DEF ReadPublicKeys, WinAt
  <2>4. CASE CreateOrResetPwd
    BY <2>4, Zenon DEF CreateOrResetPwd, WinAt
  <2>5. CASE PrintCreds
    BY <2>5, Zenon DEF PrintCreds, WinAt
  <2>6. CASE WritePublicKeys
    BY <2>6, Zenon DEF WritePublicKeys, WinAt
  <2> QED BY <1>3, <2>1, <2>2, <2>3, <2>4, <2>5, <2>6, Zenon DEF WinAccountsStep
<1>4. CASE DiagnosticsStep /\ UNCHANGED winAccountVars
  BY <1>4, Zenon DEF DiagnosticsStep, PassRequest, CollectLogs, RecordRequest
<1>5. CASE WsfcStep /\ UNCHANGED winAccountVars
  <2>1. CASE WsfcSet
    BY <1>5, <2>1 DEF WsfcSet
  <2>2. CASE WsfcRun \/ CloseListener \/ WaitForRequests
    BY <1>5, <2>2 DEF WsfcRun, CloseListener, WaitForRequests
  <2> QED BY <1>5, <2>1, <2>2, Zenon DEF WsfcStep
<1>6. CASE WinAddressStep /\ UNCHANGED winAccountVars
  <2>1. ASSUME NEW ip \in WinIps, AddAddress(ip) \/ RemoveAddress(ip) PROVE UNCHANGED <<mgr, wChanges>>
    BY <2>1, Zenon DEF AddAddress, RemoveAddress
  <2>2. CASE ReadForwards
    BY <1>6, <2>2, Zenon DEF ReadForwards
  <2>3. CASE ReadForwardsFails \/ WriteForwards
    BY <1>6, <2>3, Zenon DEF ReadForwardsFails, WriteForwards
  <2> QED BY <1>6, <2>1, <2>2, <2>3, Zenon DEF WinAddressStep
<1>7. CASE BackgroundStep
  BY <1>7, Zenon DEF BackgroundStep, CollectDone, HandleConnection, HealthCheckDone
<1>8. CASE Restart
  BY <1>8, Zenon DEF Restart, RestartAgent, WinAccountsRestarted
<1>9. CASE ChangeMetadata /\ UNCHANGED winAccountVars
  BY <1>9, Zenon DEF ChangeMetadata
<1>10. CASE Accept /\ UNCHANGED winAccountVars
  BY <1>10, Zenon DEF Accept
<1> QED
  BY <1>1, <1>2, <1>3, <1>4, <1>5, <1>6, <1>7, <1>8, <1>9, <1>10, Zenon
  DEF ManagersNext, LinuxNext, WindowsNext, ManagerStep, allVars

\* A step that leaves metadata alone keeps WindowsInv when what is done and to be
\* done grows by no more than the faults.
LEMMA ResetBalance ==
    ASSUME WindowsInv, mgr = "accounts", UNCHANGED <<mgr, wMd, wChanges>>, DiagnosticsInv', WinTypeInv',
           resets' \in [KeyIds -> Nat],
           \A i \in KeyIds :
               resets'[i] + One(Pending(i)') + One(Needed(i)') + wFaults.number
                   <= resets[i] + One(Pending(i)) + One(Needed(i)) + wFaults'.number
    PROVE  WindowsInv'
<1>1. \A b : One(b) \in Nat
  BY DEF One
<1>2. wFaults.number \in Nat /\ wFaults'.number \in Nat /\ resets \in [KeyIds -> Nat] /\ wChanges \in Nat
  BY DEF WindowsInv, DiagnosticsInv
<1>3. ASSUME NEW i \in KeyIds
      PROVE  resets'[i] + One(Pending(i)') + One(Needed(i)') <= wFaults'.number + Periods(i)'
  <2>1. Periods(i)' = Periods(i) /\ Periods(i) \in Nat
    BY <1>2, Halves DEF Periods, Has
  <2>2. resets[i] + One(Pending(i)) + One(Needed(i)) <= wFaults.number + Periods(i)
    BY DEF WindowsInv, ResetInv
  <2>3. resets[i] \in Nat /\ resets'[i] \in Nat
    BY <1>2
  <2> QED BY <1>1, <1>2, <2>1, <2>2, <2>3
<1>4. ResetInv'
  BY <1>3 DEF ResetInv, One
<1> QED BY <1>2, <1>4 DEF WindowsInv
\* In terms of what may be asked and answered: nothing more is pending or needed, or
\* a fault pays for what is needed.
LEMMA ResetQuiet ==
    ASSUME WindowsInv, mgr = "accounts", UNCHANGED <<mgr, wMd, wChanges, resets>>, DiagnosticsInv', WinTypeInv',
           wFaults'.number >= wFaults.number,
           \A i \in KeyIds :
               \/ (Pending(i)' => Pending(i)) /\ (Needed(i)' => Needed(i))
               \/ Pending(i)' /\ ~Needed(i)' /\ Needed(i)
               \/ ~Pending(i)' /\ wFaults'.number = wFaults.number + 1
    PROVE  WindowsInv'
<1>1. wFaults.number \in Nat /\ wFaults'.number \in Nat /\ resets \in [KeyIds -> Nat]
  BY DEF WindowsInv, DiagnosticsInv
<1>2. ASSUME NEW i \in KeyIds
      PROVE  resets'[i] + One(Pending(i)') + One(Needed(i)') + wFaults.number
                 <= resets[i] + One(Pending(i)) + One(Needed(i)) + wFaults'.number
  <2>1. resets[i] \in Nat /\ resets'[i] = resets[i]
    BY <1>1
  <2>2. One(Pending(i)') + One(Needed(i)') + wFaults.number
            <= One(Pending(i)) + One(Needed(i)) + wFaults'.number
    <3>1. CASE (Pending(i)' => Pending(i)) /\ (Needed(i)' => Needed(i))
      BY <1>1, <3>1 DEF One
    <3>2. CASE Pending(i)' /\ ~Needed(i)' /\ Needed(i)
      BY <1>1, <3>2 DEF One
    <3>3. CASE ~Pending(i)' /\ wFaults'.number = wFaults.number + 1
      BY <1>1, <3>3 DEF One
    <3> QED BY <3>1, <3>2, <3>3
  <2>3. One(Pending(i)') \in Nat /\ One(Needed(i)') \in Nat /\ One(Pending(i)) \in Nat /\ One(Needed(i)) \in Nat
    BY DEF One
  <2> QED BY <1>1, <2>1, <2>2, <2>3
<1> QED BY <1>1, <1>2, ResetBalance

\* An event begins.
LEMMA ResetEvent ==
    ASSUME WindowsInv, mgr = "accounts", EventStep, DiagnosticsInv'
    PROVE  WindowsInv'
<1>1. /\ wPc = "idle" /\ wPc' = "start" /\ wNew' = wMd
      /\ UNCHANGED <<mgr, wMd, wChanges, wFaults, publicKeys, toAdd, resets>>
  BY Zenon DEF EventStep, MetadataEvent, winAccountVars, setVars, resetVars
<1>2. WinTypeInv
  BY DEF WindowsInv
<1>3. WinTypeInv'
  BY <1>1, <1>2 DEF WinTypeInv
<1>4. ASSUME NEW i \in KeyIds PROVE ~Pending(i)' /\ (Needed(i)' => Needed(i))
  BY <1>1, <1>2 DEF WinTypeInv, Pending, Left, Needed, Has, Recorded
<1>5. wFaults'.number >= wFaults.number
  BY <1>1 DEF WindowsInv, DiagnosticsInv
<1> QED BY <1>1, <1>3, <1>4, <1>5, ResetQuiet

\* Diff() and the users for SSH.
LEMMA ResetBefore ==
    ASSUME WindowsInv, mgr = "accounts", WinDiff \/ \E u \in WinUsers : CreateSSHUser(u), DiagnosticsInv'
    PROVE  WindowsInv'
<1>1. WinTypeInv /\ wFaults.number \in Nat
  BY DEF WindowsInv, DiagnosticsInv
<1>2. /\ wPc \in {"start", "ssh"} /\ wPc' \in {"idle", "ssh"}
      /\ UNCHANGED <<mgr, wMd, wNew, wChanges, publicKeys, toAdd, resets>>
      /\ UNCHANGED wFaults \/ wFaults'.number = wFaults.number + 1
  <2>1. CASE WinDiff
    BY <2>1 DEF WinDiff, WinAt, EventDone, Goto, resetVars
  <2>2. ASSUME NEW u \in WinUsers, CreateSSHUser(u)
        PROVE  /\ wPc = "ssh" /\ wPc' = "ssh"
               /\ UNCHANGED <<mgr, wMd, wNew, wChanges, publicKeys, toAdd, resets>>
               /\ UNCHANGED wFaults \/ wFaults'.number = wFaults.number + 1
    BY <2>2 DEF CreateSSHUser, WinAt, Goto, resetVars, WinFault
  <2> QED BY <2>1, <2>2
<1>3. WinTypeInv'
  BY <1>1, <1>2 DEF WinTypeInv
<1>4. ASSUME NEW i \in KeyIds PROVE ~Pending(i)' /\ (Needed(i)' => Needed(i))
  BY <1>1, <1>2 DEF WinTypeInv, Pending, Left, Needed, Has, Recorded
<1>5. wFaults'.number >= wFaults.number
  BY <1>1, <1>2
<1> QED BY <1>2, <1>3, <1>4, <1>5, ResetQuiet

\* The registry is read: a key that is not recorded is pending now.
LEMMA ResetRead ==
    ASSUME DistinctKeys, WindowsInv, mgr = "accounts", ReadPublicKeys, DiagnosticsInv'
    PROVE  WindowsInv'
<1>1. WinTypeInv /\ wFaults.number \in Nat
  BY DEF WindowsInv, DiagnosticsInv
<1>2. wPc = "ssh" /\ UNCHANGED <<mgr, wMd, wNew, wChanges, publicKeys, resets>>
  BY Zenon DEF ReadPublicKeys, WinAt, EventDone, Goto, resetVars
<1>3. CASE WinFault("read") /\ EventDone /\ UNCHANGED toAdd
  <2>1. wPc' = "idle" /\ wFaults'.number = wFaults.number + 1 /\ UNCHANGED toAdd
    BY <1>3 DEF WinFault, EventDone
  <2>2. WinTypeInv'
    BY <1>1, <1>2, <2>1 DEF WinTypeInv
  <2>3. \A i \in KeyIds : ~Pending(i)'
    BY <1>1, <1>2, <2>1 DEF WinTypeInv, Pending, Left
  <2>4. wFaults'.number >= wFaults.number
    BY <1>1, <2>1
  <2> QED BY <1>2, <2>1, <2>2, <2>3, <2>4, ResetQuiet
<1>4. CASE Goto("keys") /\ toAdd' = CompareAccounts(wNew.keys, publicKeys) /\ UNCHANGED wFaults
  <2>1. wPc' = "keys" /\ UNCHANGED wFaults /\ toAdd' = CompareAccounts(wNew.keys, publicKeys)
    BY <1>4 DEF Goto
  <2>2. WinTypeInv'
    BY <1>1, <1>2, <2>1 DEF WinTypeInv, CompareAccounts
  <2>3. ASSUME NEW i \in KeyIds
        PROVE  \/ ~Pending(i)' /\ (Needed(i)' => Needed(i))
               \/ Pending(i)' /\ ~Needed(i)' /\ Needed(i)
    <3>1. Needed(i)' <=> ~Has(wNew, i) /\ Has(wMd, i)
      BY <1>2, <2>1 DEF Needed, Has
    <3>2. Needed(i) <=> IF Has(wNew, i) THEN ~Recorded(i) ELSE Has(wMd, i)
      BY <1>2 DEF Needed
    <3>3. ASSUME Pending(i)' PROVE Has(wNew, i) /\ ~Recorded(i)
      <4>1. PICK n \in toAdd' : wNew.keys[n].id = i
        BY <1>2, <2>1, <3>3 DEF Pending, Left
      <4>2. n \in DOMAIN wNew.keys /\ \A r \in publicKeys : r.user # wNew.keys[n].user \/ r.id # i
        BY <2>1, <4>1 DEF CompareAccounts
      <4>3. wNew \in Parts["accounts"] /\ "accounts" \in DOMAIN Parts /\ publicKeys \subseteq WinKeys
        BY <1>1, <1>2 DEF WinTypeInv
      <4>4. wNew.keys[n] \in WinKeys
        BY <4>2, <4>3 DEF WinKeys, ToSet
      <4>5. ASSUME NEW r \in publicKeys, r.id = i PROVE FALSE
        <5>1. r \in WinKeys /\ r.id = wNew.keys[n].id
          BY <4>1, <4>3, <4>5
        <5>2. r.user = wNew.keys[n].user
          BY <4>3, <4>4, <5>1 DEF DistinctKeys
        <5> QED BY <4>2, <4>5, <5>2
      <4> QED BY <4>1, <4>2, <4>5 DEF Has, Recorded
    <3> QED BY <3>1, <3>2, <3>3
  <2>4. wFaults'.number >= wFaults.number
    BY <1>1, <2>1
  <2> QED BY <1>2, <2>2, <2>3, <2>4, ResetQuiet
<1> QED BY <1>3, <1>4, Zenon DEF ReadPublicKeys

\* A password is set for the first pending key.
LEMMA ResetSet ==
    ASSUME DistinctKeys, WindowsInv, mgr = "accounts", CreateOrResetPwd, DiagnosticsInv'
    PROVE  WindowsInv'
<1>1. WinTypeInv /\ wFaults.number \in Nat /\ resets \in [KeyIds -> Nat]
  BY DEF WindowsInv, DiagnosticsInv
<1>2. /\ wPc = "keys" /\ wPc' = "print" /\ toAdd # {}
      /\ UNCHANGED <<mgr, wMd, wNew, wChanges, publicKeys, toAdd>>
  BY Zenon DEF CreateOrResetPwd, WinAt, Goto
<1>3. UNCHANGED wFaults \/ wFaults'.number = wFaults.number + 1
  <2>1. UNCHANGED wFaults \/ WinFault("group") \/ WinFault("password")
    BY Zenon DEF CreateOrResetPwd
  <2> QED BY <2>1 DEF WinFault
<1>4. resets' = [resets EXCEPT ![FirstToAdd.id] = @ + 1] \/ UNCHANGED resets
  BY Zenon DEF CreateOrResetPwd, ResetPwd, resetVars
<1>5. PICK m : m = Min(toAdd)
  OBVIOUS
<1>6. wNew \in Parts["accounts"] /\ "accounts" \in DOMAIN Parts /\ toAdd \subseteq DOMAIN wNew.keys
  BY <1>1, <1>2 DEF WinTypeInv
<1>7. m \in toAdd
  <2>1. toAdd \in SUBSET Nat
    BY <1>6 DEF DistinctKeys
  <2> QED BY <1>2, <1>5, <2>1, MinIsElement
<1>8. PICK j : j = wNew.keys[m].id
  OBVIOUS
<1>9. j \in KeyIds /\ j = FirstToAdd.id
  <2>1. wNew.keys[m] \in WinKeys
    BY <1>6, <1>7 DEF WinKeys, ToSet
  <2> QED BY <1>5, <1>8, <2>1 DEF KeyIds, FirstToAdd
<1>10. resets' \in [KeyIds -> Nat]
  BY <1>1, <1>4, <1>9
<1>11. WinTypeInv'
  BY <1>1, <1>2 DEF WinTypeInv
<1>12. \A i \in KeyIds : Needed(i)' <=> Needed(i)
  BY <1>2 DEF Needed, Has
<1>13. \A i \in KeyIds : Pending(i)' => Pending(i)
  BY <1>2 DEF Pending, Left
<1>14. Pending(j)
  BY <1>2, <1>7, <1>8 DEF Pending, Left
<1>15. ~Pending(j)'
  <2>1. Left' = toAdd \ {m}
    BY <1>2, <1>5 DEF Left
  <2>2. \A n \in toAdd \ {m} : wNew.keys[n].id # j
    BY <1>6, <1>7, <1>8 DEF DistinctKeys
  <2> QED BY <1>2, <2>1, <2>2 DEF Pending
<1>16. ASSUME NEW i \in KeyIds
       PROVE  resets'[i] + One(Pending(i)') + One(Needed(i)') + wFaults.number
                  <= resets[i] + One(Pending(i)) + One(Needed(i)) + wFaults'.number
  <2>1. One(Needed(i)') = One(Needed(i)) /\ One(Needed(i)) \in Nat
    BY <1>12 DEF One
  <2>2. resets'[i] + One(Pending(i)') <= resets[i] + One(Pending(i))
    <3>1. CASE i = j
      <4>1. One(Pending(i)') = 0 /\ One(Pending(i)) = 1
        BY <1>14, <1>15, <3>1 DEF One
      <4> QED BY <1>1, <1>4, <1>9, <3>1, <4>1
    <3>2. CASE i # j
      <4>1. resets'[i] = resets[i]
        BY <1>1, <1>4, <1>9, <3>2
      <4> QED BY <1>1, <1>13, <4>1 DEF One
    <3> QED BY <3>1, <3>2
  <2>3. One(Pending(i)') \in Nat /\ One(Pending(i)) \in Nat /\ resets[i] \in Nat /\ resets'[i] \in Nat
    BY <1>1, <1>10 DEF One
  <2> QED BY <1>1, <1>3, <2>1, <2>2, <2>3
<1> QED BY <1>2, <1>10, <1>11, <1>16, ResetBalance

\* A reply is printed, and the next key is the first.
LEMMA ResetPrint ==
    ASSUME WindowsInv, mgr = "accounts", PrintCreds, DiagnosticsInv'
    PROVE  WindowsInv'
<1>1. WinTypeInv /\ wFaults.number \in Nat
  BY DEF WindowsInv, DiagnosticsInv
<1>2. /\ wPc = "print" /\ wPc' = "keys" /\ toAdd' = toAdd \ {Min(toAdd)}
      /\ UNCHANGED <<mgr, wMd, wNew, wChanges, publicKeys, resets>>
  BY Zenon DEF PrintCreds, WinAt, Goto, resetVars
<1>3. UNCHANGED wFaults \/ wFaults'.number = wFaults.number + 1
  BY DEF PrintCreds, WinFault
<1>4. WinTypeInv'
  BY <1>1, <1>2 DEF WinTypeInv
<1>5. ASSUME NEW i \in KeyIds PROVE (Pending(i)' => Pending(i)) /\ (Needed(i)' => Needed(i))
  BY <1>2 DEF Pending, Left, Needed, Has
<1>6. wFaults'.number >= wFaults.number
  BY <1>1, <1>3
<1> QED BY <1>2, <1>4, <1>5, <1>6, ResetQuiet

\* The registry is written: the keys of the event are recorded, and no others.
LEMMA ResetWrite ==
    ASSUME WindowsInv, mgr = "accounts", WritePublicKeys, DiagnosticsInv'
    PROVE  WindowsInv'
<1>1. WinTypeInv /\ wFaults.number \in Nat
  BY DEF WindowsInv, DiagnosticsInv
<1>2. /\ wPc = "keys" /\ wPc' = "idle" /\ toAdd = {}
      /\ UNCHANGED <<mgr, wMd, wNew, wChanges, toAdd, resets>>
  BY Zenon DEF WritePublicKeys, WinAt, EventDone, setVars, resetVars
<1>3. \A i \in KeyIds : ~Pending(i)'
  BY <1>2 DEF Pending, Left
<1>4. wNew \in Parts["accounts"] /\ "accounts" \in DOMAIN Parts
  BY <1>1, <1>2 DEF WinTypeInv
<1>5. CASE publicKeys' = ToSet(wNew.keys) /\ UNCHANGED wFaults
  <2>1. publicKeys' \subseteq WinKeys
    BY <1>4, <1>5 DEF WinKeys
  <2>2. WinTypeInv'
    BY <1>1, <1>2, <2>1 DEF WinTypeInv
  <2>3. ASSUME NEW i \in KeyIds PROVE Needed(i)' => Needed(i)
    <3>1. Recorded(i)' <=> Has(wNew, i)
      BY <1>5 DEF Recorded, Has, ToSet
    <3>2. Needed(i)' <=> Has(wMd, i) /\ ~Recorded(i)'
      BY <1>2 DEF Needed, Has, Recorded
    <3>3. Needed(i) <=> ~Has(wNew, i) /\ Has(wMd, i)
      BY <1>2 DEF Needed
    <3> QED BY <3>1, <3>2, <3>3
  <2>4. wFaults'.number >= wFaults.number
    BY <1>1, <1>5
  <2> QED BY <1>2, <1>3, <2>2, <2>3, <2>4, ResetQuiet
<1>6. CASE WinFault("write") /\ UNCHANGED publicKeys
  <2>1. wFaults'.number = wFaults.number + 1
    BY <1>6 DEF WinFault
  <2>2. WinTypeInv'
    BY <1>1, <1>2, <1>6 DEF WinTypeInv
  <2>3. wFaults'.number >= wFaults.number
    BY <1>1, <2>1
  <2> QED BY <1>2, <1>3, <2>1, <2>2, <2>3, ResetQuiet
<1> QED BY <1>5, <1>6, Zenon DEF WritePublicKeys

\* The agent starts again: in the middle of an event it is a fault.
LEMMA ResetRestart ==
    ASSUME WindowsInv, mgr = "accounts", Restart, DiagnosticsInv'
    PROVE  WindowsInv'
<1>1. WinTypeInv /\ wFaults.number \in Nat
  BY DEF WindowsInv, DiagnosticsInv
<1>2. /\ wPc' = "idle" /\ toAdd' = {} /\ UNCHANGED <<mgr, wMd, wChanges, publicKeys, resets>>
      /\ IF wPc = "idle" THEN UNCHANGED wFaults ELSE WinFault("crash")
  BY Zenon DEF Restart, RestartAgent, WinAccountsRestarted, resetVars
<1>3. WinTypeInv'
  BY <1>1, <1>2 DEF WinTypeInv
<1>4. \A i \in KeyIds : ~Pending(i)'
  BY <1>2 DEF Pending, Left
<1>5. CASE wPc = "idle"
  <2>1. \A i \in KeyIds : Needed(i)' => Needed(i)
    BY <1>2, <1>5 DEF Needed, Has, Recorded
  <2>2. wFaults'.number >= wFaults.number
    BY <1>1, <1>2, <1>5
  <2> QED BY <1>2, <1>3, <1>4, <2>1, <2>2, ResetQuiet
<1>6. CASE wPc # "idle"
  <2>1. wFaults'.number = wFaults.number + 1
    BY <1>2, <1>6 DEF WinFault
  <2>2. wFaults'.number >= wFaults.number
    BY <1>1, <2>1
  <2> QED BY <1>2, <1>3, <1>4, <2>1, <2>2, ResetQuiet
<1> QED BY <1>5, <1>6

\* Metadata changes: a key that comes into it may cost its user a password.
LEMMA ResetChange ==
    ASSUME WindowsInv, mgr = "accounts", ChangeMetadata, UNCHANGED winAccountVars, DiagnosticsInv'
    PROVE  WindowsInv'
<1>1. WinTypeInv /\ wFaults.number \in Nat /\ resets \in [KeyIds -> Nat] /\ wChanges \in Nat
  BY DEF WindowsInv, DiagnosticsInv
<1>2. /\ wChanges' = wChanges + 1 /\ wMd' \in Parts[mgr]
      /\ UNCHANGED <<mgr, wNew, wPc, wFaults, publicKeys, toAdd, resets>>
  BY DEF ChangeMetadata, winAccountVars, setVars, resetVars
<1>3. WinTypeInv'
  BY <1>1, <1>2 DEF WinTypeInv
<1>4. ASSUME NEW i \in KeyIds
      PROVE  resets'[i] + One(Pending(i)') + One(Needed(i)') <= wFaults'.number + Periods(i)'
  <2>1. resets[i] + One(Pending(i)) + One(Needed(i)) <= wFaults.number + Periods(i)
    BY DEF WindowsInv, ResetInv
  <2>2. Pending(i)' <=> Pending(i)
    BY <1>2 DEF Pending, Left
  <2>3. /\ Has(wMd, i)' => Periods(i)' = 1 + (wChanges + 1) \div 2
        /\ ~Has(wMd, i)' => Periods(i)' = ((wChanges + 1) + 1) \div 2
    BY <1>2 DEF Periods, Has
  <2>4. /\ Has(wMd, i) => Periods(i) = 1 + wChanges \div 2
        /\ ~Has(wMd, i) => Periods(i) = (wChanges + 1) \div 2
    BY DEF Periods
  <2>5. Periods(i) \in Nat /\ Periods(i)' \in Nat /\ Periods(i)' >= Periods(i)
    BY <1>1, <2>3, <2>4, Halves
  <2>6. ~Has(wMd, i) /\ Has(wMd, i)' => Periods(i)' = Periods(i) + 1
    BY <1>1, <2>3, <2>4, Halves
  <2>7. Needed(i)' => Needed(i) \/ (~Has(wMd, i) /\ Has(wMd, i)')
    BY <1>2 DEF Needed, Has, Recorded
  <2>8. One(Pending(i)') = One(Pending(i)) /\ One(Pending(i)) \in Nat
    BY <2>2 DEF One
  <2>9. One(Needed(i)') + Periods(i) <= One(Needed(i)) + Periods(i)'
    <3>1. CASE Needed(i)' => Needed(i)
      BY <2>5, <3>1 DEF One
    <3>2. CASE ~Has(wMd, i) /\ Has(wMd, i)'
      BY <2>5, <2>6, <3>2 DEF One
    <3> QED BY <2>7, <3>1, <3>2
  <2>10. One(Needed(i)') \in Nat /\ One(Needed(i)) \in Nat /\ resets[i] \in Nat
    BY <1>1 DEF One
  <2> QED BY <1>1, <1>2, <2>1, <2>5, <2>8, <2>9, <2>10
<1>5. ResetInv'
  BY <1>4 DEF ResetInv, One
<1> QED BY <1>1, <1>2, <1>3, <1>5 DEF WindowsInv
\* Every step of the managers keeps WindowsInv.
LEMMA WindowsStep == DistinctKeys /\ WindowsInv /\ [ManagersNext]_allVars => WindowsInv'
<1> SUFFICES ASSUME DistinctKeys, WindowsInv, [ManagersNext]_allVars PROVE WindowsInv'
  OBVIOUS
<1>1. DiagnosticsInv'
  BY DiagnosticsKept DEF WindowsInv
<1>2. /\ UNCHANGED mgr /\ (wChanges' = wChanges \/ wChanges' = wChanges + 1)
      /\ mgr # "accounts" => UNCHANGED resets
  BY LoopStep
<1>3. CASE mgr # "accounts"
  BY <1>1, <1>2, <1>3 DEF WindowsInv
<1>4. CASE mgr = "accounts"
  <2>1. ASSUME UNCHANGED <<eventVars, winAccountVars>> PROVE WindowsInv'
    <3>1. UNCHANGED <<mgr, wMd, wNew, wPc, wChanges, wFaults, publicKeys, toAdd, resets>>
      BY <2>1, Zenon DEF eventVars, winAccountVars, setVars, resetVars
    <3>2. WinTypeInv /\ wFaults.number \in Nat
      BY <1>4 DEF WindowsInv, DiagnosticsInv
    <3>3. WinTypeInv'
      BY <3>1, <3>2 DEF WinTypeInv
    <3>4. ASSUME NEW i \in KeyIds PROVE (Pending(i)' => Pending(i)) /\ (Needed(i)' => Needed(i))
      BY <3>1 DEF Pending, Left, Needed, Has, Recorded
    <3>5. wFaults'.number >= wFaults.number
      BY <3>1, <3>2
    <3> QED BY <1>1, <1>4, <3>1, <3>3, <3>4, <3>5, ResetQuiet
  <2>2. CASE UNCHANGED windowsVars
    BY <2>1, <2>2, Zenon DEF windowsVars
  <2>3. CASE EventStep
    BY <1>1, <1>4, <2>3, ResetEvent
  <2>4. CASE WinAccountsStep
    BY <1>1, <1>4, <2>4, ResetBefore, ResetRead, ResetSet, ResetPrint, ResetWrite DEF WinAccountsStep
  <2>5. CASE DiagnosticsStep
    BY <1>4, <2>5 DEF DiagnosticsStep, PassRequest, CollectLogs, RecordRequest
  <2>6. CASE WsfcStep
    BY <1>4, <2>6 DEF WsfcStep, WsfcSet, WsfcRun, CloseListener, WaitForRequests, WsfcAt
  <2>7. CASE WinAddressStep
    BY <1>4, <2>7 DEF WinAddressStep, ReadForwards, ReadForwardsFails, AddAddress, RemoveAddress,
                      WriteForwards, AddrAt
  <2>8. CASE BackgroundStep
    <3>1. UNCHANGED <<eventVars, winAccountVars>>
      BY <2>8, Zenon DEF BackgroundStep, CollectDone, HandleConnection, HealthCheckDone
    <3> QED BY <2>1, <3>1
  <2>9. CASE Accept /\ UNCHANGED winAccountVars
    <3>1. UNCHANGED <<eventVars, winAccountVars>>
      BY <2>9, Zenon DEF Accept
    <3> QED BY <2>1, <3>1
  <2>10. CASE Restart
    BY <1>1, <1>4, <2>10, ResetRestart
  <2>11. CASE ChangeMetadata /\ UNCHANGED winAccountVars
    BY <1>1, <1>4, <2>11, ResetChange
  <2> QED
    BY <2>2, <2>3, <2>4, <2>5, <2>6, <2>7, <2>8, <2>9, <2>10, <2>11, Zenon
    DEF ManagersNext, LinuxNext, WindowsNext, ManagerStep, allVars
<1> QED BY <1>3, <1>4

\* The managers start within WindowsInv.
LEMMA WindowsStart == ManagersInit => WindowsInv
<1> SUFFICES ASSUME ManagersInit PROVE WindowsInv
  OBVIOUS
<1>1. DiagnosticsInv
  BY DEF ManagersInit, LoopInit, DiagnosticsInit, DiagnosticsInv, Requests
<1>2. /\ mgr \in DOMAIN Parts /\ wMd \in Parts[mgr] /\ wPc = "idle" /\ wChanges = 0 /\ wFaults.number = 0
      /\ publicKeys = {} /\ toAdd = {} /\ resets = [i \in KeyIds |-> 0]
  BY DEF ManagersInit, LoopInit, WinAccountsInit
<1>3. mgr = "accounts" => WinTypeInv
  BY <1>2 DEF WinTypeInv
<1>4. ASSUME NEW i \in KeyIds
      PROVE  resets[i] + One(Pending(i)) + One(Needed(i)) <= wFaults.number + Periods(i)
  <2>1. ~Pending(i) /\ (Needed(i) => Has(wMd, i))
    BY <1>2 DEF Pending, Left, Needed
  <2>2. (Has(wMd, i) => Periods(i) = 1) /\ (~Has(wMd, i) => Periods(i) = 0)
    BY <1>2 DEF Periods
  <2> QED BY <1>2, <2>1, <2>2 DEF One
<1> QED BY <1>1, <1>2, <1>3, <1>4 DEF WindowsInv, ResetInv

\* What the registry says was done is not done again, for any metadata that lists no
\* key twice: a key has a password set once for every time it is in metadata and
\* once more for every fault, however often the agent restarts.
THEOREM DoneOnce ==
    ASSUME DistinctKeys
    PROVE  ManagersSpec => []NothingTwice
<1>1. WindowsInv /\ [ManagersNext]_allVars => WindowsInv'
  BY WindowsStep
<1>2. WindowsInv => NothingTwice
  <2> SUFFICES ASSUME WindowsInv PROVE NothingTwice
    OBVIOUS
  <2>1. CollectedOnce
    <3> SUFFICES ASSUME NEW r \in Requests PROVE collected[r] <= 1 + wFaults.number
      BY DEF CollectedOnce
    <3> QED BY DEF WindowsInv, DiagnosticsInv
  <2>2. ResetOnce
    <3> SUFFICES ASSUME NEW i \in KeyIds PROVE resets[i] <= 1 + wChanges \div 2 + wFaults.number
      BY DEF ResetOnce
    <3>1. wChanges \in Nat /\ wFaults.number \in Nat /\ resets[i] \in Nat
      BY DEF WindowsInv, DiagnosticsInv
    <3>2. wChanges \div 2 \in Nat /\ (wChanges + 1) \div 2 <= 1 + wChanges \div 2
          /\ (wChanges + 1) \div 2 \in Nat
      BY <3>1, Halves
    <3>3. CASE mgr # "accounts"
      BY <3>1, <3>2, <3>3 DEF WindowsInv
    <3>4. CASE mgr = "accounts"
      <4>1. resets[i] + One(Pending(i)) + One(Needed(i)) <= wFaults.number + Periods(i)
        BY <3>4 DEF WindowsInv, ResetInv
      <4>2. One(Pending(i)) \in Nat /\ One(Needed(i)) \in Nat
        BY DEF One
      <4>3. Periods(i) \in Nat /\ Periods(i) <= 1 + wChanges \div 2
        BY <3>1, <3>2 DEF Periods
      <4> QED BY <3>1, <3>2, <4>1, <4>2, <4>3
    <3> QED BY <3>3, <3>4
  <2> QED BY <2>1, <2>2 DEF NothingTwice
<1> QED BY <1>1, <1>2, WindowsStart, PTL DEF ManagersSpec
=============================================================================
