------------------------------ MODULE Accounts ------------------------------
(***************************************************************************)
(* The Linux accounts manager (non_windows_accounts.go), with the part of  *)
(* the OS Login manager that takes the metadata keys away.  Set() is split *)
(* where it touches the disk, so that a command may fail, and the agent    *)
(* may die, between any two of its effects.                                *)
(*                                                                         *)
(* An authorized_keys file is the sequence of the keys the agent added;    *)
(* the user's own lines are carried over by every update (their filter is  *)
(* the subject of OSLoginConfig).  A key is as long as any other key.      *)
(***************************************************************************)
EXTENDS Naturals, Sequences

CONSTANTS
    Users,
    Keys,
    Malformed,     \* the user of an entry that does not parse
    Descriptors,   \* the metadata the server may hold
    LocalUsers,    \* accounts that exist before the agent first runs
    NoLogin,       \* users whose shell is /sbin/nologin
    DeprovisionRemove, \* the values [Accounts] deprovision_remove may have
    Faults,        \* which steps may fail: a subset of FaultKinds
    MaxChanges,    \* bound: changes of the metadata
    MaxFaults      \* bound: failed steps and crashes

FaultKinds == {"create", "group", "write", "remove", "commit", "read", "crash"}
Entries == [user : Users \cup {Malformed}, key : Keys]
Flags == {"unset", "true", "false"}
None == <<>>   \* no keys: getUserKeys() and sshKeys hold no empty list

ASSUME AccountsAssumption ==
    /\ Malformed \notin Users
    /\ Descriptors \subseteq [instance : Seq(Entries), project : Seq(Entries),
                              block : BOOLEAN, osInstance : Flags, osProject : Flags]
    /\ LocalUsers \subseteq Users /\ NoLogin \subseteq Users
    /\ DeprovisionRemove \subseteq BOOLEAN
    /\ Faults \subseteq FaultKinds
    /\ MaxChanges \in Nat /\ MaxFaults \in Nat

VARIABLES
    deprovision,  \* deprovision_remove of the configuration
    md,        \* the server's metadata
    expired,   \* keys that have expired
    passwd,    \* users in /etc/passwd
    sudoers,   \* members of google-sudoers
    ak,        \* authorized_keys of each user
    temp,      \* authorized_keys.google of each user
    gfile,     \* the google_users file
    newMetadata, oldMetadata,
    sshKeys,   \* keys the agent believes to be on disk
    pc,        \* where Set() is
    mdKeyMap,  \* getUserKeys() of this Set()
    gUsers,    \* readGoogleUsersFile() of this Set()
    gNil,      \* gUsers is a nil map
    todo,      \* users left in the running loop
    cur,       \* user of the running iteration
    changes,
    faults     \* the kinds of the faults so far

serverVars == <<deprovision, md, expired, changes>>
accountVars == <<passwd, sudoers>>
keyVars == <<ak, temp>>
mdVars == <<newMetadata, oldMetadata>>
localVars == <<mdKeyMap, gUsers, gNil>>
loopVars == <<todo, cur>>
vars == <<serverVars, accountVars, keyVars, gfile, mdVars, sshKeys, pc, localVars, loopVars, faults>>

EmptyDescriptor ==
    [instance |-> <<>>, project |-> <<>>, block |-> FALSE, osInstance |-> "unset", osProject |-> "unset"]

\* getOSLoginEnabled(): the instance's flag takes precedence.
OSLoginEnabled(d) == IF d.osInstance # "unset" THEN d.osInstance = "true" ELSE d.osProject = "true"

\* The entries Set() looks at.
MdKeys(d) == IF d.block THEN d.instance ELSE d.instance \o d.project

\* Valid keys of a user, in order.
GetUserKeys(d, u) ==
    LET valid(e) == e.user = u /\ e.key \notin expired
        entries == SelectSeq(MdKeys(d), valid)
    IN  [i \in 1..Len(entries) |-> entries[i].key]

KeysOf(s) == {s[i] : i \in DOMAIN s}

Init ==
    /\ deprovision \in DeprovisionRemove
    /\ md \in Descriptors
    /\ expired = {}
    /\ passwd = LocalUsers
    /\ sudoers = {}
    /\ ak = [u \in Users |-> None]
    /\ temp = [u \in Users |-> None]
    /\ gfile = {}
    /\ newMetadata = EmptyDescriptor /\ oldMetadata = EmptyDescriptor
    /\ sshKeys = [u \in Users |-> None]
    /\ pc = "idle"
    /\ mdKeyMap = [u \in Users |-> None]
    /\ gUsers = {} /\ gNil = FALSE
    /\ todo = {} /\ cur = Malformed
    /\ changes = 0 /\ faults = <<>>

Fault(kind) ==
    /\ kind \in Faults
    /\ Len(faults) < MaxFaults /\ faults' = Append(faults, kind)

Failed == {faults[i] : i \in DOMAIN faults}

-----------------------------------------------------------------------------
(* The environment.                                                        *)

ServerChange ==
    /\ changes < MaxChanges
    /\ changes' = changes + 1
    /\ md' \in Descriptors \ {md}
    /\ UNCHANGED <<deprovision, expired, accountVars, keyVars, gfile, mdVars, sshKeys, pc, localVars, loopVars, faults>>

Expire(k) ==
    /\ changes < MaxChanges
    /\ changes' = changes + 1
    /\ k \notin expired
    /\ expired' = expired \cup {k}
    /\ UNCHANGED <<deprovision, md, accountVars, keyVars, gfile, mdVars, sshKeys, pc, localVars, loopVars, faults>>

\* Fault: the first descriptor of a new process is taken for the old one.
RestartedWithOld ==
    /\ pc' = "idle"
    /\ newMetadata' = md /\ oldMetadata' = md
    /\ sshKeys' = [u \in Users |-> None]
    /\ mdKeyMap' = [u \in Users |-> None]
    /\ gUsers' = {} /\ gNil' = FALSE
    /\ todo' = {} /\ cur' = Malformed

\* The memory of a new agent process.
Restarted ==
    /\ pc' = "idle"
    /\ newMetadata' = EmptyDescriptor /\ oldMetadata' = EmptyDescriptor
    /\ sshKeys' = [u \in Users |-> None]
    /\ mdKeyMap' = [u \in Users |-> None]
    /\ gUsers' = {} /\ gNil' = FALSE
    /\ todo' = {} /\ cur' = Malformed

Crash ==
    /\ Fault("crash")
    /\ Restarted
    /\ UNCHANGED <<serverVars, accountVars, keyVars, gfile>>

-----------------------------------------------------------------------------
(* The metadata event.                                                     *)

\* Fault: keys that expire are not looked for.
DiffIgnoringExpiry(d) ==
    \/ d.instance # oldMetadata.instance
    \/ d.project # oldMetadata.project
    \/ d.block # oldMetadata.block
    \/ OSLoginEnabled(oldMetadata) /\ ~OSLoginEnabled(d)

\* accountsMgr.Diff()
Diff(d) ==
    \/ d.instance # oldMetadata.instance
    \/ d.project # oldMetadata.project
    \/ d.block # oldMetadata.block
    \/ \E u \in Users : KeysOf(sshKeys[u]) \cap expired # {}
    \/ OSLoginEnabled(oldMetadata) /\ ~OSLoginEnabled(d)

\* osloginMgr.Set() nils the keys when OS Login gets enabled and calls Set()
\* of the accounts manager, which is disabled otherwise.
EnablesOSLogin(d) == OSLoginEnabled(d) /\ ~OSLoginEnabled(oldMetadata)
RunsAccounts(d) == ~OSLoginEnabled(d) /\ Diff(d)
WithoutKeys(d) == [d EXCEPT !.instance = <<>>, !.project = <<>>]

\* A metadata event: the server answers a hanging request on a change or on a
\* timeout.  Up to the first loop of Set().
HandleEvent ==
    /\ pc = "idle"
    /\ EnablesOSLogin(md) \/ RunsAccounts(md)
    /\ newMetadata' = IF EnablesOSLogin(md) THEN WithoutKeys(md) ELSE md
    /\ mdKeyMap' = [u \in Users |-> GetUserKeys(newMetadata', u)]
    /\ todo' = {u \in Users : mdKeyMap'[u] # None}
    /\ pc' = "users"
    /\ \/ gUsers' = gfile /\ gNil' = FALSE /\ UNCHANGED faults
       \/ Fault("read") /\ gUsers' = {} /\ gNil' = TRUE
    /\ UNCHANGED <<serverVars, accountVars, keyVars, gfile, oldMetadata, sshKeys, cur>>

\* No manager acts on the event.
SkipEvent ==
    /\ pc = "idle"
    /\ ~EnablesOSLogin(md) /\ ~RunsAccounts(md)
    /\ newMetadata' = md /\ oldMetadata' = md
    /\ UNCHANGED <<serverVars, accountVars, keyVars, gfile, sshKeys, pc, localVars, loopVars, faults>>

-----------------------------------------------------------------------------
(* "Update SSH keys, creating Google users as needed", in any order.       *)

CreateUser(u) ==
    /\ pc = "users" /\ u \in todo /\ u \notin passwd
    /\ passwd' = passwd \cup {u}
    /\ sudoers' = sudoers \cup {u}
    /\ IF gNil
       THEN Restarted   \* assignment to an entry of a nil map
       ELSE /\ gUsers' = gUsers \cup {u}
            /\ cur' = u /\ todo' = todo \ {u}
            /\ pc' = "compare"
            /\ UNCHANGED <<mdVars, sshKeys, mdKeyMap, gNil>>
    /\ UNCHANGED <<serverVars, keyVars, gfile, faults>>

\* useradd fails, or the user is not added to google-sudoers.
CreateUserFails(u) ==
    /\ pc = "users" /\ u \in todo /\ u \notin passwd
    /\ \/ Fault("create") /\ UNCHANGED passwd
       \/ Fault("group") /\ passwd' = passwd \cup {u}
    /\ todo' = todo \ {u}
    /\ UNCHANGED <<serverVars, sudoers, keyVars, gfile, mdVars, sshKeys, pc, localVars, cur>>

\* An account of that name exists; one not managed yet is made a sudoer.
ExistingUser(u) ==
    /\ pc = "users" /\ u \in todo /\ u \in passwd
    /\ cur' = u /\ todo' = todo \ {u}
    /\ pc' = "compare"
    /\ \/ u \in gUsers /\ UNCHANGED <<sudoers, faults>>
       \/ u \notin gUsers /\ sudoers' = sudoers \cup {u} /\ UNCHANGED faults
       \/ u \notin gUsers /\ Fault("group") /\ UNCHANGED sudoers
    /\ UNCHANGED <<serverVars, passwd, keyVars, gfile, mdVars, sshKeys, localVars>>

KeysUpToDate ==
    /\ pc = "compare" /\ mdKeyMap[cur] = sshKeys[cur]
    /\ pc' = "users"
    /\ UNCHANGED <<serverVars, accountVars, keyVars, gfile, mdVars, sshKeys, localVars, loopVars, faults>>

-----------------------------------------------------------------------------
(* updateAuthorizedKeysFile().                                             *)

\* The temporary file is opened without O_TRUNC: what an earlier, longer one
\* left behind follows the new keys.
Overlay(new, old) ==
    IF old = None \/ Len(new) >= Len(old) THEN new ELSE new \o SubSeq(old, Len(new) + 1, Len(old))

\* The errors of the writes themselves are dropped by the code; a write that falls
\* short (a full disk) is left out here.
WriteTemp(keys, to) ==
    /\ cur \in passwd /\ cur \notin NoLogin
    /\ temp' = [temp EXCEPT ![cur] = Overlay(keys, temp[cur])]
    /\ pc' = to
    /\ UNCHANGED ak

\* What may fail before the temporary file is written: lookup, mkdir, read, open.
WriteFails(kind) == Fault(kind) /\ UNCHANGED keyVars

\* The temporary file is removed when chown fails and stays when restorecon or
\* rename does.
CommitFails(kind) ==
    \/ Fault(kind) /\ temp' = [temp EXCEPT ![cur] = None] /\ UNCHANGED ak
    \/ Fault("commit") /\ UNCHANGED keyVars

Rename ==
    /\ ak' = [ak EXCEPT ![cur] = temp[cur]]
    /\ temp' = [temp EXCEPT ![cur] = None]

-----------------------------------------------------------------------------
UpdateKeys ==
    /\ pc = "compare" /\ mdKeyMap[cur] # sshKeys[cur]
    /\ WriteTemp(mdKeyMap[cur], "rename")
    /\ UNCHANGED <<serverVars, accountVars, gfile, mdVars, sshKeys, localVars, loopVars, faults>>

\* Fault: the cache is updated although the file was not.
UpdateKeysFailsCached ==
    /\ \/ pc = "compare" /\ mdKeyMap[cur] # sshKeys[cur] /\ WriteFails("write")
       \/ pc = "rename" /\ CommitFails("write")
    /\ sshKeys' = [sshKeys EXCEPT ![cur] = mdKeyMap[cur]]
    /\ pc' = "users"
    /\ UNCHANGED <<serverVars, accountVars, gfile, mdVars, localVars, loopVars>>

\* The user keeps the keys it has, and so does sshKeys.
UpdateKeysFails ==
    /\ \/ pc = "compare" /\ mdKeyMap[cur] # sshKeys[cur] /\ WriteFails("write")
       \/ pc = "rename" /\ CommitFails("write")
    /\ pc' = "users"
    /\ UNCHANGED <<serverVars, accountVars, gfile, mdVars, sshKeys, localVars, loopVars>>

\* Fault: the keys written are not cached.
UpdateKeysDoneUncached ==
    /\ \/ pc = "rename" /\ Rename
       \/ pc = "compare" /\ mdKeyMap[cur] # sshKeys[cur] /\ cur \in NoLogin /\ UNCHANGED keyVars
    /\ pc' = "users"
    /\ UNCHANGED <<serverVars, accountVars, gfile, mdVars, sshKeys, localVars, loopVars, faults>>

UpdateKeysDone ==
    /\ \/ pc = "rename" /\ Rename
       \/ pc = "compare" /\ mdKeyMap[cur] # sshKeys[cur] /\ cur \in NoLogin /\ UNCHANGED keyVars
    /\ sshKeys' = [sshKeys EXCEPT ![cur] = mdKeyMap[cur]]
    /\ pc' = "users"
    /\ UNCHANGED <<serverVars, accountVars, gfile, mdVars, localVars, loopVars, faults>>

UsersDone ==
    /\ pc = "users" /\ todo = {}
    /\ todo' = {u \in gUsers : mdKeyMap[u] = None}
    /\ pc' = "remove"
    /\ UNCHANGED <<serverVars, accountVars, keyVars, gfile, mdVars, sshKeys, localVars, cur, faults>>

-----------------------------------------------------------------------------
(* "Remove Google users not found in metadata."                            *)

RemoveNext(u) ==
    /\ pc = "remove" /\ u \in todo
    /\ cur' = u /\ todo' = todo \ {u}
    /\ pc' = "removing"
    /\ UNCHANGED <<serverVars, accountVars, keyVars, gfile, mdVars, sshKeys, localVars, faults>>

DeleteUser ==
    /\ pc = "removing" /\ deprovision /\ cur \in passwd
    /\ passwd' = passwd \ {cur} /\ sudoers' = sudoers \ {cur}
    /\ ak' = [ak EXCEPT ![cur] = None]
    /\ temp' = [temp EXCEPT ![cur] = None]
    /\ pc' = "removed"
    /\ UNCHANGED <<serverVars, gfile, mdVars, sshKeys, localVars, loopVars, faults>>

RemoveKeys ==
    /\ pc = "removing" /\ ~deprovision
    /\ WriteTemp(None, "removerename")
    /\ UNCHANGED <<serverVars, accountVars, gfile, mdVars, sshKeys, localVars, loopVars, faults>>

RemoveKeysDone ==
    /\ \/ pc = "removerename" /\ Rename
       \/ pc = "removing" /\ ~deprovision /\ cur \in NoLogin \cap passwd /\ UNCHANGED keyVars
    /\ pc' = "ungroup"
    /\ UNCHANGED <<serverVars, accountVars, gfile, mdVars, sshKeys, localVars, loopVars, faults>>

Ungroup ==
    /\ pc = "ungroup"
    /\ pc' = "removed"
    /\ \/ sudoers' = sudoers \ {cur} /\ UNCHANGED faults
       \/ Fault("group") /\ UNCHANGED sudoers
    /\ UNCHANGED <<serverVars, passwd, keyVars, gfile, mdVars, sshKeys, localVars, loopVars>>

\* userdel or the update of the keys fails, or there is no such user.
RemoveFails ==
    /\ \/ pc = "removing" /\ cur \notin passwd /\ UNCHANGED <<keyVars, faults>>
       \/ pc = "removing" /\ deprovision /\ Fault("remove") /\ UNCHANGED keyVars
       \/ pc = "removing" /\ ~deprovision /\ WriteFails("remove")
       \/ pc = "removerename" /\ CommitFails("remove")
    /\ pc' = "removed"
    /\ UNCHANGED <<serverVars, accountVars, gfile, mdVars, sshKeys, localVars, loopVars>>

\* delete(sshKeys, user), whether the removal failed or not.
ForgetUser ==
    /\ pc = "removed"
    /\ sshKeys' = [sshKeys EXCEPT ![cur] = None]
    /\ pc' = "remove"
    /\ UNCHANGED <<serverVars, accountVars, keyVars, gfile, mdVars, localVars, loopVars, faults>>

-----------------------------------------------------------------------------
\* writeGoogleUsersFile() truncates the file when it opens it.
TruncateUsersFile ==
    /\ pc = "remove" /\ todo = {}
    /\ gfile' = {}
    /\ pc' = "write"
    /\ UNCHANGED <<serverVars, accountVars, keyVars, mdVars, sshKeys, localVars, loopVars, faults>>

\* The users of sshKeys are written; the event's callback ends.
WriteUsersFile ==
    /\ pc = "write"
    /\ gfile' = {u \in Users : sshKeys[u] # None}
    /\ oldMetadata' = newMetadata
    /\ pc' = "idle"
    /\ UNCHANGED <<serverVars, accountVars, keyVars, newMetadata, sshKeys, localVars, loopVars, faults>>

WriteUsersFileFails ==
    /\ pc = "remove" /\ todo = {} /\ Fault("write")
    /\ oldMetadata' = newMetadata
    /\ pc' = "idle"
    /\ UNCHANGED <<serverVars, accountVars, keyVars, gfile, newMetadata, sshKeys, localVars, loopVars>>

AgentStep ==
    \/ HandleEvent \/ SkipEvent
    \/ \E u \in Users : CreateUser(u) \/ CreateUserFails(u) \/ ExistingUser(u)
    \/ KeysUpToDate \/ UpdateKeys \/ UpdateKeysFails \/ UpdateKeysDone \/ UsersDone
    \/ \E u \in Users : RemoveNext(u)
    \/ DeleteUser \/ RemoveKeys \/ RemoveKeysDone \/ Ungroup \/ RemoveFails \/ ForgetUser
    \/ TruncateUsersFile \/ WriteUsersFile \/ WriteUsersFileFails

Next == AgentStep \/ ServerChange \/ (\E k \in Keys : Expire(k)) \/ Crash

Spec == Init /\ [][Next]_vars

\* The watcher delivers an event at the latest after timeout_sec, commands end.
FairSpec == Spec /\ WF_vars(AgentStep)

-----------------------------------------------------------------------------
\* Type invariant of the manager, of its files and of the metadata.
TypeOK ==
    /\ deprovision \in DeprovisionRemove /\ md \in Descriptors /\ expired \subseteq Keys
    /\ passwd \subseteq Users /\ sudoers \subseteq Users
    /\ ak \in [Users -> Seq(Keys)] /\ temp \in [Users -> Seq(Keys)]
    /\ gfile \subseteq Users
    /\ sshKeys \in [Users -> Seq(Keys)] /\ mdKeyMap \in [Users -> Seq(Keys)]
    /\ gUsers \subseteq Users /\ gNil \in BOOLEAN
    /\ pc \in {"idle", "users", "compare", "rename", "remove", "removing", "removerename",
               "ungroup", "removed", "write"}
    /\ todo \subseteq Users /\ cur \in Users \cup {Malformed}
    /\ changes \in 0..MaxChanges /\ faults \in Seq(Faults) /\ Len(faults) <= MaxFaults

\* The manager skips a user whose keys equal the cached ones (compareStringSlice
\* with sshKeys[user]): the cache never says something the disk does not hold,
\* whichever commands fail, unless a temporary file was left behind, which the
\* next update does not truncate.  (A user being removed is dropped from it last.)
CacheMatchesDisk ==
    Failed \cap {"commit", "crash"} = {} =>
        \A u \in Users \ NoLogin :
            sshKeys[u] # None => ak[u] = sshKeys[u] \/ (u = cur /\ pc \in {"ungroup", "removed"})

\* "The daemon stores a file in the guest to record which user accounts are
\* managed by Google": between updates, a user holding keys from the agent is
\* in google_users, the list the next agent process removes users from, also
\* when users could not be created or put into groups.
KeysTracked ==
    pc = "idle" /\ Failed \subseteq {"create", "group"} =>
        \A u \in Users : ak[u] # None => u \in gfile

\* A key the metadata grants to a user of a login shell.
Granted(u, k) ==
    /\ ~OSLoginEnabled(md) /\ u \notin NoLogin
    /\ k \in KeysOf(GetUserKeys(md, u))

\* Every key the metadata grants gets into authorized_keys, although the agent
\* may die anywhere.  (A failed command is not tried again.)
KeysGranted ==
    []<>(\/ ~(Failed \subseteq {"crash"})
         \/ \A u \in Users, k \in Keys : Granted(u, k) => k \in KeysOf(ak[u]))

\* Every key that was removed from the metadata, has expired, was blocked or
\* gave way to OS Login leaves authorized_keys.  (A removal that failed is not
\* tried again, and an agent that died may have left users it has not recorded.)
KeysRevoked ==
    []<>(Failed # {} \/ \A u \in Users : \A k \in KeysOf(ak[u]) : Granted(u, k))
=============================================================================
