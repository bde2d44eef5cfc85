-------------------------- MODULE WindowsAccounts --------------------------
(***************************************************************************)
(* The Windows accounts manager (windows_accounts.go): it creates users    *)
(* for SSH and answers each key under windows-keys with a new password of  *)
(* the key's user, encrypted with the key, on the serial port.  The keys   *)
(* that were answered are kept in the registry.                            *)
(*                                                                         *)
(* A password is the number of the call of newPwd() that made it; one that *)
(* was made for SSH only is 0, nobody is told of it.                       *)
(***************************************************************************)
EXTENDS WindowsLoop

CONSTANT WinUsers

VARIABLES
    accounts,  \* users that exist
    admins,    \* members of Administrators
    password,  \* of each user
    lastPwd,   \* the last password newPwd() made
    told,      \* the password in the last reply about each user, 0 if it was an error
    erred,     \* users the last reply about was an error
    publicKeys,\* the registry's PublicKeys
    sshTodo,   \* users createSSHUser() has left to do
    toAdd,     \* positions in wNew of the keys that are left to answer
    creds,     \* the reply about to be printed: a password, 0 for an error
    resetBy,   \* history: the key each user's password was last set for, or none
    resets     \* history: how often each key has had a password set

winUserVars == <<accounts, admins, password, lastPwd>>
serialVars == <<told, erred>>
setVars == <<sshTodo, toAdd, creds>>
resetVars == <<resetBy, resets>>
winAccountVars == <<winUserVars, serialVars, publicKeys, setVars, resetVars>>

\* The keys of any metadata.  Two that differ in the flags only are the same key to
\* compareAccounts().
WinKeys == IF "accounts" \in DOMAIN Parts THEN UNION {ToSet(d.keys) : d \in Parts["accounts"]} ELSE {}
KeyIds == {k.id : k \in WinKeys}

WinAccountsInit ==
    /\ accounts = {} /\ admins = {} /\ password = [u \in WinUsers |-> 0] /\ lastPwd = 0
    /\ told = [u \in WinUsers |-> 0] /\ erred = {}
    /\ publicKeys = {}
    /\ sshTodo = {} /\ toAdd = {} /\ creds = 0
    /\ resetBy = [u \in WinUsers |-> {}] /\ resets = [i \in KeyIds |-> 0]

WinAt(p) == mgr = "accounts" /\ wPc = p

\* getWinSSHEnabled() decides whether the users of the SSH keys are looked at.
SSHUsers(d) == IF d.ssh THEN d.sshUsers ELSE {}

\* Diff(), and Set() up to the loop over those users.
WinDiff ==
    /\ WinAt("start")
    /\ IF wNew = wOld
       THEN EventDone /\ UNCHANGED sshTodo
       ELSE Goto("ssh") /\ sshTodo' = SSHUsers(wNew)
    /\ UNCHANGED <<wFaults, winUserVars, serialVars, publicKeys, toAdd, creds, resetVars>>

\* An account that could not be created, or be made an administrator, is passed over.
CreateSSHUser(u) ==
    /\ WinAt("ssh") /\ u \in sshTodo
    /\ sshTodo' = sshTodo \ {u}
    /\ \/ u \in accounts /\ UNCHANGED <<accounts, admins, wFaults>>
       \/ /\ u \notin accounts /\ accounts' = accounts \cup {u} /\ admins' = admins \cup {u}
          /\ UNCHANGED wFaults
       \/ /\ u \notin accounts /\ WinFault("create")
          /\ accounts' \in {accounts, accounts \cup {u}} /\ UNCHANGED admins
    /\ Goto("ssh")
    /\ UNCHANGED <<password, lastPwd, serialVars, publicKeys, toAdd, creds, resetVars>>

\* compareAccounts(): the positions of the keys that are not recorded.
CompareAccounts(keys, recorded) ==
    {n \in DOMAIN keys : \A r \in recorded : r.user # keys[n].user \/ r.id # keys[n].id}

\* The first of the keys that are left.
FirstToAdd == wNew.keys[Min(toAdd)]

ReadPublicKeys ==
    /\ WinAt("ssh") /\ sshTodo = {}
    /\ \/ Goto("keys") /\ toAdd' = CompareAccounts(wNew.keys, publicKeys) /\ UNCHANGED wFaults
       \/ WinFault("read") /\ EventDone /\ UNCHANGED toAdd
    /\ UNCHANGED <<winUserVars, serialVars, publicKeys, sshTodo, creds, resetVars>>

\* createUser() or resetPwd() for key k, and what follows from it.
ResetPwd(k, joined, reply) ==
    /\ accounts' = accounts \cup {k.user}
    /\ password' = [password EXCEPT ![k.user] = lastPwd + 1] /\ lastPwd' = lastPwd + 1
    /\ admins' = IF joined THEN admins \cup {k.user} ELSE admins
    /\ creds' = reply
    /\ resetBy' = [resetBy EXCEPT ![k.user] = {k.id}]
    /\ resets' = [resets EXCEPT ![k.id] = @ + 1]

\* createcredsJSON(): the password, encrypted with the key if that is one.
CreateCreds(k) == IF k.valid THEN lastPwd + 1 ELSE 0

\* createOrResetPwd() of the first key: the password is set first, then the group is
\* joined and then the key is looked at.
CreateOrResetPwd ==
    LET k == FirstToAdd
        joins == k.admin = "true" \/ (k.user \notin accounts /\ k.admin = "unset")
    IN  /\ WinAt("keys") /\ toAdd # {}
        /\ \/ ResetPwd(k, joins, CreateCreds(k)) /\ UNCHANGED wFaults
           \/ joins /\ WinFault("group") /\ ResetPwd(k, FALSE, 0)
           \/ WinFault("password") /\ creds' = 0 /\ UNCHANGED <<winUserVars, resetVars>>
        /\ Goto("print")
        /\ UNCHANGED <<serialVars, publicKeys, sshTodo, toAdd>>

\* The error of printCreds() is ignored.
PrintCreds ==
    LET u == FirstToAdd.user
    IN  /\ WinAt("print")
        /\ \/ /\ told' = [told EXCEPT ![u] = creds]
              /\ erred' = IF creds = 0 THEN erred \cup {u} ELSE erred \ {u}
              /\ UNCHANGED wFaults
           \/ WinFault("print") /\ UNCHANGED serialVars
        /\ toAdd' = toAdd \ {Min(toAdd)}
        /\ Goto("keys")
        /\ UNCHANGED <<winUserVars, publicKeys, sshTodo, creds, resetVars>>

\* Fault: only the keys that were just answered are recorded.
WritePublicKeysAdded ==
    /\ WinAt("keys") /\ toAdd = {}
    /\ \/ publicKeys' = {wNew.keys[n] : n \in CompareAccounts(wNew.keys, publicKeys)} /\ UNCHANGED wFaults
       \/ WinFault("write") /\ UNCHANGED publicKeys
    /\ EventDone
    /\ UNCHANGED <<winUserVars, serialVars, setVars, resetVars>>

WritePublicKeys ==
    /\ WinAt("keys") /\ toAdd = {}
    /\ \/ publicKeys' = ToSet(wNew.keys) /\ UNCHANGED wFaults
       \/ WinFault("write") /\ UNCHANGED publicKeys
    /\ EventDone
    /\ UNCHANGED <<winUserVars, serialVars, setVars, resetVars>>

WinAccountsStep ==
    \/ WinDiff \/ \E u \in WinUsers : CreateSSHUser(u)
    \/ ReadPublicKeys \/ CreateOrResetPwd \/ PrintCreds \/ WritePublicKeys

\* A new process has none of Set()'s variables.
WinAccountsRestarted ==
    /\ sshTodo' = {} /\ toAdd' = {} /\ creds' = 0
    /\ UNCHANGED <<winUserVars, serialVars, publicKeys, resetVars>>

-----------------------------------------------------------------------------
\* Type invariant of the accounts.
WinAccountsTypeOK ==
    /\ UNION {accounts, admins, erred, sshTodo} \subseteq WinUsers
    /\ password \in [WinUsers -> 0..lastPwd] /\ told \in [WinUsers -> 0..lastPwd]
    /\ publicKeys \subseteq WinKeys /\ (toAdd # {} => toAdd \subseteq DOMAIN wNew.keys) /\ creds \in 0..lastPwd
    /\ resetBy \in [WinUsers -> SUBSET KeyIds] /\ resets \in [KeyIds -> Nat]

\* The owner of a key that stays in metadata gets an answer that opens the account, or
\* an error.  (The key that reset the password last may be gone again.  A reply that
\* could not be printed is lost, and so are keys the registry could not be read for.)
KeysAnswered ==
    LET keys == ToSet(wMd.keys)
        Answered(u) ==
            \/ u \in erred
            \/ password[u] > 0 /\ told[u] = password[u]
            \/ resetBy[u] # {} /\ resetBy[u] \cap {k.id : k \in keys} = {}
    IN  wFaults.kinds \cap {"print", "read"} = {} => \A k \in keys : Answered(k.user)

\* No key costs its user the password twice: not because the agent restarts, and
\* again only when the key is back in metadata or its record was lost.
ResetOnce == \A i \in KeyIds : resets[i] <= 1 + wChanges \div 2 + wFaults.number
=============================================================================
