----------------------------- MODULE FirstBoot -----------------------------
(***************************************************************************)
(* agentInit()'s first-boot detection and the generation of the SSH host   *)
(* keys (instance_setup.go).  The disk of an instance may become the disk  *)
(* of another one, whose agent finds the first one's ID and keys.          *)
(*                                                                         *)
(* A key file holds the generation it was made in: a number that is new    *)
(* for every ssh-keygen (external), which refuses to overwrite a file.     *)
(***************************************************************************)
EXTENDS Naturals, FiniteSets

CONSTANTS
    Ids,         \* instance IDs
    KeyTypes,    \* key types of the configuration and of the files on disk
    NoId,        \* an empty or missing instance ID
    FirstFiles,  \* what the instance ID file may hold at first
    FirstLegacy, \* what [Instance] instance_id of the configuration may be
    MaxClones,   \* bound: new instances of the disk
    MaxFaults,   \* bound: failed steps
    MaxCrashes   \* bound: deaths of the agent or of the VM

NoFile == 0

ASSUME FirstBootAssumption ==
    /\ NoId \notin Ids
    /\ FirstFiles \subseteq Ids \cup {NoId}
    /\ FirstLegacy \subseteq Ids \cup {NoId}
    /\ {MaxClones, MaxFaults, MaxCrashes} \subseteq Nat

VARIABLES
    id,        \* newMetadata.Instance.ID
    idFile,    \* the instance ID file
    legacy,    \* config.Instance.InstanceID
    pc,        \* where agentInit() is
    local,     \* the instance ID found on disk
    todo,      \* key types left
    cur,       \* key type being generated
    priv, pub,         \* ssh_host_<type>_key and ssh_host_<type>_key.pub
    tempPriv, tempPub, \* the same with .temp
    gen,       \* the last generation
    genFor,    \* history: the instance each generation was made for
    attrs,     \* generation uploaded to the guest attributes
    seen,      \* IDs used so far
    exposed,   \* history: a crash the next boot cannot see
    faults, crashes

idVars == <<idFile, legacy>>
keyVars == <<priv, pub>>
tempVars == <<tempPriv, tempPub>>
genVars == <<gen, genFor>>
loopVars == <<todo, cur>>
boundVars == <<seen, exposed, faults, crashes>>
vars == <<id, idVars, pc, local, loopVars, keyVars, tempVars, genVars, attrs, boundVars>>

\* The keys of the image: generation 1, made for nobody.
Init ==
    /\ id \in Ids
    /\ idFile \in FirstFiles \ {id}
    /\ legacy \in FirstLegacy \ {id}
    /\ pc = "off"
    /\ local = NoId
    /\ todo = {} /\ cur \in KeyTypes
    /\ priv = [t \in KeyTypes |-> 1] /\ pub = [t \in KeyTypes |-> 1]
    /\ tempPriv = [t \in KeyTypes |-> NoFile] /\ tempPub = [t \in KeyTypes |-> NoFile]
    /\ gen = 1 /\ genFor = [g \in {1} |-> NoId]
    /\ attrs = [t \in KeyTypes |-> NoFile]
    /\ seen = {id, idFile, legacy}
    /\ exposed = FALSE
    /\ faults = 0 /\ crashes = 0

Fault == faults < MaxFaults /\ faults' = faults + 1

-----------------------------------------------------------------------------
(* The machine.                                                            *)

Boot ==
    /\ pc = "off"
    /\ pc' = "read"
    /\ UNCHANGED <<id, idVars, local, loopVars, keyVars, tempVars, genVars, attrs, boundVars>>

\* A first boot whose ID is already written, or with a temporary key in place.
LeavesTrace ==
    \/ pc = "rename"
    \/ local # id /\ idFile = id /\ pc \in {"compare", "keys", "renamePub", "upload"}

Crash ==
    /\ pc # "off" /\ crashes < MaxCrashes
    /\ crashes' = crashes + 1
    /\ exposed' = (exposed \/ LeavesTrace)
    /\ pc' = "off"
    /\ UNCHANGED <<id, idVars, local, loopVars, keyVars, tempVars, genVars, attrs, seen, faults>>

\* The agent is stopped in the ordinary way: it starts again with the next boot.
Restart ==
    /\ pc = "ready"
    /\ pc' = "off"
    /\ UNCHANGED <<id, idVars, local, loopVars, keyVars, tempVars, genVars, attrs, boundVars>>

\* A new instance is created from the disk of one whose agent was ready.
Clone ==
    /\ pc = "ready"
    /\ Cardinality(seen \cap Ids) <= MaxClones
    /\ \E new \in Ids \ seen :
        /\ id' = new
        /\ seen' = seen \cup {new}
    /\ pc' = "off"
    /\ attrs' = [t \in KeyTypes |-> NoFile]
    /\ UNCHANGED <<idVars, local, loopVars, keyVars, tempVars, genVars, exposed, faults, crashes>>

-----------------------------------------------------------------------------
(* agentInit().                                                            *)

ReadID ==
    /\ pc = "read"
    /\ local' = IF idFile = NoId THEN legacy ELSE idFile
    /\ pc' = IF idFile = NoId THEN "early" ELSE "compare"
    /\ UNCHANGED <<id, idVars, loopVars, keyVars, tempVars, genVars, attrs, boundVars>>

\* "Not running first-boot actions, error reading instance ID", or the agent
\* exits because it cannot reach the metadata server.
ReadIDFails ==
    /\ pc = "read" /\ Fault
    /\ pc' \in {"ready", "off"}
    /\ UNCHANGED <<id, idVars, local, loopVars, keyVars, tempVars, genVars, attrs, seen, exposed, crashes>>

\* "Write instance ID to file for next time before moving on.": the file is missing or
\* empty, so that truncating it, or failing to write it, changes nothing.
WriteIDEarly ==
    /\ pc = "early"
    /\ \/ idFile' = id /\ UNCHANGED faults
       \/ Fault /\ UNCHANGED idFile
    /\ pc' = "compare"
    /\ UNCHANGED <<id, legacy, local, loopVars, keyVars, tempVars, genVars, attrs, seen, exposed, crashes>>

\* Fault: the file is read again after it was written.
CompareIDFile ==
    /\ pc = "compare"
    /\ pc' = IF idFile # id THEN "keys" ELSE "ready"
    /\ todo' = IF idFile # id THEN KeyTypes ELSE {}
    /\ UNCHANGED <<id, idVars, local, cur, keyVars, tempVars, genVars, attrs, boundVars>>

CompareID ==
    /\ pc = "compare"
    /\ pc' = IF local # id THEN "keys" ELSE "ready"
    /\ todo' = IF local # id THEN KeyTypes ELSE {}
    /\ UNCHANGED <<id, idVars, local, cur, keyVars, tempVars, genVars, attrs, boundVars>>

-----------------------------------------------------------------------------
(* generateSSHKeys(): the types in any order.                              *)

\* Fault: the new key is published before it is in place.
KeygenPublished(t) ==
    /\ pc = "keys" /\ t \in todo /\ tempPriv[t] = NoFile
    /\ todo' = todo \ {t} /\ cur' = t
    /\ gen' = gen + 1
    /\ genFor' = [g \in 1..(gen + 1) |-> IF g <= gen THEN genFor[g] ELSE id]
    /\ tempPriv' = [tempPriv EXCEPT ![t] = gen + 1]
    /\ tempPub' = [tempPub EXCEPT ![t] = gen + 1]
    /\ attrs' = [attrs EXCEPT ![t] = gen + 1]
    /\ pc' = "rename"
    /\ UNCHANGED <<id, idVars, local, keyVars, boundVars>>

Keygen(t) ==
    /\ pc = "keys" /\ t \in todo /\ tempPriv[t] = NoFile
    /\ todo' = todo \ {t} /\ cur' = t
    /\ gen' = gen + 1
    /\ genFor' = [g \in 1..(gen + 1) |-> IF g <= gen THEN genFor[g] ELSE id]
    /\ tempPriv' = [tempPriv EXCEPT ![t] = gen + 1]
    /\ tempPub' = [tempPub EXCEPT ![t] = gen + 1]
    /\ pc' = "rename"
    /\ UNCHANGED <<id, idVars, local, keyVars, attrs, boundVars>>

\* ssh-keygen fails, always when the file is there.
KeygenFails(t) ==
    /\ pc = "keys" /\ t \in todo
    /\ \/ tempPriv[t] # NoFile /\ UNCHANGED faults
       \/ Fault
    /\ todo' = todo \ {t}
    /\ UNCHANGED <<id, idVars, pc, local, cur, keyVars, tempVars, genVars, attrs, seen, exposed, crashes>>

RenameKey ==
    /\ pc = "rename"
    /\ priv' = [priv EXCEPT ![cur] = tempPriv[cur]]
    /\ tempPriv' = [tempPriv EXCEPT ![cur] = NoFile]
    /\ pc' = "renamePub"
    /\ UNCHANGED <<id, idVars, local, loopVars, pub, tempPub, genVars, attrs, boundVars>>

RenamePub ==
    /\ pc = "renamePub"
    /\ pub' = [pub EXCEPT ![cur] = tempPub[cur]]
    /\ tempPub' = [tempPub EXCEPT ![cur] = NoFile]
    /\ pc' = "upload"
    /\ UNCHANGED <<id, idVars, local, loopVars, priv, tempPriv, genVars, attrs, boundVars>>

\* A chmod or a rename fails: the rest is left as it is.
RenameFails ==
    /\ pc \in {"rename", "renamePub"} /\ Fault
    /\ pc' = "keys"
    /\ UNCHANGED <<id, idVars, local, loopVars, keyVars, tempVars, genVars, attrs, seen, exposed, crashes>>

\* WriteGuestAttributes() of the public key, which may fail.
Upload ==
    /\ pc = "upload"
    /\ \/ attrs' = [attrs EXCEPT ![cur] = pub[cur]] /\ UNCHANGED faults
       \/ Fault /\ UNCHANGED attrs
    /\ pc' = "keys"
    /\ UNCHANGED <<id, idVars, local, loopVars, keyVars, tempVars, genVars, seen, exposed, crashes>>

\* "Write instance ID to file.", whatever became of the keys: os.WriteFile() truncates
\* the file first.
OpenID ==
    /\ pc = "keys" /\ todo = {}
    /\ \/ idFile' = NoId /\ pc' = "idWrite" /\ UNCHANGED faults
       \/ Fault /\ pc' = "ready" /\ UNCHANGED idFile
    /\ UNCHANGED <<id, legacy, local, loopVars, keyVars, tempVars, genVars, attrs, seen, exposed, crashes>>

WriteID ==
    /\ pc = "idWrite"
    /\ \/ idFile' = id /\ UNCHANGED faults
       \/ Fault /\ UNCHANGED idFile
    /\ pc' = "ready"
    /\ UNCHANGED <<id, legacy, local, loopVars, keyVars, tempVars, genVars, attrs, seen, exposed, crashes>>

AgentStep ==
    \/ ReadID \/ ReadIDFails \/ WriteIDEarly \/ CompareID
    \/ \E t \in KeyTypes : Keygen(t) \/ KeygenFails(t)
    \/ RenameKey \/ RenamePub \/ RenameFails \/ Upload \/ OpenID \/ WriteID

Next == Boot \/ Restart \/ Crash \/ Clone \/ AgentStep

Spec == Init /\ [][Next]_vars

-----------------------------------------------------------------------------
\* Type invariant of the instance's disk and of agentInit().
TypeOK ==
    /\ id \in Ids /\ {idFile, legacy, local} \subseteq Ids \cup {NoId}
    /\ pc \in {"off", "read", "early", "compare", "keys", "rename", "renamePub", "upload", "idWrite", "ready"}
    /\ todo \subseteq KeyTypes /\ cur \in KeyTypes
    /\ gen \in Nat /\ DOMAIN genFor = 1..gen
    /\ \A f \in {priv, pub} : f \in [KeyTypes -> 1..gen]
    /\ \A f \in {tempPriv, tempPub, attrs} : f \in [KeyTypes -> 0..gen]
    /\ seen \subseteq Ids \cup {NoId} /\ exposed \in BOOLEAN
    /\ faults \in 0..MaxFaults /\ crashes \in 0..MaxCrashes

\* "Check if instance ID has changed, and if so, consider this the first boot of
\* the instance": an agent that reports ready without a fault has host keys made
\* for this instance, whatever disk it was created from and however often it
\* died, unless it died after writing the ID early or with a temporary key in
\* place, which the next boot does not make up for.
\* The two halves of a key, renamed one after the other, belong together then,
\* also after a crash between the two: the next boot makes a new pair.
OwnHostKeys ==
    pc = "ready" /\ faults = 0 /\ ~exposed =>
        \A t \in KeyTypes : genFor[priv[t]] = id /\ priv[t] = pub[t]

\* The guest attributes never publish a key that sshd has not got, and a ready agent
\* has published the key sshd uses, although crashes, also one that leaves the
\* instance ID empty, may make it generate several.  The two deaths of OwnHostKeys
\* that the next boot does not make up for are the only way to leave an outdated key
\* published.
PublishedKeyIsUsed ==
    \A t \in KeyTypes : attrs[t] # NoFile =>
        /\ attrs[t] <= priv[t]
        /\ pc = "ready" /\ faults = 0 /\ ~exposed => attrs[t] = priv[t]
=============================================================================
