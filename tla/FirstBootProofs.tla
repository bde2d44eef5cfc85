-------------------------- MODULE FirstBootProofs --------------------------
(***************************************************************************)
(* Theorems about FirstBoot, for any number of instances, key types,       *)
(* clones, faults and crashes.                                             *)
(***************************************************************************)
EXTENDS FirstBoot, TLAPS

-----------------------------------------------------------------------------
(* The inductive invariant.                                                *)

\* A first boot, from generateSSHKeys() to the write of the ID.
Generating == {"keys", "rename", "renamePub", "upload", "idWrite"}

\* The IDs: that of a new instance is not yet on the disk, and generateSSHKeys()
\* runs for an ID that differs from the one found.
IdInv ==
    /\ {id, legacy} \subseteq seen /\ idFile \in seen \cup {NoId} /\ legacy # id
    /\ pc = "early" => idFile = NoId /\ local = legacy
    /\ pc = "compare" /\ local = id => idFile = id
    /\ pc \in Generating => local # id

\* The key that is being put in place is new and made for this instance.
PairInv ==
    /\ pc \in {"rename", "renamePub", "upload"} => cur \notin todo
    /\ pc = "idWrite" => todo = {} /\ idFile = NoId
    /\ \A t \in KeyTypes : attrs[t] <= priv[t]
    /\ \A t \in KeyTypes : tempPriv[t] # NoFile => priv[t] < tempPriv[t]
    /\ pc = "rename" =>
          tempPriv[cur] # NoFile /\ tempPub[cur] = tempPriv[cur] /\ genFor[tempPriv[cur]] = id
    /\ pc = "renamePub" => tempPub[cur] = priv[cur] /\ genFor[priv[cur]] = id
    /\ pc = "upload" => pub[cur] = priv[cur] /\ genFor[priv[cur]] = id

\* A key of this instance, both halves of it.
Own(t) == genFor[priv[t]] = id /\ priv[t] = pub[t]

\* Nothing failed, and no crash left a trace: keys the loop has passed are the
\* instance's own, and the ID on disk says so of all of them unless it was written
\* early by the agent that now runs.
OwnInv ==
    faults = 0 /\ ~exposed =>
        /\ \A t \in KeyTypes : tempPriv[t] = NoFile \/ (pc = "rename" /\ t = cur)
        /\ pc \in Generating =>
              \A t \in KeyTypes \ todo : Own(t) \/ (t = cur /\ pc \in {"rename", "renamePub"})
        /\ pc = "ready" => \A t \in KeyTypes : Own(t)
        /\ idFile = id => \/ \A t \in KeyTypes : Own(t)
                          \/ local # id /\ pc \in {"compare"} \cup Generating

\* What is published is in use.
Fresh(t) == attrs[t] # NoFile => attrs[t] = priv[t]

\* The same of what is published: an agent that finds its ID on disk has nothing left
\* to publish, unless it was written early by the agent that now runs.
FreshInv ==
    faults = 0 /\ ~exposed =>
        /\ pc \in Generating =>
              \A t \in KeyTypes \ todo : Fresh(t) \/ (t = cur /\ pc \in {"rename", "renamePub", "upload"})
        /\ pc = "ready" => \A t \in KeyTypes : Fresh(t)
        /\ idFile = id => \/ \A t \in KeyTypes : Fresh(t)
                          \/ local # id /\ pc \in {"compare"} \cup Generating

BootInv == TypeOK /\ IdInv /\ PairInv /\ OwnInv /\ FreshInv

-----------------------------------------------------------------------------
\* A key more: the numbers of the earlier ones are still numbers of keys.
LEMMA OneMore ==
    ASSUME NEW g \in Nat
    PROVE  /\ 1..g \subseteq 1..(g + 1) /\ 0..g \subseteq 0..(g + 1)
           /\ g + 1 \in 0..(g + 1) /\ g + 1 \in Nat
OBVIOUS

\* The first boot starts in BootInv.
LEMMA BootInit == Init => BootInv
<1> SUFFICES ASSUME Init PROVE BootInv
  OBVIOUS
<1>1. id \in Ids /\ id # NoId /\ idFile # id /\ legacy # id
  BY FirstBootAssumption DEF Init
<1>2. TypeOK
  <2>1. {idFile, legacy, local} \subseteq Ids \cup {NoId} /\ seen \subseteq Ids \cup {NoId}
    BY FirstBootAssumption DEF Init
  <2>2. gen = 1 /\ 1 \in 1..gen /\ 0 \in 0..gen /\ DOMAIN genFor = 1..gen
    BY DEF Init
  <2>3. \A f \in {priv, pub} : f \in [KeyTypes -> 1..gen]
    BY <2>2 DEF Init
  <2>4. \A f \in {tempPriv, tempPub, attrs} : f \in [KeyTypes -> 0..gen]
    BY <2>2 DEF Init, NoFile
  <2>5. faults \in 0..MaxFaults /\ crashes \in 0..MaxCrashes
    BY FirstBootAssumption DEF Init
  <2>6. /\ id \in Ids /\ todo \subseteq KeyTypes /\ cur \in KeyTypes /\ gen \in Nat
        /\ pc = "off" /\ exposed \in BOOLEAN
    BY DEF Init
  <2> QED BY <2>1, <2>2, <2>3, <2>4, <2>5, <2>6 DEF TypeOK
<1>3. IdInv
  BY <1>1 DEF Init, IdInv, Generating
<1>4. PairInv
  BY DEF Init, PairInv, NoFile
<1>5. OwnInv /\ FreshInv
  BY <1>1 DEF Init, OwnInv, FreshInv, Fresh, Generating, NoFile
<1> QED BY <1>2, <1>3, <1>4, <1>5 DEF BootInv

\* Every action keeps BootInv.
LEMMA BootStep == BootInv /\ [Next]_vars => BootInv'
<1> SUFFICES ASSUME BootInv, [Next]_vars PROVE BootInv'
  OBVIOUS
<1> TypeOK /\ IdInv /\ PairInv /\ OwnInv /\ FreshInv
  BY DEF BootInv
<1> USE FirstBootAssumption
        DEF idVars, keyVars, tempVars, genVars, loopVars, boundVars, NoFile, Generating
<1>t. /\ id \in Ids /\ id # NoId /\ idFile \in Ids \cup {NoId} /\ gen \in Nat /\ cur \in KeyTypes
      /\ priv \in [KeyTypes -> 1..gen] /\ pub \in [KeyTypes -> 1..gen]
      /\ tempPriv \in [KeyTypes -> 0..gen] /\ tempPub \in [KeyTypes -> 0..gen]
      /\ attrs \in [KeyTypes -> 0..gen] /\ todo \subseteq KeyTypes /\ DOMAIN genFor = 1..gen
      /\ faults \in Nat
  BY DEF TypeOK
<1>1. CASE Boot
  <2>1. TypeOK'
    BY <1>1 DEF Boot, TypeOK
  <2>2. IdInv'
    BY <1>1 DEF Boot, IdInv, TypeOK
  <2>3. PairInv'
    BY <1>1 DEF Boot, PairInv
  <2>4. OwnInv'
    BY <1>1 DEF Boot, OwnInv, Own, IdInv, TypeOK
  <2>5. FreshInv'
    BY <1>1 DEF Boot, FreshInv, Fresh, IdInv, TypeOK
  <2> QED BY <2>1, <2>2, <2>3, <2>4, <2>5 DEF BootInv
<1>2. CASE Restart
  <2>1. TypeOK'
    BY <1>2 DEF Restart, TypeOK
  <2>2. IdInv'
    BY <1>2 DEF Restart, IdInv, TypeOK
  <2>3. PairInv'
    BY <1>2 DEF Restart, PairInv
  <2>4. OwnInv'
    BY <1>2 DEF Restart, OwnInv, Own, IdInv, TypeOK
  <2>5. FreshInv'
    BY <1>2 DEF Restart, FreshInv, Fresh, IdInv, TypeOK
  <2> QED BY <2>1, <2>2, <2>3, <2>4, <2>5 DEF BootInv
<1>3. CASE Crash
  <2>1. TypeOK'
    BY <1>3 DEF Crash, LeavesTrace, TypeOK
  <2>2. IdInv'
    BY <1>3 DEF Crash, IdInv
  <2>3. PairInv'
    BY <1>3 DEF Crash, PairInv
  <2>4. OwnInv'
    <3>1. SUFFICES ASSUME faults = 0, ~exposed, ~LeavesTrace
                   PROVE  /\ \A t \in KeyTypes : tempPriv[t] = NoFile
                          /\ idFile = id => \A t \in KeyTypes : Own(t)
      BY <1>3 DEF Crash, OwnInv, Own
    <3>2. pc = "idWrite" => idFile # id
      BY <1>t DEF PairInv
    <3> QED BY <3>1, <3>2 DEF OwnInv, LeavesTrace
  <2>5. FreshInv'
    <3>1. SUFFICES ASSUME faults = 0, ~exposed, ~LeavesTrace
                   PROVE  idFile = id => \A t \in KeyTypes : Fresh(t)
      BY <1>3 DEF Crash, FreshInv, Fresh
    <3>2. pc = "idWrite" => idFile # id
      BY <1>t DEF PairInv
    <3> QED BY <3>1, <3>2 DEF FreshInv, LeavesTrace
  <2> QED BY <2>1, <2>2, <2>3, <2>4, <2>5 DEF BootInv
<1>4. CASE Clone
  <2>1. TypeOK'
    BY <1>4 DEF Clone, TypeOK
  <2>2. IdInv'
    BY <1>4 DEF Clone, IdInv, TypeOK
  <2>3. PairInv'
    BY <1>4, <1>t DEF Clone, PairInv
  <2>4. OwnInv'
    BY <1>4 DEF Clone, OwnInv, Own, IdInv, TypeOK
  <2>5. FreshInv'
    BY <1>4 DEF Clone, FreshInv, Fresh, IdInv, TypeOK
  <2> QED BY <2>1, <2>2, <2>3, <2>4, <2>5 DEF BootInv
<1>5. CASE ReadID
  <2>1. TypeOK'
    BY <1>5 DEF ReadID, TypeOK
  <2>2. IdInv'
    BY <1>5 DEF ReadID, IdInv, TypeOK
  <2>3. PairInv'
    BY <1>5 DEF ReadID, PairInv
  <2>4. OwnInv'
    BY <1>5 DEF ReadID, OwnInv, Own, IdInv, TypeOK
  <2>5. FreshInv'
    BY <1>5 DEF ReadID, FreshInv, Fresh, IdInv, TypeOK
  <2> QED BY <2>1, <2>2, <2>3, <2>4, <2>5 DEF BootInv
<1>6. CASE ReadIDFails
  <2>1. TypeOK'
    BY <1>6 DEF ReadIDFails, Fault, TypeOK
  <2>2. IdInv'
    BY <1>6 DEF ReadIDFails, Fault, IdInv, TypeOK
  <2>3. PairInv'
    BY <1>6 DEF ReadIDFails, Fault, PairInv
  <2>4. OwnInv'
    BY <1>6 DEF ReadIDFails, Fault, OwnInv, Own, IdInv, TypeOK
  <2>5. FreshInv'
    BY <1>6 DEF ReadIDFails, Fault, FreshInv, Fresh, IdInv, TypeOK
  <2> QED BY <2>1, <2>2, <2>3, <2>4, <2>5 DEF BootInv
<1>7. CASE WriteIDEarly
  <2>1. TypeOK'
    BY <1>7 DEF WriteIDEarly, Fault, TypeOK
  <2>2. IdInv'
    BY <1>7 DEF WriteIDEarly, Fault, IdInv, TypeOK
  <2>3. PairInv'
    BY <1>7 DEF WriteIDEarly, Fault, PairInv
  <2>4. OwnInv'
    BY <1>7 DEF WriteIDEarly, Fault, OwnInv, Own, IdInv, TypeOK
  <2>5. FreshInv'
    BY <1>7 DEF WriteIDEarly, Fault, FreshInv, Fresh, IdInv, TypeOK
  <2> QED BY <2>1, <2>2, <2>3, <2>4, <2>5 DEF BootInv
<1>8. CASE CompareID
  <2>1. TypeOK'
    BY <1>8 DEF CompareID, TypeOK
  <2>2. IdInv'
    BY <1>8 DEF CompareID, IdInv, TypeOK
  <2>3. PairInv'
    BY <1>8 DEF CompareID, PairInv
  <2>4. OwnInv'
    BY <1>8 DEF CompareID, OwnInv, Own, IdInv, TypeOK
  <2>5. FreshInv'
    BY <1>8 DEF CompareID, FreshInv, Fresh, IdInv, TypeOK
  <2> QED BY <2>1, <2>2, <2>3, <2>4, <2>5 DEF BootInv
<1>9. ASSUME NEW t \in KeyTypes, Keygen(t) PROVE BootInv'
  <2>1. /\ pc = "keys" /\ pc' = "rename" /\ t \in todo /\ tempPriv[t] = 0 /\ gen' = gen + 1
        /\ cur' = t /\ todo' = todo \ {t}
        /\ tempPriv'[t] = gen + 1 /\ tempPub'[t] = gen + 1
        /\ \A u \in KeyTypes \ {t} : tempPriv'[u] = tempPriv[u] /\ tempPub'[u] = tempPub[u]
        /\ genFor'[gen + 1] = id /\ \A g \in 1..gen : genFor'[g] = genFor[g]
        /\ UNCHANGED <<id, idVars, local, keyVars, attrs, boundVars>>
    BY <1>9, <1>t DEF Keygen
  <2>2. TypeOK'
    <3>1. 1..gen \subseteq 1..gen' /\ 0..gen \subseteq 0..gen' /\ gen + 1 \in 0..gen' /\ gen' \in Nat
      <4>1. gen \in Nat /\ gen' = gen + 1
        BY <1>t, <2>1
      <4> QED BY <4>1, OneMore
    <3>2. tempPriv' \in [KeyTypes -> 0..gen'] /\ tempPub' \in [KeyTypes -> 0..gen']
      BY <1>9, <1>t, <3>1 DEF Keygen
    <3>3. DOMAIN genFor' = 1..gen'
      BY <1>9 DEF Keygen
    <3>4. /\ priv' \in [KeyTypes -> 1..gen'] /\ pub' \in [KeyTypes -> 1..gen']
          /\ attrs' \in [KeyTypes -> 0..gen']
      BY <1>t, <2>1, <3>1
    <3> QED BY <2>1, <3>1, <3>2, <3>3, <3>4 DEF TypeOK
  <2>3. IdInv'
    BY <2>1 DEF IdInv
  <2>4. PairInv'
    <3>1. ASSUME NEW u \in KeyTypes, tempPriv'[u] # 0 PROVE priv'[u] < tempPriv'[u]
      <4>1. CASE u = t
        BY <2>1, <1>t, <4>1
      <4>2. CASE u # t
        BY <2>1, <3>1, <4>2 DEF PairInv
      <4> QED BY <4>1, <4>2
    <3>2. \A u \in KeyTypes : attrs'[u] <= priv'[u]
      BY <2>1 DEF PairInv
    <3>3. tempPriv'[cur'] = gen + 1 /\ tempPub'[cur'] = gen + 1 /\ gen + 1 # 0
      BY <2>1, <1>t
    <3>4. genFor'[tempPriv'[cur']] = id'
      BY <2>1, <3>3
    <3> QED BY <2>1, <3>1, <3>2, <3>3, <3>4 DEF PairInv
  <2>5. \A u \in KeyTypes : genFor'[priv[u]] = genFor[priv[u]]
    BY <2>1, <1>t
  <2>6. OwnInv'
    BY <2>1, <2>5, <1>t DEF OwnInv, Own, IdInv
  <2>7. FreshInv'
    BY <2>1, <1>t DEF FreshInv, Fresh, IdInv
  <2> QED BY <2>2, <2>3, <2>4, <2>6, <2>7 DEF BootInv
<1>10. ASSUME NEW t \in KeyTypes, KeygenFails(t) PROVE BootInv'
  <2>1. TypeOK'
    <3>1. /\ todo' \subseteq KeyTypes /\ faults' \in 0..MaxFaults
          /\ UNCHANGED <<id, idVars, pc, local, cur, keyVars, tempVars, genVars, attrs, seen, exposed, crashes>>
      BY <1>10, <1>t DEF KeygenFails, Fault, TypeOK
    <3> QED BY <3>1 DEF TypeOK
  <2>2. IdInv'
    BY <1>10 DEF KeygenFails, IdInv
  <2>3. PairInv'
    BY <1>10 DEF KeygenFails, PairInv
  <2>4. faults' = 0 => faults = 0 /\ tempPriv[t] # 0
    BY <1>10, <1>t DEF KeygenFails, Fault
  <2>5. OwnInv'
    BY <1>10, <2>4 DEF KeygenFails, OwnInv
  <2>6. FreshInv'
    <3>1. faults' = 0 /\ ~exposed' => FALSE
      BY <1>10, <2>4 DEF KeygenFails, OwnInv
    <3> QED BY <3>1 DEF FreshInv
  <2> QED BY <2>1, <2>2, <2>3, <2>5, <2>6 DEF BootInv
<1>11. CASE RenameKey
  <2>1. /\ pc = "rename" /\ pc' = "renamePub" /\ priv'[cur] = tempPriv[cur] /\ tempPriv'[cur] = 0
        /\ \A u \in KeyTypes \ {cur} : priv'[u] = priv[u] /\ tempPriv'[u] = tempPriv[u]
        /\ UNCHANGED <<id, idVars, local, loopVars, pub, tempPub, genVars, attrs, boundVars>>
    BY <1>11, <1>t DEF RenameKey
  <2>2. TypeOK'
    <3>1. tempPriv[cur] \in 1..gen
      BY <2>1, <1>t DEF PairInv
    <3> QED BY <1>11, <3>1 DEF RenameKey, TypeOK
  <2>3. IdInv'
    BY <2>1 DEF IdInv
  <2>4. PairInv'
    <3>1. priv[cur] < tempPriv[cur] /\ tempPub[cur] = tempPriv[cur] /\ genFor[tempPriv[cur]] = id
      BY <2>1, <1>t DEF PairInv
    <3>2. ASSUME NEW u \in KeyTypes PROVE attrs'[u] <= priv'[u]
      <4>1. CASE u = cur
        <5>1. attrs[cur] <= priv[cur] /\ attrs[cur] \in Nat /\ priv[cur] \in Nat /\ tempPriv[cur] \in Nat
          BY <1>t DEF PairInv
        <5> QED BY <2>1, <3>1, <4>1, <5>1
      <4>2. CASE u # cur
        BY <2>1, <4>2 DEF PairInv
      <4> QED BY <4>1, <4>2
    <3>3. ASSUME NEW u \in KeyTypes, tempPriv'[u] # 0 PROVE priv'[u] < tempPriv'[u]
      BY <2>1, <3>3, <1>t DEF PairInv
    <3> QED BY <2>1, <3>1, <3>2, <3>3 DEF PairInv
  <2>5. OwnInv'
    BY <2>1, <1>t DEF OwnInv, Own, IdInv
  <2>6. FreshInv'
    BY <2>1, <1>t DEF FreshInv, Fresh, IdInv
  <2> QED BY <2>2, <2>3, <2>4, <2>5, <2>6 DEF BootInv
<1>12. CASE RenamePub
  <2>1. /\ pc = "renamePub" /\ pc' = "upload" /\ pub'[cur] = tempPub[cur]
        /\ \A u \in KeyTypes \ {cur} : pub'[u] = pub[u]
        /\ UNCHANGED <<id, idVars, local, loopVars, priv, tempPriv, genVars, attrs, boundVars>>
    BY <1>12, <1>t DEF RenamePub
  <2>2. TypeOK'
    <3>1. tempPub[cur] \in 1..gen
      BY <2>1, <1>t DEF PairInv
    <3> QED BY <1>12, <3>1 DEF RenamePub, TypeOK
  <2>3. IdInv'
    BY <2>1 DEF IdInv
  <2>4. PairInv'
    BY <2>1, <1>t DEF PairInv
  <2>5. OwnInv'
    BY <2>1, <1>t DEF OwnInv, Own, PairInv, IdInv
  <2>6. FreshInv'
    BY <2>1, <1>t DEF FreshInv, Fresh
  <2> QED BY <2>2, <2>3, <2>4, <2>5, <2>6 DEF BootInv
<1>13. CASE RenameFails
  <2>1. TypeOK'
    BY <1>13 DEF RenameFails, Fault, TypeOK
  <2>2. IdInv'
    BY <1>13 DEF RenameFails, Fault, IdInv, TypeOK
  <2>3. PairInv'
    BY <1>13 DEF RenameFails, Fault, PairInv
  <2>4. OwnInv'
    BY <1>13 DEF RenameFails, Fault, OwnInv, Own, IdInv, TypeOK
  <2>5. FreshInv'
    BY <1>13 DEF RenameFails, Fault, FreshInv, Fresh, IdInv, TypeOK
  <2> QED BY <2>1, <2>2, <2>3, <2>4, <2>5 DEF BootInv
<1>14. CASE Upload
  <2>1. /\ pc = "upload" /\ pc' = "keys" /\ faults' \in {faults, faults + 1}
        /\ faults' = 0 => faults = 0 /\ attrs'[cur] = pub[cur]
        /\ attrs'[cur] \in {attrs[cur], pub[cur]}
        /\ \A u \in KeyTypes \ {cur} : attrs'[u] = attrs[u]
        /\ UNCHANGED <<id, idVars, local, loopVars, keyVars, tempVars, genVars, seen, exposed, crashes>>
    BY <1>14, <1>t DEF Upload, Fault
  <2>2. TypeOK'
    BY <1>14 DEF Upload, Fault, TypeOK
  <2>3. IdInv'
    BY <2>1 DEF IdInv
  <2>4. PairInv'
    BY <2>1, <1>t DEF PairInv
  <2>5. OwnInv'
    BY <2>1, <1>t DEF OwnInv, Own, IdInv
  <2>6. FreshInv'
    <3> SUFFICES ASSUME faults = 0, ~exposed, attrs'[cur] = pub[cur] PROVE FreshInv'
      BY <2>1 DEF FreshInv
    <3>1. Fresh(cur)'
      BY <2>1, <1>t DEF Fresh, PairInv
    <3>2. \A u \in KeyTypes \ {cur} : Fresh(u) => Fresh(u)'
      BY <2>1 DEF Fresh
    <3>3. \A u \in KeyTypes \ todo' : Fresh(u)'
      BY <2>1, <3>1, <3>2 DEF FreshInv
    <3> QED BY <2>1, <3>3 DEF FreshInv, IdInv
  <2> QED BY <2>2, <2>3, <2>4, <2>5, <2>6 DEF BootInv
<1>17. CASE OpenID
  <2>1. /\ pc = "keys" /\ todo = {} /\ faults' \in Nat
        /\ \/ idFile' = NoId /\ pc' = "idWrite" /\ faults' = faults
           \/ idFile' = idFile /\ pc' = "ready" /\ faults' # 0
        /\ UNCHANGED <<id, legacy, local, loopVars, keyVars, tempVars, genVars, attrs, seen, exposed, crashes>>
    BY <1>17, <1>t DEF OpenID, Fault
  <2>2. TypeOK'
    <3>1. faults' \in 0..MaxFaults
      BY <1>17 DEF OpenID, Fault, TypeOK
    <3> QED BY <2>1, <3>1 DEF TypeOK
  <2>3. IdInv'
    BY <2>1, <1>t DEF IdInv
  <2>4. PairInv'
    BY <2>1 DEF PairInv
  <2>5. OwnInv'
    BY <2>1, <1>t DEF OwnInv, Own, IdInv
  <2>6. FreshInv'
    BY <2>1, <1>t DEF FreshInv, Fresh, IdInv
  <2> QED BY <2>2, <2>3, <2>4, <2>5, <2>6 DEF BootInv
<1>15. CASE WriteID
  <2>1. TypeOK'
    BY <1>15 DEF WriteID, Fault, TypeOK
  <2>2. IdInv'
    BY <1>15 DEF WriteID, Fault, IdInv, TypeOK
  <2>3. PairInv'
    BY <1>15 DEF WriteID, Fault, PairInv
  <2>4. OwnInv'
    BY <1>15 DEF WriteID, Fault, OwnInv, Own, IdInv, TypeOK, PairInv
  <2>5. FreshInv'
    BY <1>15 DEF WriteID, Fault, FreshInv, Fresh, IdInv, TypeOK, PairInv
  <2> QED BY <2>1, <2>2, <2>3, <2>4, <2>5 DEF BootInv
<1>16. CASE UNCHANGED vars
  BY <1>16 DEF vars, BootInv, TypeOK, IdInv, PairInv, OwnInv, Own, FreshInv, Fresh
<1> QED
  BY <1>1, <1>2, <1>3, <1>4, <1>5, <1>6, <1>7, <1>8, <1>9, <1>10, <1>11, <1>12, <1>13, <1>14, <1>15, <1>16, <1>17
  DEF Next, AgentStep

\* The ID on disk, the keys and what is published go together as BootInv says; type
\* correctness is part of it.
THEOREM BootCorrect == Spec => []BootInv
  BY BootInit, BootStep, PTL DEF Spec

\* An agent that is ready has host keys of its own instance, both halves of each,
\* whatever disk it was created from and however often it died.
THEOREM HostKeysAreOwn == Spec => []OwnHostKeys
<1>1. BootInv => OwnHostKeys
  BY DEF BootInv, OwnInv, Own, OwnHostKeys
<1> QED BY <1>1, BootCorrect, PTL

\* What the guest attributes publish is never a key sshd has not got, and, when the agent
\* is ready and no death left what the next boot cannot see, it is the key sshd uses.
THEOREM PublishedIsUsed == Spec => []PublishedKeyIsUsed
<1>1. BootInv => PublishedKeyIsUsed
  BY DEF BootInv, PairInv, FreshInv, Fresh, PublishedKeyIsUsed
<1> QED BY <1>1, BootCorrect, PTL
=============================================================================
