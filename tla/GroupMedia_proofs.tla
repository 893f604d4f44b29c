-------------------------- MODULE GroupMedia_proofs --------------------------
(***************************************************************************)
(* Theorems about GroupMedia, for any number of goroutines, transactions,  *)
(* devices, senders and keys: its types, that signaling and media only use *)
(* the registry in the ways GroupReceivers proves sound, that the registry *)
(* of a live call keeps its keys, that the signaling never goes back, and  *)
(* that the registry is published up to date and stays level with it.      *)
(***************************************************************************)
EXTENDS GroupMedia, TLAPS

Proofs == INSTANCE GroupReceivers_proofs

-----------------------------------------------------------------------------
(* Types, and what the operations hand to the registry.                    *)

Jobs == [tx : Numbers, u : Update, key : Keys \cup {NoKey}, had : BOOLEAN]

EngineTypeOK ==
    /\ reg \in BOOLEAN /\ relay \in BOOLEAN /\ group \in BOOLEAN
    /\ published \in BOOLEAN /\ started \in BOOLEAN /\ ctxCancelled \in BOOLEAN
    /\ update \in Update
    /\ epochTx \in Numbers /\ epochKey \in Keys \cup {NoKey}
    /\ pc \in [Threads -> Labels]
    /\ job \in [Threads -> Jobs]
    /\ media \in MediaLabels
    /\ snap \in [tx : Numbers, u : Update, key : Keys \cup {NoKey}]
    /\ attempt \in 0..MaxAttempts
    /\ heard \in [Transactions -> Keys \cup {NoKey}]

\* Whoever is about to call the registry has a transaction and a key.
Arguments ==
    /\ epochKey # NoKey => epochTx \in Transactions
    /\ \A t \in Threads : pc[t] \in {"applyRoster", "installRoster"} => job[t].u.tx \in Transactions
    /\ pc[Net] \in {"applyEpoch", "installEpoch"} =>
          job[Net].tx \in Transactions /\ job[Net].key \in Keys
    /\ media \in {"applyRoster", "applyEpoch", "publish"} =>
          /\ snap.u.tx \in Transactions
          /\ snap.tx \in Transactions /\ snap.key \in Keys
    /\ media \notin {"drop", "done"} => attempt < MaxAttempts
    /\ media = "none" \/ started

EngineInv == EngineTypeOK /\ Arguments

\* Records of the right shape.
LEMMA Shapes ==
    /\ NoTx \in Numbers /\ NoUpdate \in Update /\ NoJob \in Jobs
    /\ Transactions \subseteq Numbers /\ Numbers \ {NoTx} \subseteq Transactions
    /\ \A u \in Update : u.tx \in Numbers
    /\ NoSnap \in [tx : Numbers, u : Update, key : Keys \cup {NoKey}]
<1>1. NoTx \in Numbers /\ NoUpdate \in Update
  BY DEF Numbers, NoUpdate, Update
<1>2. NoJob \in Jobs
  BY <1>1 DEF Jobs, NoJob
<1>3. Transactions \subseteq Numbers /\ Numbers \ {NoTx} \subseteq Transactions
  BY DEF Numbers
<1>4. \A u \in Update : u.tx \in Numbers
  BY DEF Update
<1>5. NoSnap \in [tx : Numbers, u : Update, key : Keys \cup {NoKey}]
  BY <1>1 DEF NoSnap
<1>6. QED
  BY <1>1, <1>2, <1>3, <1>4, <1>5

\* The jobs of applyGroupUpdate, installGroupEpoch and finishCall.
LEMMA RosterJob ==
    ASSUME NEW u \in Update, NEW b \in BOOLEAN
    PROVE  [NoJob EXCEPT !.u = u, !.had = b] \in Jobs /\ [NoJob EXCEPT !.u = u, !.had = b].u = u
  BY Shapes DEF Jobs, NoJob

LEMMA EpochJob ==
    ASSUME NEW tx \in Transactions, NEW k \in Keys, NEW b \in BOOLEAN
    PROVE  /\ [NoJob EXCEPT !.tx = tx, !.key = k, !.had = b] \in Jobs
           /\ [NoJob EXCEPT !.tx = tx, !.key = k, !.had = b].tx = tx
           /\ [NoJob EXCEPT !.tx = tx, !.key = k, !.had = b].key = k
  BY Shapes DEF Jobs, NoJob

LEMMA OrIsBoolean ==
    ASSUME NEW a \in BOOLEAN, NEW b \in BOOLEAN
    PROVE  (a \/ b) \in BOOLEAN
  OBVIOUS

LEMMA FinishJob ==
    ASSUME NEW j \in Jobs, NEW b \in BOOLEAN
    PROVE  [j EXCEPT !.had = b] \in Jobs /\ [j EXCEPT !.had = b].u = j.u
  BY DEF Jobs

LEMMA EngineInit == Init => EngineInv
<1>1. ASSUME Init PROVE EngineTypeOK
  <2>1. pc \in [Threads -> Labels] /\ media \in MediaLabels
    BY <1>1 DEF Init, Labels, MediaLabels
  <2>2. snap \in [tx : Numbers, u : Update, key : Keys \cup {NoKey}]
    BY <1>1, Shapes DEF Init
  <2>3. attempt \in 0..MaxAttempts
    BY <1>1, GroupMediaAssumption DEF Init
  <2>4. job \in [Threads -> Jobs]
    BY <1>1, Shapes DEF Init
  <2>5. QED
    BY <1>1, <2>1, <2>2, <2>3, <2>4, Shapes DEF Init, EngineTypeOK
<1>2. Init => Arguments
  BY GroupMediaAssumption DEF Init, Arguments, Threads
<1>3. QED
  BY <1>1, <1>2 DEF EngineInv

LEMMA EngineStep == EngineInv /\ [Next]_vars => EngineInv'
<1> SUFFICES ASSUME EngineInv, [Next]_vars PROVE EngineInv'
  OBVIOUS
<1> USE DEF EngineInv, EngineTypeOK, Arguments, Threads, Labels,
     MediaLabels, At, Goto, Forget, MediaGoto, MediaForget, registry, engineCall, threads, mediaVars
<1>0. /\ NoTx \in Numbers /\ NoUpdate \in Update /\ NoJob \in Jobs
      /\ Transactions \subseteq Numbers /\ Numbers \ {NoTx} \subseteq Transactions
      /\ update.tx \in Numbers /\ Net \in Threads
      /\ NoSnap \in [tx : Numbers, u : Update, key : Keys \cup {NoKey}]
  BY Shapes
<1>1. CASE Begin
  <2>1. ASSUME NEW t \in Threads, NEW u \in Update, u.tx \in Transactions, HearRoster(t, u)
        PROVE  EngineInv'
    <3> DEFINE j == [NoJob EXCEPT !.u = u, !.had = published]
    <3>1. job' = [job EXCEPT ![t] = j]
      BY <2>1 DEF HearRoster
    <3>2. j \in Jobs /\ j.u = u
      BY RosterJob
    <3>3. pc' = [pc EXCEPT ![t] = IF published THEN "applyRoster" ELSE "installRoster"]
          /\ UNCHANGED <<registry, engineCall, mediaVars, heard>>
      BY <2>1 DEF HearRoster
    <3> HIDE DEF j
    <3>4. job' \in [Threads -> Jobs] /\ pc' \in [Threads -> Labels]
      BY <3>1, <3>2, <3>3
    <3>5. Arguments'
      <4>1. \A s \in Threads : pc'[s] \in {"applyRoster", "installRoster"}
                                  => job'[s].u.tx \in Transactions
        BY <2>1, <3>1, <3>2, <3>3
      <4>2. pc'[Net] \in {"applyEpoch", "installEpoch"}
               => job'[Net].tx \in Transactions /\ job'[Net].key \in Keys
        BY <3>1, <3>3
      <4>3. QED
        BY <3>3, <4>1, <4>2
    <3>6. QED
      BY <3>3, <3>4, <3>5
  <2>2. ASSUME NEW tx \in Transactions, NEW k \in Keys, HearEpoch(tx, k)
        PROVE  EngineInv'
    <3> DEFINE j == [NoJob EXCEPT !.tx = tx, !.key = k, !.had = published]
    <3>1. j \in Jobs /\ j.tx \in Transactions /\ j.key \in Keys
      BY ONLY published \in BOOLEAN, tx \in Transactions, k \in Keys, EpochJob
    <3>3. heard' \in [Transactions -> Keys \cup {NoKey}]
      BY <2>2 DEF HearEpoch, Hear
    <3>4. CASE OldEpoch(tx)
      BY <1>0, <2>2, <3>3, <3>4 DEF HearEpoch
    <3>5. CASE ~OldEpoch(tx)
      <4>1. job' = [job EXCEPT ![Net] = j]
        BY <2>2, <3>5 DEF HearEpoch
      <4> HIDE DEF j
      <4>2. pc' \in [Threads -> Labels]
            /\ pc' = [pc EXCEPT ![Net] = IF published THEN "applyEpoch" ELSE "installEpoch"]
            /\ UNCHANGED <<registry, engineCall, mediaVars>>
        BY <1>0, <2>2, <3>5 DEF HearEpoch
      <4>3. QED
        BY <1>0, <3>1, <3>3, <4>1, <4>2
    <3>6. QED
      BY <3>4, <3>5
  <2>3. CASE HearRelay \/ HearAccept
    <3>1. PICK l \in {"start", "rekey"} : pc' = [pc EXCEPT ![Net] = l]
      BY <2>3 DEF HearRelay, HearAccept
    <3>2. relay' \in BOOLEAN
          /\ UNCHANGED <<registry, reg, group, update, epochTx, epochKey, published, started,
                         ctxCancelled, job, mediaVars, heard>>
      BY <2>3 DEF HearRelay, HearAccept
    <3>3. QED
      BY <1>0, <3>1, <3>2
  <2>4. ASSUME NEW t \in Threads, End(t)
        PROVE  EngineInv'
    BY <1>0, <2>4 DEF End
  <2>5. CASE HearAccept
    BY <1>0, <2>5 DEF HearAccept
  <2>6. QED
    <3>1. \A tx \in Transactions, ok \in BOOLEAN, b \in BOOLEAN :
              [relay |-> b, tx |-> tx, ok |-> ok] \in Update
      BY <1>0 DEF Update
    <3>2. QED
      BY <1>1, <2>1, <2>2, <2>3, <2>4, <3>1 DEF Begin
<1>2. ASSUME NEW t \in Threads, Continue(t)
      PROVE  EngineInv'
  <2>1. CASE ApplyRoster(t)
    BY <1>0, <2>1 DEF ApplyRoster, Return
  <2>2. CASE InstallRoster(t)
    <3>1. job[t].u \in Update
      BY DEF Jobs
    <3>2. QED
      BY <1>0, <2>2, <3>1 DEF InstallRoster
  <2>3. CASE InstallRosterLate(t)
    BY <1>0, <2>3 DEF InstallRosterLate, Return
  <2>4. CASE ClearAgain(t)
    BY <1>0, <2>4 DEF ClearAgain, Return
  <2>5. CASE Start(t)
    <3>1. /\ Return(t)
          /\ UNCHANGED <<registry, reg, relay, group, update, epochTx, epochKey, published,
                         ctxCancelled, snap, attempt, heard>>
          /\ started' \in BOOLEAN
          /\ \/ media' = media /\ started' = started
             \/ media' = "connect" /\ ~started /\ started' = TRUE
      BY <2>5 DEF Start, MayStart
    <3>2. media = "none" \/ started
      OBVIOUS
    <3>3. QED
      BY <1>0, <3>1, <3>2 DEF Return
  <2>6. CASE Finish(t)
    <3> DEFINE j == [job[t] EXCEPT !.had = published]
    <3>1. j \in Jobs /\ j.u = job[t].u
      BY FinishJob
    <3>2. job' = [job EXCEPT ![t] = j]
      BY <2>6 DEF Finish
    <3> HIDE DEF j
    <3>3. pc' = [pc EXCEPT ![t] = "finishClear"] /\ epochKey' = NoKey /\ reg' = FALSE
          /\ published' = FALSE
          /\ UNCHANGED <<registry, relay, group, update, epochTx, started, ctxCancelled,
                         mediaVars, heard>>
      BY <2>6 DEF Finish
    <3>4. job' \in [Threads -> Jobs] /\ pc' \in [Threads -> Labels]
      BY <3>1, <3>2, <3>3
    <3>5. /\ \A s \in Threads : pc'[s] \in {"applyRoster", "installRoster"}
                                 => job'[s].u.tx \in Transactions
          /\ pc'[Net] \in {"applyEpoch", "installEpoch"}
                => job'[Net].tx \in Transactions /\ job'[Net].key \in Keys
      BY <3>1, <3>2, <3>3
    <3>6. QED
      BY <3>3, <3>4, <3>5
  <2>7. CASE FinishClear(t)
    <3>0. ctxCancelled' = (ctxCancelled \/ started)
      BY <2>7 DEF FinishClear
    <3>1. ctxCancelled' \in BOOLEAN
      BY <3>0, OrIsBoolean
    <3>2. UNCHANGED <<reg, relay, group, update, epochTx, epochKey, published, started,
                      mediaVars, heard>> /\ Return(t)
      BY <2>7 DEF FinishClear
    <3>3. QED
      BY <1>0, <3>1, <3>2 DEF Return
  <2>8. QED
    BY <1>2, <2>1, <2>2, <2>3, <2>4, <2>5, <2>6, <2>7 DEF Continue
<1>3. CASE ContinueNet
  <2>1. CASE ApplyEpoch
    BY <1>0, <2>1 DEF ApplyEpoch, Return
  <2>2. CASE InstallEpoch
    BY <1>0, <2>2 DEF InstallEpoch
  <2>3. CASE InstallEpochLate
    BY <1>0, <2>3 DEF InstallEpochLate, Return
  <2>4. CASE RekeyPeer
    BY <1>0, <2>4 DEF RekeyPeer
  <2>5. QED
    BY <1>3, <2>1, <2>2, <2>3, <2>4 DEF ContinueNet
<1>4. CASE MediaStep
  <2>1. CASE MediaConnect
    BY <1>0, <2>1 DEF MediaConnect
  <2>2. CASE MediaSnapshot
    BY <1>0, <2>2 DEF MediaSnapshot
  <2>3. CASE MediaRead
    BY <1>0, <2>3 DEF MediaRead
  <2>4. CASE MediaApplyRoster
    BY <1>0, <2>4 DEF MediaApplyRoster
  <2>5. CASE MediaApplyEpoch
    BY <1>0, <2>5 DEF MediaApplyEpoch
  <2>6. CASE MediaPublish
    <3>1. attempt' \in 0..MaxAttempts
      BY <2>6, GroupMediaAssumption DEF MediaPublish
    <3>2. published' \in BOOLEAN
      BY <2>6 DEF MediaPublish
    <3>3. media = "publish" /\ media' \in {"read", "drop", "attach"}
      BY <2>6 DEF MediaPublish
    <3>4. media' # "drop" => attempt' < MaxAttempts
      BY <2>6, GroupMediaAssumption DEF MediaPublish
    <3>5. UNCHANGED <<registry, reg, relay, group, update, epochTx, epochKey, started,
                      ctxCancelled, threads, heard>>
      BY <2>6 DEF MediaPublish
    <3>6. snap' \in [tx : Numbers, u : Update, key : Keys \cup {NoKey}]
      BY <1>0, <2>6 DEF MediaPublish
    <3>7. QED
      BY <3>1, <3>2, <3>3, <3>4, <3>5, <3>6
  <2>7. CASE MediaPublishDirect
    BY <1>0, <2>7 DEF MediaPublishDirect
  <2>8. CASE MediaRekey \/ MediaAttached
    BY <1>0, <2>8 DEF MediaRekey, MediaAttached
  <2>9. CASE MediaDrop
    BY <1>0, <2>9, GroupMediaAssumption DEF MediaDrop
  <2>10. ASSUME NEW s \in Senders, MediaAttach(s)
         PROVE  EngineInv'
    BY <1>0, <2>10 DEF MediaAttach
  <2>11. QED
    BY <1>4, <2>1, <2>2, <2>3, <2>4, <2>5, <2>6, <2>7, <2>8, <2>9, <2>10 DEF MediaStep
<1>5. CASE MediaEnds
  BY <1>0, <1>5 DEF MediaEnds
<1>6. CASE UNCHANGED vars
  BY <1>0, <1>6 DEF vars
<1>7. QED
  BY <1>1, <1>2, <1>3, <1>4, <1>5, <1>6 DEF Next

LEMMA EngineInvariant == SafetySpec => []EngineInv
  BY EngineInit, EngineStep, PTL DEF SafetySpec

-----------------------------------------------------------------------------
(* Signaling and media use the registry as GroupReceivers allows.          *)

\* The registry of this module is the one the theorems of
\* GroupReceivers_proofs are about.
LEMMA SameRegistry ==
    /\ Registry!Init = Proofs!Init
    /\ Registry!vars = Proofs!vars
    /\ Registry!TypeOK = Proofs!TypeOK
    /\ Registry!KeyAgreement = Proofs!KeyAgreement
    /\ Registry!Converges = Proofs!Converges
    /\ Registry!DepartedHoldNoEpoch = Proofs!DepartedHoldNoEpoch
    /\ Registry!Cleared = Proofs!Cleared
<1>1. Registry!Init = Proofs!Init
  BY DEF Registry!Init, Proofs!Init, Registry!NoTx, Proofs!NoTx
<1>2. Registry!vars = Proofs!vars
  BY DEF Registry!vars, Proofs!vars, Registry!keyVars, Proofs!keyVars
<1>3. Registry!TypeOK = Proofs!TypeOK
  BY DEF Registry!TypeOK, Proofs!TypeOK, Registry!NoTx, Proofs!NoTx, Registry!Numbers,
     Proofs!Numbers, Registry!Material, Proofs!Material
<1>4. Registry!KeyAgreement = Proofs!KeyAgreement
  BY DEF Registry!KeyAgreement, Proofs!KeyAgreement, Registry!Cleared, Proofs!Cleared,
     Registry!KeyInUse, Proofs!KeyInUse, Registry!NoTx, Proofs!NoTx
<1>5. Registry!Converges = Proofs!Converges
  BY DEF Registry!Converges, Proofs!Converges, Registry!Cleared, Proofs!Cleared,
     Registry!NoTx, Proofs!NoTx
<1>6. Registry!DepartedHoldNoEpoch = Proofs!DepartedHoldNoEpoch
  BY DEF Registry!DepartedHoldNoEpoch, Proofs!DepartedHoldNoEpoch
<1>7. Registry!Cleared = Proofs!Cleared
  BY DEF Registry!Cleared, Proofs!Cleared
<1>8. QED
  BY <1>1, <1>2, <1>3, <1>4, <1>5, <1>6, <1>7

\* So are the epochs it is a refinement of.
LEMMA SameEpochs ==
    /\ Registry!Epochs!Init = Proofs!Epochs!Init
    /\ Registry!Epochs!vars = Proofs!Epochs!vars
    /\ Registry!Epochs!Next = Proofs!Epochs!Next
  BY DEF Registry!Epochs!Init, Proofs!Epochs!Init, Registry!Epochs!vars, Proofs!Epochs!vars,
     Registry!Epochs!Next, Proofs!Epochs!Next, Registry!Epochs!HearRoster, Proofs!Epochs!HearRoster,
     Registry!Epochs!HearKey, Proofs!Epochs!HearKey, Registry!Epochs!Newest, Proofs!Epochs!Newest,
     Registry!Epochs!Eligible, Proofs!Epochs!Eligible, Registry!Epochs!NoTx, Proofs!Epochs!NoTx

LEMMA SameSteps == [Registry!Next]_(Registry!vars) => [Proofs!Next]_(Proofs!vars)
<1>1. ASSUME NEW n, NEW tx
      PROVE  Registry!NewestDue(n, tx) = Proofs!NewestDue(n, tx)
  BY DEF Registry!NewestDue, Proofs!NewestDue, Registry!Due, Proofs!Due, Registry!NoTx, Proofs!NoTx
<1>2. ASSUME NEW devs, NEW w, NEW n
      PROVE  Registry!Refused(devs, w, n) = Proofs!Refused(devs, w, n)
  BY DEF Registry!Refused, Proofs!Refused, Registry!NoTx, Proofs!NoTx
<1>3. ASSUME NEW n
      PROVE  Registry!Adopted(n) = Proofs!Adopted(n)
  BY DEF Registry!Adopted, Proofs!Adopted
<1>4. ASSUME NEW devs
      PROVE  Registry!Remaining(devs) = Proofs!Remaining(devs)
  BY DEF Registry!Remaining, Proofs!Remaining
<1>5. ASSUME NEW now, NEW k
      PROVE  Registry!RosterKeys(now, k) = Proofs!RosterKeys(now, k)
  BY DEF Registry!RosterKeys, Proofs!RosterKeys
<1>6. Registry!Numbers = Proofs!Numbers
  BY DEF Registry!Numbers, Proofs!Numbers, Registry!NoTx, Proofs!NoTx
<1>7. ASSUME NEW tx, NEW k
      PROVE  Registry!Offer(tx, k) = Proofs!Offer(tx, k)
  BY DEF Registry!Offer, Proofs!Offer
<1>8. ASSUME NEW tx, NEW devs, NEW w, Registry!CommitRoster(tx, devs, w)
      PROVE  Proofs!CommitRoster(tx, devs, w)
  BY <1>1, <1>2, <1>3, <1>4, <1>5, <1>6, <1>8, Zenon DEF Registry!CommitRoster, Proofs!CommitRoster
<1>9. ASSUME NEW tx, NEW devs, NEW w, Registry!IgnoreRoster(tx, devs, w)
      PROVE  Proofs!IgnoreRoster(tx, devs, w)
  BY <1>1, <1>2, <1>6, <1>9, Zenon DEF Registry!IgnoreRoster, Proofs!IgnoreRoster,
     Registry!vars, Proofs!vars,
     Registry!keyVars, Proofs!keyVars
<1>10. ASSUME NEW tx, NEW k, Registry!BufferEpoch(tx, k)
       PROVE  Proofs!BufferEpoch(tx, k)
  BY <1>7, <1>10, Zenon DEF Registry!BufferEpoch, Proofs!BufferEpoch
<1>11. ASSUME NEW tx, NEW k, Registry!InstallEpoch(tx, k)
       PROVE  Proofs!InstallEpoch(tx, k)
  BY <1>7, <1>11, Zenon DEF Registry!InstallEpoch, Proofs!InstallEpoch
<1>12. ASSUME NEW tx, NEW k, Registry!IgnoreEpoch(tx, k)
       PROVE  Proofs!IgnoreEpoch(tx, k)
  BY <1>7, <1>12, Zenon DEF Registry!IgnoreEpoch, Proofs!IgnoreEpoch, Registry!keyVars,
     Proofs!keyVars
<1>13. ASSUME NEW s, Registry!AttachSender(s)
       PROVE  Proofs!AttachSender(s)
  BY <1>13 DEF Registry!AttachSender, Proofs!AttachSender, Registry!NoTx, Proofs!NoTx
<1>14. ASSUME NEW d, Registry!ReplaceFallback(d)
       PROVE  Proofs!ReplaceFallback(d)
  BY <1>14 DEF Registry!ReplaceFallback, Proofs!ReplaceFallback, Registry!NoTx, Proofs!NoTx
<1>15. ASSUME NEW d, Registry!RenameFallback(d)
       PROVE  Proofs!RenameFallback(d)
  BY <1>15 DEF Registry!RenameFallback, Proofs!RenameFallback, Registry!NoTx, Proofs!NoTx,
     Registry!keyVars, Proofs!keyVars
<1>16. Registry!Clear => Proofs!Clear
  BY DEF Registry!Clear, Proofs!Clear, Registry!NoTx, Proofs!NoTx
<1>17. Registry!Operation => Proofs!Operation
  BY <1>8, <1>9, <1>10, <1>11, <1>12, <1>13, <1>14, <1>15 DEF Registry!Operation, Proofs!Operation
<1>18. QED
  BY <1>16, <1>17 DEF Registry!Next, Proofs!Next, Registry!vars, Proofs!vars,
     Registry!keyVars, Proofs!keyVars

\* Every step of the engine is a step of the registry, or none.
LEMMA EngineUsesRegistry == EngineInv /\ [Next]_vars => [Registry!Next]_(Registry!vars)
<1> SUFFICES ASSUME EngineInv, [Next]_vars PROVE [Registry!Next]_(Registry!vars)
  OBVIOUS
<1> USE DEF Threads, At, registry, mediaVars
<1>0. UNCHANGED registry => UNCHANGED Registry!vars
  BY DEF Registry!vars, Registry!keyVars
<1>1. ASSUME NEW tx \in Transactions, NEW ok \in BOOLEAN,
             \/ Registry!CommitRoster(tx, Devices, ok)
             \/ Registry!IgnoreRoster(tx, Devices, ok)
      PROVE  Registry!Next
  BY <1>1 DEF Registry!Next, Registry!Operation
<1>2. ASSUME NEW tx \in Transactions, NEW k \in Keys, EpochApplied(tx, k)
      PROVE  Registry!Next
  BY <1>2 DEF Registry!Next, Registry!Operation, EpochApplied
<1>3. CASE Begin
  <2>1. ASSUME NEW t, NEW u, HearRoster(t, u)
        PROVE  UNCHANGED registry
    BY <2>1 DEF HearRoster
  <2>2. ASSUME NEW tx, NEW k, HearEpoch(tx, k)
        PROVE  UNCHANGED registry
    BY <2>2 DEF HearEpoch
  <2>3. ASSUME NEW t, HearRelay \/ HearAccept \/ End(t)
        PROVE  UNCHANGED registry
    BY <2>3 DEF HearRelay, HearAccept, End
  <2>4. QED
    BY <1>0, <1>3, <2>1, <2>2, <2>3 DEF Begin
<1>4. ASSUME NEW t \in Threads, Continue(t)
      PROVE  [Registry!Next]_(Registry!vars)
  <2>1. CASE ApplyRoster(t)
    <3>1. job[t].u.tx \in Transactions /\ job[t].u.ok \in BOOLEAN
      BY <2>1 DEF ApplyRoster, EngineInv, EngineTypeOK, Arguments, Jobs, Update
    <3>2. \/ Registry!CommitRoster(job[t].u.tx, Devices, job[t].u.ok)
          \/ Registry!IgnoreRoster(job[t].u.tx, Devices, job[t].u.ok)
      BY <2>1 DEF ApplyRoster, Commits, Ignores, RosterRefused
    <3>3. QED
      BY <1>1, <3>1, <3>2
  <2>2. CASE ClearAgain(t)
    BY <2>2 DEF ClearAgain, Registry!Next
  <2>3. CASE FinishClear(t)
    BY <1>0, <2>3 DEF FinishClear, Registry!Next
  <2>4. CASE InstallRoster(t) \/ InstallRosterLate(t) \/ Start(t) \/ Finish(t)
    BY <1>0, <2>4 DEF InstallRoster, InstallRosterLate, Start, Finish
  <2>5. QED
    BY <1>4, <2>1, <2>2, <2>3, <2>4 DEF Continue
<1>5. CASE ContinueNet
  <2>1. CASE ApplyEpoch
    <3>1. job[Net].tx \in Transactions /\ job[Net].key \in Keys
      BY <2>1 DEF ApplyEpoch, EngineInv, Arguments
    <3>2. QED
      BY <1>2, <2>1, <3>1 DEF ApplyEpoch
  <2>2. CASE InstallEpoch \/ InstallEpochLate
    BY <1>0, <2>2 DEF InstallEpoch, InstallEpochLate
  <2>3. CASE RekeyPeer
    BY <1>0, <2>3 DEF RekeyPeer, RekeyTo, Registry!Next, Registry!Operation
  <2>4. QED
    BY <1>5, <2>1, <2>2, <2>3 DEF ContinueNet
<1>6. CASE MediaStep
  <2>1. CASE MediaApplyRoster
    <3>1. snap.u.tx \in Transactions /\ snap.u.ok \in BOOLEAN
      BY <2>1 DEF MediaApplyRoster, EngineInv, EngineTypeOK, Arguments, Update
    <3>2. \/ Registry!CommitRoster(snap.u.tx, Devices, snap.u.ok)
          \/ Registry!IgnoreRoster(snap.u.tx, Devices, snap.u.ok)
      BY <2>1 DEF MediaApplyRoster, Commits, Ignores, RosterRefused
    <3>3. QED
      BY <1>1, <3>1, <3>2
  <2>2. CASE MediaApplyEpoch
    <3>1. snap.tx \in Transactions /\ snap.key \in Keys
      BY <2>2 DEF MediaApplyEpoch, EngineInv, Arguments
    <3>2. QED
      BY <1>2, <2>2, <3>1 DEF MediaApplyEpoch
  <2>3. CASE MediaDrop
    BY <2>3 DEF MediaDrop, Registry!Next
  <2>4. ASSUME NEW s \in Senders, MediaAttach(s)
        PROVE  [Registry!Next]_(Registry!vars)
    BY <2>4 DEF MediaAttach, Registry!Next, Registry!Operation
  <2>5. CASE MediaConnect \/ MediaSnapshot \/ MediaRead \/ MediaPublish \/ MediaPublishDirect
             \/ MediaAttached
    BY <1>0, <2>5 DEF MediaConnect, MediaSnapshot, MediaRead, MediaPublish, MediaPublishDirect,
       MediaAttached
  <2>6. CASE MediaRekey
    BY <1>0, <2>6 DEF MediaRekey, RekeyTo, Registry!Next, Registry!Operation
  <2>7. QED
    BY <1>6, <2>1, <2>2, <2>3, <2>4, <2>5, <2>6 DEF MediaStep
<1>7. CASE MediaEnds
  BY <1>0, <1>7 DEF MediaEnds
<1>8. CASE UNCHANGED vars
  BY <1>0, <1>8 DEF vars
<1>9. QED
  BY <1>3, <1>4, <1>5, <1>6, <1>7, <1>8 DEF Next

\* In every execution of the engine the registry behaves as one of
\* GroupReceivers: what is proved there holds here.
THEOREM EngineImplementsRegistry == SafetySpec => Proofs!Spec
<1>1. Init => Proofs!Init
  BY SameRegistry DEF Init
<1>2. EngineInv /\ [Next]_vars => [Proofs!Next]_(Proofs!vars)
  BY EngineUsesRegistry, SameSteps
<1>3. QED
  BY <1>1, <1>2, EngineInvariant, PTL DEF SafetySpec, Proofs!Spec

\* The theorems of GroupReceivers_proofs, for this registry.
LEMMA RegistryTheorems ==
    Proofs!Spec => /\ []Proofs!TypeOK /\ []Proofs!KeyAgreement
                   /\ []Proofs!Converges /\ []Proofs!DepartedHoldNoEpoch
                   /\ Proofs!AgreesOnEpochs
<1>1. Proofs!ReceiversAssumption
  BY GroupMediaAssumption DEF Registry!ReceiversAssumption, Proofs!ReceiversAssumption
<1>2. Proofs!Spec => []Proofs!TypeOK
  BY <1>1, Proofs!ReceiversTypeOK
<1>3. Proofs!Spec => []Proofs!KeyAgreement
  BY <1>1, Proofs!EveryoneAgreesOnTheKey
<1>4. Proofs!Spec => []Proofs!Converges
  BY <1>1, Proofs!EpochsConverge
<1>5. Proofs!Spec => []Proofs!DepartedHoldNoEpoch
  BY <1>1, Proofs!DepartedDevicesHoldNoEpoch
<1>6. Proofs!Spec => Proofs!AgreesOnEpochs
  BY <1>1, Proofs!ImplementsGroupEpochs
<1>7. QED
  BY <1>2, <1>3, <1>4, <1>5, <1>6

\* The variables of registry, engine and goroutines keep their types, for
\* any number of goroutines, transactions, devices, senders and keys.
THEOREM MediaTypeOK == SafetySpec => []TypeOK
<1>1. EngineInv /\ Proofs!TypeOK => TypeOK
  BY SameRegistry DEF EngineInv, EngineTypeOK, TypeOK, Jobs
<1>2. QED
  BY <1>1, EngineInvariant, EngineImplementsRegistry, RegistryTheorems, PTL

\* Whatever the goroutines of the engine do between each other's critical
\* sections, all receivers and senders of the registry hold one key.
THEOREM EngineKeysAgree == SafetySpec => []KeysAgree
<1>1. Proofs!KeyAgreement => KeysAgree
  BY SameRegistry DEF KeysAgree
<1>2. QED
  BY <1>1, EngineImplementsRegistry, RegistryTheorems, PTL

\* Whatever order rosters, epochs, retries of the media goroutine and rekeys
\* reach the registry in, the epoch it installed is the newest that it was
\* offered and its roster has reached.
THEOREM EngineConverges == SafetySpec => []Registry!Converges
<1>1. Proofs!Converges => Registry!Converges
  BY SameRegistry
<1>2. QED
  BY <1>1, EngineImplementsRegistry, RegistryTheorems, PTL

\* A device that left a call holds no epoch key, whichever goroutine applied
\* the roster it left with and whatever the media goroutine installs later.
THEOREM EngineForgetsDeparted == SafetySpec => []Registry!DepartedHoldNoEpoch
<1>1. Proofs!DepartedHoldNoEpoch => Registry!DepartedHoldNoEpoch
  BY SameRegistry
<1>2. QED
  BY <1>1, EngineImplementsRegistry, RegistryTheorems, PTL

-----------------------------------------------------------------------------
(* The registry of a call that goes on keeps its keys.                     *)

\* Who clears a registry that was seen by others does so after the end of
\* the call; what the media goroutine drops was never published.
LiveInv ==
    /\ published => reg /\ media \in {"attach", "attachRest", "run", "done"}
    /\ \A t \in Threads : pc[t] \in {"clear", "finishClear"} => ~reg
    /\ reg /\ callKey = NoKey => media = "done" /\ ~published

LEMMA LiveInit == Init => LiveInv
  BY GroupMediaAssumption DEF Init, LiveInv, Registry!Init, Registry!ReceiversAssumption

LEMMA LiveStep == EngineInv /\ LiveInv /\ [Next]_vars => LiveInv'
<1> SUFFICES ASSUME EngineInv, LiveInv, [Next]_vars PROVE LiveInv'
  OBVIOUS
<1> USE DEF LiveInv, At, Goto, Forget, MediaGoto, MediaForget, registry, engineCall, threads, mediaVars
<1>0. pc \in [Threads -> Labels] /\ Net \in Threads
  BY DEF EngineInv, EngineTypeOK, Threads
<1>1. CASE Begin
  <2>1. ASSUME NEW t \in Threads, NEW u, HearRoster(t, u)
        PROVE  LiveInv'
    BY <1>0, <2>1 DEF HearRoster
  <2>2. ASSUME NEW tx, NEW k, HearEpoch(tx, k)
        PROVE  LiveInv'
    BY <1>0, <2>2 DEF HearEpoch
  <2>3. CASE HearRelay \/ HearAccept
    BY <1>0, <2>3 DEF HearRelay, HearAccept, CanRekey
  <2>4. ASSUME NEW t \in Threads, End(t)
        PROVE  LiveInv'
    BY <1>0, <2>4 DEF End
  <2>5. QED
    BY <1>1, <2>1, <2>2, <2>3, <2>4 DEF Begin
<1>2. ASSUME NEW t \in Threads, Continue(t)
      PROVE  LiveInv'
  <2>1. CASE ApplyRoster(t)
    <3>1. callKey' = callKey
      BY <2>1 DEF ApplyRoster, Commits, Ignores, RosterRefused, Registry!CommitRoster,
         Registry!IgnoreRoster, Registry!vars
    <3>2. QED
      BY <1>0, <2>1, <3>1 DEF ApplyRoster, Return
  <2>2. CASE InstallRoster(t) \/ InstallRosterLate(t)
    BY <1>0, <2>2 DEF InstallRoster, InstallRosterLate, Return
  <2>3. CASE ClearAgain(t)
    BY <1>0, <2>3 DEF ClearAgain, Return
  <2>4. CASE Start(t)
    BY <1>0, <2>4 DEF Start, MayStart, Return, EngineInv, Arguments
  <2>5. CASE Finish(t)
    BY <1>0, <2>5 DEF Finish
  <2>6. CASE FinishClear(t)
    BY <1>0, <2>6 DEF FinishClear, Return
  <2>7. QED
    BY <1>2, <2>1, <2>2, <2>3, <2>4, <2>5, <2>6 DEF Continue
<1>3. CASE ContinueNet
  <2>1. CASE ApplyEpoch
    <3>1. callKey' = callKey
      BY <2>1 DEF ApplyEpoch, EpochApplied, Registry!BufferEpoch, Registry!InstallEpoch,
         Registry!IgnoreEpoch
    <3>2. QED
      BY <1>0, <2>1, <3>1 DEF ApplyEpoch, Return
  <2>2. CASE InstallEpoch \/ InstallEpochLate
    BY <1>0, <2>2 DEF InstallEpoch, InstallEpochLate, Return
  <2>3. CASE RekeyPeer
    <3>1. callKey' = callKey
      BY <2>3 DEF RekeyPeer, RekeyTo, Registry!ReplaceFallback, Registry!RenameFallback
    <3>2. QED
      BY <1>0, <2>3, <3>1 DEF RekeyPeer
  <2>4. QED
    BY <1>3, <2>1, <2>2, <2>3 DEF ContinueNet
<1>4. CASE MediaStep
  <2>1. CASE MediaApplyRoster
    <3>1. callKey' = callKey
      BY <2>1 DEF MediaApplyRoster, Commits, Ignores, RosterRefused, Registry!CommitRoster,
         Registry!IgnoreRoster, Registry!vars
    <3>2. QED
      BY <2>1, <3>1 DEF MediaApplyRoster
  <2>2. CASE MediaApplyEpoch
    <3>1. callKey' = callKey
      BY <2>2 DEF MediaApplyEpoch, EpochApplied, Registry!BufferEpoch, Registry!InstallEpoch,
         Registry!IgnoreEpoch
    <3>2. QED
      BY <2>2, <3>1 DEF MediaApplyEpoch
  <2>3. CASE MediaDrop
    BY <2>3 DEF MediaDrop
  <2>4. ASSUME NEW s \in Senders, MediaAttach(s)
        PROVE  LiveInv'
    BY <2>4 DEF MediaAttach, Registry!AttachSender
  <2>5. CASE MediaConnect \/ MediaSnapshot \/ MediaRead \/ MediaAttached
    BY <2>5 DEF MediaConnect, MediaSnapshot, MediaRead, MediaAttached
  <2>6. CASE MediaPublish \/ MediaPublishDirect
    BY <2>6 DEF MediaPublish, MediaPublishDirect, EngineInv, EngineTypeOK
  <2>7. CASE MediaRekey
    <3>1. callKey' = callKey
      BY <2>7 DEF MediaRekey, RekeyTo, Registry!ReplaceFallback, Registry!RenameFallback
    <3>2. QED
      BY <2>7, <3>1 DEF MediaRekey
  <2>8. QED
    BY <1>4, <2>1, <2>2, <2>3, <2>4, <2>5, <2>6, <2>7 DEF MediaStep
<1>5. CASE MediaEnds
  BY <1>5 DEF MediaEnds
<1>6. CASE UNCHANGED vars
  BY <1>6 DEF vars
<1>7. QED
  BY <1>1, <1>2, <1>3, <1>4, <1>5, <1>6 DEF Next

\* However hangups, terminates, late rosters and the media goroutine race,
\* nobody erases the keys of a registry that a registered call publishes, and
\* all its receivers and senders hold the key of the newest epoch it can use.
THEOREM LiveRegistryIsNeverCleared == SafetySpec => []LiveRegistryKeepsKeys
<1>1. LiveInv => (reg /\ published => ~Registry!Cleared)
  BY DEF LiveInv, Registry!Cleared
<1>2. (reg /\ published => ~Registry!Cleared) /\ Proofs!KeyAgreement /\ Proofs!Converges
        => LiveRegistryKeepsKeys
  BY SameRegistry DEF LiveRegistryKeepsKeys
<1>3. SafetySpec => []LiveInv
  BY LiveInit, LiveStep, EngineInvariant, PTL DEF SafetySpec
<1>4. QED
  BY <1>1, <1>2, <1>3, EngineImplementsRegistry, RegistryTheorems, PTL

\* While a call goes on its published registry implements GroupEpochs without
\* the exception for a cleared one: the goroutines that end other calls, retry
\* or give up never take a live one out of what the members agree on.
THEOREM LiveRegistryAgrees == SafetySpec => LiveEpochsAgree
<1>1. LiveInv' /\ [Proofs!Cleared' \/ Proofs!Epochs!Next]_(Proofs!Epochs!vars)
        => [reg' /\ published' => Registry!Epochs!Next]_(Registry!Epochs!vars)
  <2>1. LiveInv' /\ reg' /\ published' => ~Proofs!Cleared'
    BY DEF LiveInv, Proofs!Cleared
  <2>2. UNCHANGED Proofs!Epochs!vars => UNCHANGED Registry!Epochs!vars
    BY DEF Proofs!Epochs!vars, Registry!Epochs!vars
  <2>3. Proofs!Epochs!Next => Registry!Epochs!Next
    BY SameEpochs
  <2>4. QED
    BY <2>1, <2>2, <2>3
<1>2. SafetySpec => []LiveInv
  BY LiveInit, LiveStep, EngineInvariant, PTL DEF SafetySpec
<1>3. QED
  BY <1>1, <1>2, EngineImplementsRegistry, RegistryTheorems, PTL
     DEF LiveEpochsAgree, Proofs!AgreesOnEpochs

-----------------------------------------------------------------------------
(* The keys of a call that ended are erased.                               *)

\* A registry others could see is the live one, cleared, or about to be
\* cleared by the goroutine that took it out.
ErasureInv ==
    media \in {"attach", "attachRest", "run", "done"} =>
        \/ reg /\ published
        \/ callKey = NoKey
        \/ \E t \in Threads : pc[t] = "finishClear" /\ job[t].had

\* Nothing gives a cleared registry the call key back.
LEMMA RegistryStaysCleared ==
    ASSUME EngineInv, [Next]_vars
    PROVE  callKey' = callKey \/ callKey' = NoKey
<1>1. [Registry!Next]_(Registry!vars)
  BY EngineUsesRegistry
<1>2. QED
  BY <1>1 DEF Registry!Next, Registry!Operation, Registry!CommitRoster, Registry!IgnoreRoster,
     Registry!BufferEpoch, Registry!InstallEpoch, Registry!IgnoreEpoch, Registry!AttachSender,
     Registry!ReplaceFallback, Registry!RenameFallback, Registry!Clear, Registry!vars,
     Registry!keyVars

LEMMA ErasureStep == EngineInv /\ ErasureInv /\ [Next]_vars => ErasureInv'
<1> SUFFICES ASSUME EngineInv, ErasureInv, [Next]_vars PROVE ErasureInv'
  OBVIOUS
<1> USE DEF ErasureInv, At, Goto, Forget, Return, MediaGoto, MediaForget, registry, engineCall,
            threads, mediaVars
<1>0. /\ pc \in [Threads -> Labels] /\ job \in [Threads -> Jobs] /\ Net \in Threads
      /\ callKey' = callKey \/ callKey' = NoKey
      /\ published \in BOOLEAN
  BY RegistryStaysCleared DEF EngineInv, EngineTypeOK, Threads
<1>1. CASE Begin
  <2>1. ASSUME NEW t \in Threads, NEW u, HearRoster(t, u) PROVE ErasureInv'
    BY <1>0, <2>1 DEF HearRoster
  <2>2. ASSUME NEW tx, NEW k, HearEpoch(tx, k) PROVE ErasureInv'
    BY <1>0, <2>2 DEF HearEpoch
  <2>3. CASE HearRelay \/ HearAccept
    BY <1>0, <2>3 DEF HearRelay, HearAccept
  <2>4. ASSUME NEW t \in Threads, End(t) PROVE ErasureInv'
    BY <1>0, <2>4 DEF End
  <2>5. QED
    BY <1>1, <2>1, <2>2, <2>3, <2>4 DEF Begin
<1>2. ASSUME NEW t \in Threads, Continue(t) PROVE ErasureInv'
  <2>1. CASE ApplyRoster(t)
    BY <1>0, <2>1 DEF ApplyRoster
  <2>2. CASE InstallRoster(t)
    BY <1>0, <2>2 DEF InstallRoster
  <2>3. CASE InstallRosterLate(t)
    BY <1>0, <2>3 DEF InstallRosterLate
  <2>4. CASE ClearAgain(t)
    BY <1>0, <2>4 DEF ClearAgain, Registry!Clear
  <2>5. CASE Start(t)
    BY <1>0, <2>5 DEF Start
  <2>6. CASE Finish(t)
    <3>1. published' = FALSE /\ media' = media /\ callKey' = callKey
          /\ pc[t] = "finish" /\ pc' = [pc EXCEPT ![t] = "finishClear"]
          /\ job' = [job EXCEPT ![t].had = published]
      BY <2>6 DEF Finish
    <3>2. pc'[t] = "finishClear" /\ job'[t].had = published
      BY <1>0, <3>1 DEF Jobs
    <3>3. ASSUME NEW s \in Threads, pc[s] = "finishClear" /\ job[s].had
          PROVE  pc'[s] = "finishClear" /\ job'[s].had
      BY <1>0, <3>1, <3>3
    <3>4. QED
      BY <3>1, <3>2, <3>3
  <2>7. CASE FinishClear(t)
    <3>1. CASE job[t].had
      BY <2>7, <3>1 DEF FinishClear, Registry!Clear
    <3>2. CASE ~job[t].had
      BY <1>0, <2>7, <3>2 DEF FinishClear
    <3>3. QED
      BY <3>1, <3>2
  <2>8. QED
    BY <1>2, <2>1, <2>2, <2>3, <2>4, <2>5, <2>6, <2>7 DEF Continue
<1>3. CASE ContinueNet
  BY <1>0, <1>3 DEF ContinueNet, ApplyEpoch, InstallEpoch, InstallEpochLate, RekeyPeer
<1>4. CASE MediaStep
  <2>1. CASE MediaDrop
    BY <2>1 DEF MediaDrop, Registry!Clear
  <2>2. CASE MediaPublish \/ MediaPublishDirect
    BY <1>0, <2>2 DEF MediaPublish, MediaPublishDirect
  <2>3. CASE MediaConnect \/ MediaSnapshot \/ MediaRead \/ MediaApplyRoster \/ MediaApplyEpoch
             \/ MediaRekey \/ MediaAttached
    BY <1>0, <2>3 DEF MediaConnect, MediaSnapshot, MediaRead, MediaApplyRoster, MediaApplyEpoch,
       MediaRekey, MediaAttached
  <2>4. ASSUME NEW s \in Senders, MediaAttach(s) PROVE ErasureInv'
    BY <1>0, <2>4 DEF MediaAttach
  <2>5. QED
    BY <1>4, <2>1, <2>2, <2>3, <2>4 DEF MediaStep
<1>5. CASE MediaEnds
  BY <1>0, <1>5 DEF MediaEnds
<1>6. CASE UNCHANGED vars
  BY <1>6 DEF vars
<1>7. QED
  BY <1>1, <1>2, <1>3, <1>4, <1>5, <1>6 DEF Next

\* The safety half of EndClears, which TLC checks under fairness: whoever takes
\* the call out erases the registry it published, and what comes too late to
\* be taken out the media goroutine drops itself.
THEOREM ErasureIsNeverForgotten == SafetySpec => []EndErases
<1>1. ErasureInv => EndErases
  BY DEF ErasureInv, EndErases, Settled, At, Registry!Cleared
<1>2. Init => ErasureInv
  BY DEF Init, ErasureInv
<1>3. QED
  BY <1>1, <1>2, ErasureStep, EngineInvariant, PTL DEF SafetySpec

-----------------------------------------------------------------------------
(* The signaling never goes back.                                          *)

LEMMA SignalingStep ==
    EngineInv /\ [Next]_vars => update'.tx >= update.tx /\ epochTx' >= epochTx
<1> SUFFICES ASSUME EngineInv, [Next]_vars
             PROVE  update'.tx >= update.tx /\ epochTx' >= epochTx
  OBVIOUS
<1>0. Transactions \subseteq Int
  BY GroupMediaAssumption DEF Registry!ReceiversAssumption
<1>1. update.tx \in Int /\ epochTx \in Int
  <2>1. update.tx \in Numbers /\ epochTx \in Numbers
    BY Shapes DEF EngineInv, EngineTypeOK
  <2>2. Numbers \subseteq Int
    BY <1>0 DEF Numbers, NoTx
  <2>3. QED
    BY <2>1, <2>2
<1>2. CASE UNCHANGED <<update, epochTx>>
  BY <1>1, <1>2
<1>3. ASSUME NEW t \in Threads, InstallRoster(t)
      PROVE  update'.tx >= update.tx /\ epochTx' >= epochTx
  <2>1. job[t].u.tx \in Transactions
    BY <1>3 DEF InstallRoster, At, EngineInv, Arguments
  <2>2. job[t].u.tx \in Int
    BY <1>0, <2>1
  <2>3. update' = job[t].u /\ epochTx' = epochTx /\ ~(job[t].u.tx <= update.tx)
    BY <1>3 DEF InstallRoster, Overtaken
  <2>4. update'.tx = job[t].u.tx
    BY <2>3
  <2>5. QED
    BY <1>1, <2>2, <2>3, <2>4
<1>4. CASE InstallEpoch
  <2>1. job[Net].tx \in Nat
    BY <1>4, GroupMediaAssumption DEF InstallEpoch, At, EngineInv, Arguments,
       Registry!ReceiversAssumption
  <2>2. QED
    BY <1>1, <1>4, <2>1 DEF InstallEpoch, OldEpoch, NoTx
<1>5. ASSUME NEW t \in Threads, Continue(t), ~InstallRoster(t)
      PROVE  UNCHANGED <<update, epochTx>>
  BY <1>5 DEF Continue, ApplyRoster, InstallRosterLate, ClearAgain, Start, Finish, FinishClear,
     engineCall
<1>6. CASE Begin
  <2>1. ASSUME NEW t, NEW u, HearRoster(t, u)
        PROVE  UNCHANGED <<update, epochTx>>
    BY <2>1 DEF HearRoster, engineCall
  <2>2. ASSUME NEW tx, NEW k, HearEpoch(tx, k)
        PROVE  UNCHANGED <<update, epochTx>>
    BY <2>2 DEF HearEpoch, engineCall
  <2>3. ASSUME NEW t, HearRelay \/ HearAccept \/ End(t)
        PROVE  UNCHANGED <<update, epochTx>>
    BY <2>3 DEF HearRelay, HearAccept, End, engineCall
  <2>4. QED
    BY <1>2, <1>6, <2>1, <2>2, <2>3 DEF Begin
<1>7. CASE MediaStep \/ MediaEnds
  BY <1>2, <1>7 DEF MediaStep, MediaEnds, MediaConnect, MediaSnapshot, MediaRead,
     MediaApplyRoster, MediaApplyEpoch, MediaPublish, MediaPublishDirect, MediaAttached,
     MediaAttach, MediaRekey, MediaDrop, engineCall
<1>8. CASE ContinueNet
  BY <1>2, <1>4, <1>8 DEF ContinueNet, ApplyEpoch, InstallEpochLate, RekeyPeer, engineCall
<1>9. CASE UNCHANGED vars
  BY <1>2, <1>9 DEF vars, engineCall
<1>10. QED
  BY <1>2, <1>3, <1>5, <1>6, <1>7, <1>8, <1>9 DEF Next

\* Two goroutines may apply rosters at once and epochs come in any order:
\* neither the recorded roster nor the recorded epoch is replaced by an older.
THEOREM SignalingIsMonotone == SafetySpec => SignalingNeverGoesBack
<1>1. EngineInv /\ [Next]_vars =>
        [reg' => update'.tx >= update.tx /\ epochTx' >= epochTx]_vars
  BY SignalingStep
<1>2. QED
  BY <1>1, EngineInvariant, PTL DEF SafetySpec, SignalingNeverGoesBack

-----------------------------------------------------------------------------
(* The registry is published up to date, and stays level with the signaling. *)

\* Until the media goroutine publishes the registry nobody else has seen it.
Unpublished == {"none", "connect", "snapshot", "read", "applyRoster", "applyEpoch", "publish"}

Unseen ==
    /\ ~published
    /\ \A t \in Threads : /\ ~job[t].had
                          /\ pc[t] \notin {"applyRoster", "applyEpoch", "rekey", "clear"}

\* Nothing in the registry is newer than epoch tx, and what it has of tx is
\* the key k.
UpTo(tx, k) ==
    /\ installedTx <= tx
    /\ installedTx = tx => installedKey = k
    /\ \A n \in Transactions : pending[n] # NoKey => n <= tx /\ (n = tx => pending[n] = k)

\* The copy of an attempt is one the signaling had.
CopyIsPast ==
    /\ snap.u.tx <= update.tx
    /\ snap.tx <= epochTx
    /\ reg /\ snap.tx = epochTx => snap.key = epochKey

\* What an attempt has found and left in the registry at each of its places.
BuildInv ==
    /\ media \in Unpublished => Unseen
    /\ media \in {"none", "connect", "snapshot"} =>
          /\ roster = NoTx /\ installedTx = NoTx /\ installedKey = NoKey
          /\ \A n \in Transactions : pending[n] = NoKey
    /\ media = "read" => roster <= update.tx /\ (reg => UpTo(epochTx, epochKey))
    /\ media \in {"applyRoster", "applyEpoch", "publish"} =>
          CopyIsPast /\ roster <= snap.u.tx /\ UpTo(snap.tx, snap.key)
    /\ media \in {"applyEpoch", "publish"} => roster = snap.u.tx
    /\ media = "publish" => installedTx = snap.tx \/ pending[snap.tx] = snap.key

RegistryType ==
    /\ roster \in Numbers /\ installedTx \in Numbers
    /\ pending \in [Transactions -> Keys \cup {NoKey}]

LEMMA NumbersAreInts ==
    /\ Numbers \subseteq Int /\ Transactions \subseteq Nat /\ Transactions \subseteq Int
    /\ \A n \in Numbers : NoTx <= n
<1>1. Transactions \subseteq Nat
  BY GroupMediaAssumption DEF Registry!ReceiversAssumption
<1>2. Transactions \subseteq Int
  BY <1>1
<1>3. QED
  BY <1>1, <1>2 DEF Numbers, NoTx

LEMMA RegistryTyped == SafetySpec => []RegistryType
<1>1. Proofs!TypeOK => RegistryType
  BY DEF Proofs!TypeOK, Proofs!Numbers, Proofs!NoTx, RegistryType, Numbers, NoTx
<1>2. QED
  BY <1>1, EngineImplementsRegistry, RegistryTheorems, PTL

LEMMA BuildInit == Init => BuildInv
<1>1. Init => Unseen
  BY GroupMediaAssumption DEF Init, Unseen, NoJob
<1>2. QED
  BY <1>1 DEF Init, BuildInv, Registry!Init, Registry!NoTx, NoTx

\* What another goroutine changes in the engineCall while nobody has seen the
\* registry disturbs no attempt.
LEMMA OthersKeepBuildInv ==
    ASSUME EngineInv, RegistryType, BuildInv, media \in Unpublished,
           UNCHANGED <<roster, installedTx, installedKey, pending, media, snap>>,
           update' \in Update, epochTx' \in Numbers,
           update'.tx >= update.tx, epochTx' >= epochTx,
           reg' => reg /\ (epochTx' = epochTx => epochKey' = epochKey),
           Unseen'
    PROVE  BuildInv'
<1>1. /\ update.tx \in Int /\ update'.tx \in Int /\ epochTx \in Int /\ epochTx' \in Int
      /\ roster \in Int /\ installedTx \in Int
  BY NumbersAreInts, Shapes DEF EngineInv, EngineTypeOK, RegistryType
<1>2. CASE media = "read"
  <2>1. roster' <= update'.tx
    BY <1>1, <1>2 DEF BuildInv
  <2>2. ASSUME reg' PROVE UpTo(epochTx, epochKey)' 
    <3>1. UpTo(epochTx, epochKey)
      BY <1>2, <2>2 DEF BuildInv
    <3>2. ASSUME NEW n \in Transactions, pending[n] # NoKey
          PROVE  n <= epochTx' /\ (n = epochTx' => pending[n] = epochKey')
      <4>1. n <= epochTx /\ (n = epochTx => pending[n] = epochKey) /\ n \in Int
        BY <3>1, <3>2, NumbersAreInts DEF UpTo
      <4>2. QED
        BY <1>1, <2>2, <4>1
    <3>3. installedTx' <= epochTx' /\ (installedTx' = epochTx' => installedKey' = epochKey')
      BY <1>1, <2>2, <3>1 DEF UpTo
    <3>4. QED
      BY <3>2, <3>3 DEF UpTo
  <2>3. QED
    BY <1>2, <2>1, <2>2 DEF BuildInv
<1>3. CASE media \in {"applyRoster", "applyEpoch", "publish"}
  <2>0. snap.u.tx \in Transactions /\ snap.tx \in Transactions
    BY <1>3 DEF EngineInv, Arguments
  <2>1. snap.u.tx \in Int /\ snap.tx \in Int
    BY <2>0, NumbersAreInts
  <2>2. CopyIsPast'
    BY <1>1, <1>3, <2>1 DEF BuildInv, CopyIsPast
  <2>3. UpTo(snap.tx, snap.key)'
    BY <1>3 DEF BuildInv, UpTo
  <2>4. QED
    BY <1>3, <2>2, <2>3 DEF BuildInv
<1>4. CASE media \in {"none", "connect", "snapshot"}
  BY <1>4 DEF BuildInv
<1>5. QED
  BY <1>2, <1>3, <1>4 DEF Unpublished

\* Until then the steps of the other goroutines leave the registry alone.
LEMMA OthersLeaveRegistry ==
    ASSUME EngineInv, BuildInv, media \in Unpublished,
           \/ Begin
           \/ \E t \in Threads : Continue(t)
           \/ ContinueNet
    PROVE  /\ UNCHANGED registry /\ UNCHANGED snap
           /\ Unseen'
           /\ media' = media \/ (media = "none" /\ media' = "connect")
           /\ reg' => reg /\ (epochTx' = epochTx => epochKey' = epochKey)
<1> USE DEF At, Goto, Forget, Return, registry, engineCall, threads, mediaVars
<1>0. /\ Unseen /\ Net \in Threads /\ pc \in [Threads -> Labels] /\ job \in [Threads -> Jobs]
      /\ published \in BOOLEAN
  BY DEF BuildInv, Threads, EngineInv, EngineTypeOK
<1>1. ASSUME NEW t \in Threads, NEW u, HearRoster(t, u)
      PROVE  UNCHANGED <<registry, engineCall, mediaVars>> /\ Unseen'
  BY <1>0, <1>1 DEF HearRoster, Unseen, NoJob
<1>2. ASSUME NEW tx, NEW k, HearEpoch(tx, k)
      PROVE  UNCHANGED <<registry, engineCall, mediaVars>> /\ Unseen'
  <2>1. UNCHANGED <<registry, engineCall, mediaVars>>
    BY <1>2 DEF HearEpoch
  <2>2. CASE OldEpoch(tx)
    BY <1>0, <1>2, <2>1, <2>2 DEF HearEpoch, Unseen
  <2>3. CASE ~OldEpoch(tx)
    <3> DEFINE j == [NoJob EXCEPT !.tx = tx, !.key = k, !.had = published]
    <3>1. j.had = published
      BY DEF NoJob
    <3>2. /\ job' = [job EXCEPT ![Net] = j]
          /\ pc' = [pc EXCEPT ![Net] = "installEpoch"]
      BY <1>0, <1>2, <2>3 DEF HearEpoch, Unseen
    <3> HIDE DEF j
    <3>3. QED
      BY <1>0, <2>1, <3>1, <3>2 DEF Unseen
  <2>4. QED
    BY <2>1, <2>2, <2>3
<1>3. ASSUME HearRelay \/ HearAccept
      PROVE  /\ UNCHANGED <<registry, reg, epochTx, epochKey, mediaVars>> /\ Unseen'
  BY <1>0, <1>3 DEF HearRelay, HearAccept, CanRekey, Unseen, Unpublished
<1>4. ASSUME NEW t \in Threads, End(t)
      PROVE  UNCHANGED <<registry, engineCall, mediaVars>> /\ Unseen'
  BY <1>0, <1>4 DEF End, Unseen
<1>5. ASSUME NEW t \in Threads, InstallRoster(t)
      PROVE  UNCHANGED <<registry, reg, epochTx, epochKey, mediaVars>> /\ Unseen'
  BY <1>0, <1>5 DEF InstallRoster, Unseen, NoJob
<1>6. ASSUME NEW t \in Threads, InstallRosterLate(t)
      PROVE  UNCHANGED <<registry, engineCall, mediaVars>> /\ Unseen'
  BY <1>0, <1>6 DEF InstallRosterLate, Unseen, NoJob
<1>7. ASSUME NEW t \in Threads, Start(t)
      PROVE  /\ UNCHANGED <<registry, reg, epochTx, epochKey, snap>> /\ Unseen'
             /\ media' = media \/ (media = "none" /\ media' = "connect")
  <2>1. Unseen'
    BY <1>0, <1>7 DEF Start, Unseen, NoJob
  <2>2. QED
    BY <1>7, <2>1 DEF Start, MayStart, EngineInv, Arguments
<1>8. ASSUME NEW t \in Threads, Finish(t)
      PROVE  UNCHANGED <<registry, mediaVars>> /\ ~reg' /\ Unseen'
  <2>1. ASSUME NEW s \in Threads
        PROVE  ~job'[s].had /\ pc'[s] \notin {"applyRoster", "applyEpoch", "rekey", "clear"}
    BY <1>0, <1>8 DEF Finish, Unseen, Jobs
  <2>2. QED
    BY <1>8, <2>1 DEF Finish, Unseen
<1>9. ASSUME NEW t \in Threads, FinishClear(t)
      PROVE  UNCHANGED <<registry, reg, epochTx, epochKey, mediaVars>> /\ Unseen'
  BY <1>0, <1>9 DEF FinishClear, Unseen, NoJob
<1>10. ASSUME NEW t \in Threads, ApplyRoster(t) \/ ClearAgain(t)
       PROVE  FALSE
  BY <1>0, <1>10 DEF ApplyRoster, ClearAgain, Unseen
<1>11. ASSUME ApplyEpoch \/ RekeyPeer
       PROVE  FALSE
  BY <1>0, <1>11 DEF ApplyEpoch, RekeyPeer, Unseen
<1>12. ASSUME InstallEpoch
       PROVE  /\ UNCHANGED <<registry, reg, mediaVars>> /\ Unseen'
              /\ epochTx' # epochTx
  <2>1. job[Net].tx \in Transactions /\ epochTx \in Numbers
    BY <1>12 DEF InstallEpoch, EngineInv, EngineTypeOK, Arguments
  <2>2. job[Net].tx \in Nat /\ epochTx \in Int
    BY <2>1, NumbersAreInts
  <2>3. epochTx' = job[Net].tx /\ (epochTx = NoTx \/ ~(job[Net].tx <= epochTx))
    BY <1>12 DEF InstallEpoch, OldEpoch
  <2>4. epochTx' # epochTx
    BY <2>2, <2>3 DEF NoTx
  <2>5. QED
    BY <1>0, <1>12, <2>4 DEF InstallEpoch, Unseen, NoJob
<1>13. ASSUME InstallEpochLate
       PROVE  UNCHANGED <<registry, engineCall, mediaVars>> /\ Unseen'
  BY <1>0, <1>13 DEF InstallEpochLate, Unseen, NoJob
<1>14. CASE Begin
  <2>1. UNCHANGED <<registry, reg, epochTx, epochKey, mediaVars>> /\ Unseen'
    BY <1>1, <1>2, <1>3, <1>4, <1>14 DEF Begin
  <2>2. QED
    BY <2>1
<1>15. ASSUME NEW t \in Threads, Continue(t)
       PROVE  /\ UNCHANGED registry /\ UNCHANGED snap
              /\ Unseen'
              /\ media' = media \/ (media = "none" /\ media' = "connect")
              /\ reg' => reg /\ (epochTx' = epochTx => epochKey' = epochKey)
  BY <1>5, <1>6, <1>7, <1>8, <1>9, <1>10, <1>15 DEF Continue
<1>16. CASE ContinueNet
  BY <1>11, <1>12, <1>13, <1>16 DEF ContinueNet
<1>17. QED
  BY <1>14, <1>15, <1>16

\* A roster of the attempt takes nothing in that is newer than its epoch.
LEMMA RosterKeepsUpTo ==
    ASSUME RegistryType, NEW tx \in Numbers, NEW k, UpTo(tx, k), k # NoKey,
           NEW u \in Update, Commits(u)
    PROVE  UpTo(tx, k)' /\ roster' = u.tx
<1>1. PICK n \in Registry!Numbers :
          /\ Registry!NewestDue(n, u.tx)
          /\ installedTx' = IF n > installedTx THEN n ELSE installedTx
          /\ installedKey' = Registry!Adopted(n)
  BY DEF Commits, Registry!CommitRoster
<1>2. roster' = u.tx /\ pending' = [t \in Transactions |-> IF t <= u.tx THEN NoKey ELSE pending[t]]
  BY DEF Commits, Registry!CommitRoster
<1>3. n = NoTx \/ (n \in Transactions /\ pending[n] # NoKey)
  BY <1>1 DEF Registry!NewestDue, Registry!Due, Registry!NoTx, NoTx
<1>4. n \in Int /\ tx \in Int /\ installedTx \in Int
  BY <1>1, NumbersAreInts DEF Registry!Numbers, Registry!NoTx, Numbers, NoTx, RegistryType
<1>5. \A t \in Transactions : pending'[t] # NoKey => t <= tx /\ (t = tx => pending'[t] = k)
  BY <1>2 DEF UpTo
<1>6. installedTx' <= tx /\ (installedTx' = tx => installedKey' = k)
  <2>1. CASE n > installedTx
    <3>1. n # NoTx
      <4>1. installedTx = NoTx \/ installedTx \in Nat
        BY NumbersAreInts DEF RegistryType, Numbers
      <4>2. QED
        BY <2>1, <4>1 DEF NoTx
    <3>2. n <= tx /\ (n = tx => pending[n] = k)
      BY <1>3, <3>1 DEF UpTo
    <3>3. QED
      BY <1>1, <2>1, <3>2 DEF Registry!Adopted
  <2>2. CASE ~(n > installedTx)
    BY <1>1, <2>2 DEF Registry!Adopted, UpTo
  <2>3. QED
    BY <2>1, <2>2
<1>7. QED
  BY <1>2, <1>5, <1>6 DEF UpTo

\* The epoch of the attempt, unless it is refused, is installed or waits for
\* a later roster.
LEMMA EpochIsTaken ==
    ASSUME RegistryType, NEW tx \in Transactions, NEW k \in Keys, UpTo(tx, k),
           EpochApplied(tx, k), ~EpochRefused(tx, k)
    PROVE  /\ UpTo(tx, k)' /\ roster' = roster
           /\ installedTx' = tx \/ pending'[tx] = k
<1>0. k # NoKey /\ tx \in Int /\ installedTx \in Int /\ roster \in Int
  BY NumbersAreInts, GroupMediaAssumption DEF Registry!ReceiversAssumption, RegistryType
<1>1. CASE Registry!BufferEpoch(tx, k)
  <2>1. /\ pending' = [pending EXCEPT ![tx] = k]
        /\ UNCHANGED <<roster, installedTx, installedKey>>
    BY <1>1 DEF Registry!BufferEpoch
  <2>2. QED
    BY <1>0, <2>1 DEF UpTo, RegistryType
<1>2. CASE Registry!InstallEpoch(tx, k)
  <2>1. installedTx' = tx /\ installedKey' = k /\ UNCHANGED <<roster, pending>>
    BY <1>2 DEF Registry!InstallEpoch
  <2>2. QED
    BY <1>0, <2>1 DEF UpTo
<1>3. CASE Registry!IgnoreEpoch(tx, k)
  <2>1. UNCHANGED <<roster, pending, installedTx, installedKey>>
    BY <1>3 DEF Registry!IgnoreEpoch, Registry!keyVars
  <2>2. IF tx > roster THEN pending[tx] # NoKey ELSE tx <= installedTx
    BY <1>3 DEF Registry!IgnoreEpoch
  <2>3. installedTx = tx \/ pending[tx] = k
    <3>1. CASE tx > roster
      BY <2>2, <3>1 DEF EpochRefused
    <3>2. CASE ~(tx > roster)
      BY <1>0, <2>2, <3>2 DEF UpTo
    <3>3. QED
      BY <3>1, <3>2
  <2>4. QED
    BY <2>1, <2>3 DEF UpTo
<1>4. QED
  BY <1>1, <1>2, <1>3 DEF EpochApplied

\* The steps of the media goroutine.
LEMMA MediaKeepsBuildInv ==
    ASSUME EngineInv, RegistryType, BuildInv, MediaStep \/ MediaEnds
    PROVE  BuildInv'
<1> USE DEF MediaGoto, MediaForget, registry, engineCall, threads, mediaVars
<1>0. media \in Unpublished => Unseen
  BY DEF BuildInv
<1>1. CASE media' \notin Unpublished
  BY <1>1 DEF BuildInv, Unpublished
<1>2. CASE media' \in Unpublished /\ MediaConnect
  BY <1>0, <1>2 DEF MediaConnect, BuildInv, Unseen, Unpublished
<1>3. CASE media' \in Unpublished /\ MediaSnapshot
  <2>1. Unseen' /\ reg /\ media' = "read" /\ media = "snapshot"
        /\ UNCHANGED <<registry, engineCall>>
    BY <1>0, <1>3 DEF MediaSnapshot, Unseen, Unpublished
  <2>2. roster = NoTx /\ installedTx = NoTx /\ installedKey = NoKey
        /\ \A n \in Transactions : pending[n] = NoKey
    BY <2>1 DEF BuildInv
  <2>3. NoTx <= update.tx /\ NoTx <= epochTx
    <3>1. update.tx \in Numbers /\ epochTx \in Numbers
      BY Shapes DEF EngineInv, EngineTypeOK
    <3>2. QED
      BY <3>1, NumbersAreInts
  <2>4. epochTx = NoTx => epochKey = NoKey
    <3>1. NoTx \notin Transactions
      BY NumbersAreInts DEF NoTx
    <3>2. QED
      BY <3>1 DEF EngineInv, Arguments
  <2>5. UpTo(epochTx, epochKey)'
    BY <2>1, <2>2, <2>3, <2>4 DEF UpTo
  <2>6. QED
    BY <2>1, <2>2, <2>3, <2>5 DEF BuildInv
<1>4. CASE media' \in Unpublished /\ MediaRead
  <2>1. /\ Unseen' /\ reg /\ media = "read" /\ media' = "applyRoster"
        /\ snap' = [tx |-> epochTx, u |-> update, key |-> epochKey]
        /\ UNCHANGED <<registry, engineCall>>
    BY <1>0, <1>4 DEF MediaRead, Unseen, Unpublished
  <2>2. roster <= update.tx /\ UpTo(epochTx, epochKey)
    BY <2>1 DEF BuildInv
  <2>3. snap'.tx = epochTx /\ snap'.u = update /\ snap'.key = epochKey
    BY <2>1
  <2>4. update.tx \in Int /\ epochTx \in Int
    BY NumbersAreInts, Shapes DEF EngineInv, EngineTypeOK
  <2>5. CopyIsPast' /\ UpTo(snap.tx, snap.key)'
    BY <2>1, <2>2, <2>3, <2>4 DEF CopyIsPast, UpTo
  <2>6. QED
    BY <2>1, <2>2, <2>3, <2>5 DEF BuildInv
<1>5. CASE media' \in Unpublished /\ MediaApplyRoster
  <2>1. /\ Unseen' /\ media = "applyRoster" /\ media' = "applyEpoch"
        /\ UNCHANGED <<engineCall, snap>>
        /\ Commits(snap.u) \/ (Ignores(snap.u) /\ ~RosterRefused(snap.u))
    BY <1>0, <1>5 DEF MediaApplyRoster, Unseen, Unpublished
  <2>2. CopyIsPast /\ roster <= snap.u.tx /\ UpTo(snap.tx, snap.key)
    BY <2>1 DEF BuildInv
  <2>3. snap.tx \in Numbers /\ snap.u \in Update /\ snap.key # NoKey /\ snap.u.tx \in Int
        /\ roster \in Int
    <3>1. snap.tx \in Transactions /\ snap.key \in Keys /\ snap.u.tx \in Transactions
          /\ snap.u \in Update
      BY <2>1 DEF EngineInv, EngineTypeOK, Arguments
    <3>2. QED
      BY <3>1, NumbersAreInts, Shapes, GroupMediaAssumption
         DEF Registry!ReceiversAssumption, RegistryType
  <2>4. UpTo(snap.tx, snap.key)' /\ roster' = snap.u.tx
    <3>1. CASE Commits(snap.u)
      <4> DEFINE tx == snap.tx  k == snap.key
      <4>1. UpTo(tx, k) /\ tx \in Numbers /\ k # NoKey
        BY <2>2, <2>3
      <4>2. tx' = tx /\ k' = k
        BY <2>1
      <4>3. /\ installedTx' <= tx /\ (installedTx' = tx => installedKey' = k)
            /\ \A n \in Transactions : pending'[n] # NoKey => n <= tx /\ (n = tx => pending'[n] = k)
            /\ roster' = snap.u.tx
        <5> HIDE DEF tx, k
        <5>1. QED
          BY <2>3, <3>1, <4>1, RosterKeepsUpTo DEF UpTo
      <4>4. QED
        BY <4>2, <4>3 DEF UpTo
    <3>2. CASE Ignores(snap.u) /\ ~RosterRefused(snap.u)
      <4>1. UNCHANGED <<roster, installedTx, installedKey, pending>>
        BY <3>2 DEF Ignores, Registry!IgnoreRoster, Registry!vars, Registry!keyVars
      <4>2. snap.u.tx <= roster
        BY <2>3, <3>2 DEF RosterRefused
      <4>3. QED
        BY <2>1, <2>2, <2>3, <4>1, <4>2 DEF UpTo
    <3>3. QED
      BY <2>1, <3>1, <3>2
  <2>5. CopyIsPast'
    BY <2>1, <2>2 DEF CopyIsPast
  <2>6. roster' <= snap'.u.tx
    BY <2>1, <2>3, <2>4
  <2>7. QED
    BY <2>1, <2>4, <2>5, <2>6 DEF BuildInv
<1>6. CASE media' \in Unpublished /\ MediaApplyEpoch
  <2>1. /\ Unseen' /\ media = "applyEpoch" /\ media' = "publish"
        /\ UNCHANGED <<engineCall, snap>>
        /\ EpochApplied(snap.tx, snap.key) /\ ~EpochRefused(snap.tx, snap.key)
    BY <1>0, <1>6 DEF MediaApplyEpoch, Unseen, Unpublished
  <2>2. CopyIsPast /\ roster <= snap.u.tx /\ roster = snap.u.tx /\ UpTo(snap.tx, snap.key)
    BY <2>1 DEF BuildInv
  <2>3. snap.tx \in Transactions /\ snap.key \in Keys
    BY <2>1 DEF EngineInv, Arguments
  <2>4. /\ UpTo(snap.tx, snap.key)' /\ roster' = roster
        /\ installedTx' = snap.tx \/ pending'[snap.tx] = snap.key
    <3> DEFINE tx == snap.tx  k == snap.key
    <3>1. tx \in Transactions /\ k \in Keys /\ UpTo(tx, k) /\ EpochApplied(tx, k)
          /\ ~EpochRefused(tx, k)
      BY <2>1, <2>2, <2>3
    <3>2. tx' = tx /\ k' = k
      BY <2>1
    <3>3. /\ installedTx' <= tx /\ (installedTx' = tx => installedKey' = k)
          /\ \A n \in Transactions : pending'[n] # NoKey => n <= tx /\ (n = tx => pending'[n] = k)
          /\ roster' = roster
          /\ installedTx' = tx \/ pending'[tx] = k
      <4> HIDE DEF tx, k
      <4>1. QED
        BY <3>1, EpochIsTaken DEF UpTo
    <3>4. QED
      BY <3>2, <3>3 DEF UpTo
  <2>5. CopyIsPast'
    BY <2>1, <2>2 DEF CopyIsPast
  <2>6. QED
    BY <2>1, <2>2, <2>4, <2>5 DEF BuildInv
<1>7. CASE media' \in Unpublished /\ MediaPublish
  <2>1. /\ Unseen' /\ reg /\ media = "publish" /\ media' = "read"
        /\ UNCHANGED <<registry, reg, update, epochTx, epochKey>>
    BY <1>0, <1>7 DEF MediaPublish, Unseen, Unpublished
  <2>2. CopyIsPast /\ roster = snap.u.tx /\ UpTo(snap.tx, snap.key)
    BY <2>1 DEF BuildInv
  <2>3. snap.tx \in Int /\ epochTx \in Int /\ installedTx \in Int
    <3>1. snap.tx \in Transactions
      BY <2>1 DEF EngineInv, Arguments
    <3>2. QED
      BY <3>1, NumbersAreInts DEF EngineInv, EngineTypeOK, RegistryType
  <2>4. roster <= update.tx
    BY <2>2 DEF CopyIsPast
  <2>5. UpTo(epochTx, epochKey)
    <3>1. snap.tx <= epochTx /\ (snap.tx = epochTx => snap.key = epochKey)
      BY <2>1, <2>2 DEF CopyIsPast
    <3>2. ASSUME NEW n \in Transactions, pending[n] # NoKey
          PROVE  n <= epochTx /\ (n = epochTx => pending[n] = epochKey)
      <4>1. n \in Int /\ n <= snap.tx /\ (n = snap.tx => pending[n] = snap.key)
        BY <2>2, <3>2, NumbersAreInts DEF UpTo
      <4>2. QED
        BY <2>3, <3>1, <4>1
    <3>3. QED
      BY <2>2, <2>3, <3>1, <3>2 DEF UpTo
  <2>6. UpTo(epochTx, epochKey)'
    BY <2>1, <2>5 DEF UpTo
  <2>7. QED
    BY <2>1, <2>4, <2>6 DEF BuildInv
<1>8. CASE media' \in Unpublished /\ (MediaPublishDirect \/ MediaDrop \/ MediaEnds
             \/ MediaRekey \/ MediaAttached \/ \E s \in Senders : MediaAttach(s))
  BY <1>8 DEF MediaPublishDirect, MediaDrop, MediaEnds, MediaRekey, MediaAttached, MediaAttach,
     Unpublished
<1>9. QED
  BY <1>1, <1>2, <1>3, <1>4, <1>5, <1>6, <1>7, <1>8 DEF MediaStep

\* What begins an operation touches neither the registry nor the media.
LEMMA BeginFrame == Begin => UNCHANGED <<registry, mediaVars, reg>>
<1>1. ASSUME NEW t, NEW u, HearRoster(t, u)
      PROVE  UNCHANGED <<registry, mediaVars, reg>>
  BY <1>1 DEF HearRoster, engineCall
<1>2. ASSUME NEW tx, NEW k, HearEpoch(tx, k)
      PROVE  UNCHANGED <<registry, mediaVars, reg>>
  BY <1>2 DEF HearEpoch, engineCall
<1>3. ASSUME NEW t, HearRelay \/ HearAccept \/ End(t)
      PROVE  UNCHANGED <<registry, mediaVars, reg>>
  BY <1>3 DEF HearRelay, HearAccept, End, engineCall
<1>4. QED
  BY <1>1, <1>2, <1>3 DEF Begin

\* A call that left the map never returns to it.
LEMMA NeverRegisteredAgain == [Next]_vars /\ reg' => reg
<1> SUFFICES ASSUME [Next]_vars, reg' PROVE reg
  OBVIOUS
<1>1. ASSUME NEW t \in Threads, Continue(t)
      PROVE  reg
  BY <1>1 DEF Continue, ApplyRoster, InstallRoster, InstallRosterLate, ClearAgain, Start, Finish,
     FinishClear, engineCall
<1>2. CASE ContinueNet
  BY <1>2 DEF ContinueNet, ApplyEpoch, InstallEpoch, InstallEpochLate, RekeyPeer, engineCall
<1>3. CASE MediaStep \/ MediaEnds
  BY <1>3 DEF MediaStep, MediaConnect, MediaSnapshot, MediaRead, MediaApplyRoster, MediaApplyEpoch,
     MediaPublish, MediaPublishDirect, MediaRekey, MediaAttached, MediaAttach, MediaDrop, MediaEnds,
     engineCall
<1>4. CASE UNCHANGED vars
  BY <1>4 DEF vars, engineCall
<1>5. QED
  BY <1>1, <1>2, <1>3, <1>4, BeginFrame DEF Next

LEMMA BuildStep == EngineInv /\ EngineInv' /\ RegistryType /\ BuildInv /\ [Next]_vars => BuildInv'
<1> SUFFICES ASSUME EngineInv, EngineInv', RegistryType, BuildInv, [Next]_vars PROVE BuildInv'
  OBVIOUS
<1>1. CASE media \in Unpublished
           /\ (Begin \/ (\E t \in Threads : Continue(t)) \/ ContinueNet)
  <2>1. /\ UNCHANGED registry /\ UNCHANGED snap /\ Unseen'
        /\ media' = media \/ (media = "none" /\ media' = "connect")
        /\ reg' => reg /\ (epochTx' = epochTx => epochKey' = epochKey)
    BY <1>1, OthersLeaveRegistry
  <2>2. update' \in Update /\ epochTx' \in Numbers
    BY DEF EngineInv, EngineTypeOK
  <2>3. update'.tx >= update.tx /\ epochTx' >= epochTx
    BY SignalingStep
  <2>4. CASE media' = media
    BY <1>1, <2>1, <2>2, <2>3, <2>4, OthersKeepBuildInv DEF registry
  <2>5. CASE media = "none" /\ media' = "connect"
    BY <2>1, <2>5 DEF BuildInv, registry
  <2>6. QED
    BY <2>1, <2>4, <2>5
<1>2. CASE media \notin Unpublished
           /\ (Begin \/ (\E t \in Threads : Continue(t)) \/ ContinueNet)
  <2>1. media' = media
    <3>1. media # "none" /\ started
      BY <1>2 DEF Unpublished, EngineInv, Arguments
    <3>2. CASE Begin
      BY <3>2, BeginFrame DEF mediaVars
    <3>3. ASSUME NEW t \in Threads, Continue(t)
          PROVE  media' = media
      BY <3>1, <3>3 DEF Continue, ApplyRoster, InstallRoster, InstallRosterLate, ClearAgain, Start,
         MayStart, Finish, FinishClear, mediaVars
    <3>4. CASE ContinueNet
      BY <3>4 DEF ContinueNet, ApplyEpoch, InstallEpoch, InstallEpochLate, RekeyPeer, mediaVars
    <3>5. QED
      BY <1>2, <3>2, <3>3, <3>4
  <2>2. QED
    BY <1>2, <2>1 DEF BuildInv, Unpublished
<1>3. CASE MediaStep \/ MediaEnds
  BY <1>3, MediaKeepsBuildInv
<1>4. CASE UNCHANGED vars
  BY <1>4 DEF vars, registry, engineCall, threads, mediaVars, BuildInv, Unseen, UpTo, CopyIsPast
<1>5. QED
  BY <1>1, <1>2, <1>3, <1>4 DEF Next

LEMMA BuildInvariant == SafetySpec => []BuildInv
  BY BuildInit, BuildStep, EngineInvariant, RegistryTyped, PTL DEF SafetySpec

\* A registry that a group call publishes has the newest roster and the newest
\* epoch the call heard, whatever came while the media goroutine built it.
THEOREM RegistryIsPublishedUpToDate == SafetySpec => PublishedUpToDate
<1>1. ASSUME EngineInv, BuildInv, [Next]_vars, media = "publish", media' = "attach"
      PROVE  roster = update.tx /\ (installedTx = epochTx \/ pending[epochTx] = epochKey)
  <2>1. MediaPublish
    BY <1>1 DEF Next, Begin, Continue, ContinueNet, MediaStep, HearRoster, HearEpoch, HearRelay,
       HearAccept, End, ApplyRoster, InstallRoster, InstallRosterLate, ClearAgain, Start, MayStart,
       Finish, FinishClear, ApplyEpoch, InstallEpoch, InstallEpochLate, RekeyPeer, mediaVars,
       MediaConnect, MediaSnapshot, MediaRead, MediaApplyRoster, MediaApplyEpoch,
       MediaPublishDirect, MediaRekey, MediaAttached, MediaAttach, MediaDrop, MediaEnds, vars
  <2>2. reg /\ update.tx <= snap.u.tx /\ epochTx <= snap.tx
    BY <1>1, <2>1 DEF MediaPublish, MediaGoto
  <2>3. CopyIsPast /\ roster = snap.u.tx /\ (installedTx = snap.tx \/ pending[snap.tx] = snap.key)
    BY <1>1 DEF BuildInv
  <2>4. update.tx \in Int /\ epochTx \in Int
    BY <1>1, NumbersAreInts, Shapes DEF EngineInv, EngineTypeOK
  <2>5. snap.u.tx \in Int /\ snap.tx \in Int
    <3>1. snap.u.tx \in Transactions /\ snap.tx \in Transactions
      BY <1>1 DEF EngineInv, Arguments
    <3>2. QED
      BY <3>1, NumbersAreInts
  <2>6. snap.u.tx = update.tx /\ snap.tx = epochTx
    BY <2>2, <2>3, <2>4, <2>5 DEF CopyIsPast
  <2>7. QED
    BY <2>2, <2>3, <2>6 DEF CopyIsPast
<1>2. EngineInv /\ BuildInv /\ [Next]_vars =>
        [media = "publish" /\ media' = "attach"
           => roster = update.tx /\ (installedTx = epochTx \/ pending[epochTx] = epochKey)]_vars
  BY <1>1
<1>3. QED
  BY <1>2, EngineInvariant, BuildInvariant, PTL DEF SafetySpec, PublishedUpToDate

\* Of a registered call the registry has no roster the call has not, unless
\* the goroutine that brought it is about to record it.
LevelInv ==
    reg => \/ roster <= update.tx
           \/ \E t \in Threads : pc[t] = "installRoster" /\ roster <= job[t].u.tx

LEMMA LevelStep ==
    EngineInv /\ EngineInv' /\ RegistryType /\ BuildInv /\ BuildInv' /\ LevelInv /\ [Next]_vars
        => LevelInv'
<1> SUFFICES ASSUME EngineInv, EngineInv', RegistryType, BuildInv, BuildInv', LevelInv, [Next]_vars, reg'
             PROVE  \/ roster' <= update'.tx
                    \/ \E t \in Threads : pc'[t] = "installRoster" /\ roster' <= job'[t].u.tx
  BY DEF LevelInv
<1> USE DEF At, Goto, Forget, Return, registry, engineCall, threads, mediaVars
<1>0. /\ pc \in [Threads -> Labels] /\ job \in [Threads -> Jobs] /\ Net \in Threads
      /\ roster \in Int /\ update.tx \in Int /\ update'.tx \in Int
      /\ update'.tx >= update.tx
  <2>1. update \in Update /\ update' \in Update
    BY DEF EngineInv, EngineTypeOK
  <2>2. update.tx \in Numbers /\ update'.tx \in Numbers
    BY <2>1, Shapes
  <2>3. update'.tx >= update.tx
    BY SignalingStep
  <2>4. QED
    BY <2>2, <2>3, NumbersAreInts DEF EngineInv, EngineTypeOK, Threads, RegistryType
<1>1. reg
  BY NeverRegisteredAgain
<1>2. ASSUME roster' = roster,
             \A t \in Threads : pc[t] = "installRoster" =>
                pc'[t] = "installRoster" /\ job'[t].u = job[t].u
      PROVE  \/ roster' <= update'.tx
             \/ \E t \in Threads : pc'[t] = "installRoster" /\ roster' <= job'[t].u.tx
  <2>1. CASE roster <= update.tx
    BY <1>0, <1>2, <2>1
  <2>2. CASE ~(roster <= update.tx)
    BY <1>1, <1>2, <2>2 DEF LevelInv
  <2>3. QED
    BY <2>1, <2>2
<1>3. ASSUME NEW t \in Threads, ApplyRoster(t)
      PROVE  \/ roster' <= update'.tx
             \/ \E s \in Threads : pc'[s] = "installRoster" /\ roster' <= job'[s].u.tx
  <2>1. CASE Commits(job[t].u) /\ pc'[t] = "installRoster" /\ UNCHANGED job
    <3>1. roster' = job[t].u.tx /\ job[t].u.tx \in Int
      BY <1>3, <2>1, NumbersAreInts DEF Commits, Registry!CommitRoster, ApplyRoster, EngineInv, Arguments
    <3>2. QED
      BY <2>1, <3>1
  <2>2. CASE Ignores(job[t].u)
    <3>1. roster' = roster
      BY <2>2 DEF Ignores, Registry!IgnoreRoster, Registry!vars
    <3>2. QED
      BY <1>0, <1>2, <1>3, <3>1 DEF ApplyRoster
  <2>3. QED
    BY <1>0, <1>3, <2>1, <2>2 DEF ApplyRoster, RosterRefused
<1>4. ASSUME NEW t \in Threads, InstallRoster(t)
      PROVE  \/ roster' <= update'.tx
             \/ \E s \in Threads : pc'[s] = "installRoster" /\ roster' <= job'[s].u.tx
  <2>1. update' = job[t].u /\ roster' = roster /\ pc' = [pc EXCEPT ![t] = "start"]
        /\ job' = [job EXCEPT ![t] = NoJob]
    BY <1>4 DEF InstallRoster
  <2>2. CASE roster <= update.tx
    BY <1>0, <2>1, <2>2
  <2>3. ASSUME NEW s \in Threads, pc[s] = "installRoster", roster <= job[s].u.tx
        PROVE  \/ roster' <= update'.tx
               \/ pc'[s] = "installRoster" /\ roster' <= job'[s].u.tx
    BY <1>0, <2>1, <2>3
  <2>4. QED
    BY <1>1, <2>2, <2>3 DEF LevelInv
<1>5. ASSUME NEW t \in Threads, InstallRosterLate(t)
      PROVE  \/ roster' <= update'.tx
             \/ \E s \in Threads : pc'[s] = "installRoster" /\ roster' <= job'[s].u.tx
  <2>1. update' = update /\ roster' = roster /\ pc' = [pc EXCEPT ![t] = "idle"]
        /\ job' = [job EXCEPT ![t] = NoJob] /\ job[t].u.tx <= update.tx
    BY <1>1, <1>5 DEF InstallRosterLate, Overtaken
  <2>2. CASE roster <= update.tx
    BY <2>1, <2>2
  <2>3. ASSUME NEW s \in Threads, pc[s] = "installRoster", roster <= job[s].u.tx
        PROVE  \/ roster' <= update'.tx
               \/ pc'[s] = "installRoster" /\ roster' <= job'[s].u.tx
    <3>1. job[s].u.tx \in Int
      BY <2>3, NumbersAreInts DEF EngineInv, Arguments
    <3>2. QED
      BY <1>0, <2>1, <2>3, <3>1
  <2>4. QED
    BY <1>1, <2>2, <2>3 DEF LevelInv
<1>6. CASE MediaApplyRoster
  <2>1. CASE media' = "applyEpoch"
    <3>1. roster' <= update'.tx
      BY <2>1 DEF BuildInv, CopyIsPast
    <3>2. QED
      BY <3>1
  <2>2. CASE media' # "applyEpoch"
    <3>1. roster' = roster /\ UNCHANGED threads
      BY <1>6, <2>2 DEF MediaApplyRoster, MediaGoto, RosterRefused, Ignores, Registry!IgnoreRoster,
         Registry!vars
    <3>2. QED
      BY <1>2, <3>1
  <2>3. QED
    BY <2>1, <2>2
<1>7. CASE Begin
  <2>1. roster' = roster
    BY <1>7, BeginFrame
  <2>2. \A t \in Threads : pc[t] = "installRoster" =>
                pc'[t] = "installRoster" /\ job'[t].u = job[t].u
    <3>1. ASSUME NEW t \in Threads, NEW u, HearRoster(t, u)
          PROVE  \A s \in Threads : pc[s] = "installRoster" =>
                    pc'[s] = "installRoster" /\ job'[s].u = job[s].u
      BY <1>0, <3>1 DEF HearRoster
    <3>2. ASSUME NEW tx, NEW k, HearEpoch(tx, k)
          PROVE  \A s \in Threads : pc[s] = "installRoster" =>
                    pc'[s] = "installRoster" /\ job'[s].u = job[s].u
      BY <1>0, <3>2 DEF HearEpoch
    <3>3. CASE HearRelay \/ HearAccept
      BY <1>0, <3>3 DEF HearRelay, HearAccept
    <3>4. ASSUME NEW t \in Threads, End(t)
          PROVE  \A s \in Threads : pc[s] = "installRoster" =>
                    pc'[s] = "installRoster" /\ job'[s].u = job[s].u
      BY <1>0, <3>4 DEF End
    <3>5. QED
      BY <1>7, <3>1, <3>2, <3>3, <3>4 DEF Begin
  <2>3. QED
    BY <1>2, <2>1, <2>2
<1>8. ASSUME NEW t \in Threads, ClearAgain(t) \/ Start(t) \/ Finish(t) \/ FinishClear(t)
      PROVE  \/ roster' <= update'.tx
             \/ \E s \in Threads : pc'[s] = "installRoster" /\ roster' <= job'[s].u.tx
  <2>1. roster' = roster
    BY <1>8 DEF ClearAgain, Start, Finish, FinishClear, Registry!Clear
  <2>2. ASSUME NEW s \in Threads, pc[s] = "installRoster"
        PROVE  pc'[s] = "installRoster" /\ job'[s].u = job[s].u
    <3>1. s # t /\ \E l : pc' = [pc EXCEPT ![t] = l]
      BY <1>8, <2>2 DEF ClearAgain, Start, Finish, FinishClear
    <3>2. \E j : job' = [job EXCEPT ![t] = j]
      BY <1>8 DEF ClearAgain, Start, Finish, FinishClear
    <3>3. QED
      BY <1>0, <2>2, <3>1, <3>2
  <2>3. QED
    BY <1>2, <2>1, <2>2
<1>9. CASE ContinueNet
  <2>1. roster' = roster
    BY <1>9 DEF ContinueNet, ApplyEpoch, EpochApplied, Registry!BufferEpoch, Registry!InstallEpoch,
       Registry!IgnoreEpoch, InstallEpoch, InstallEpochLate, RekeyPeer, RekeyTo,
       Registry!ReplaceFallback, Registry!RenameFallback
  <2>2. ASSUME NEW s \in Threads, pc[s] = "installRoster"
        PROVE  pc'[s] = "installRoster" /\ job'[s].u = job[s].u
    BY <1>0, <1>9, <2>2 DEF ContinueNet, ApplyEpoch, InstallEpoch, InstallEpochLate, RekeyPeer
  <2>3. QED
    BY <1>2, <2>1, <2>2
<1>10. CASE (MediaStep \/ MediaEnds) /\ ~MediaApplyRoster
  <2>1. roster' = roster
    BY <1>10 DEF MediaStep, MediaConnect, MediaSnapshot, MediaRead, MediaApplyEpoch, MediaPublish,
       MediaPublishDirect, MediaRekey, RekeyTo, MediaAttached, MediaAttach, MediaDrop, MediaEnds,
       EpochApplied, Registry!BufferEpoch, Registry!InstallEpoch, Registry!IgnoreEpoch,
       Registry!ReplaceFallback, Registry!RenameFallback, Registry!AttachSender, Registry!Clear
  <2>2. UNCHANGED threads
    BY <1>10 DEF MediaStep, MediaConnect, MediaSnapshot, MediaRead, MediaApplyEpoch, MediaPublish,
       MediaPublishDirect, MediaRekey, MediaAttached, MediaAttach, MediaDrop, MediaEnds
  <2>3. QED
    BY <1>2, <2>1, <2>2
<1>11. CASE UNCHANGED vars
  BY <1>2, <1>11 DEF vars
<1>12. ASSUME NEW t \in Threads, Continue(t)
       PROVE  \/ roster' <= update'.tx
              \/ \E s \in Threads : pc'[s] = "installRoster" /\ roster' <= job'[s].u.tx
  BY <1>3, <1>4, <1>5, <1>8, <1>12 DEF Continue
<1>13. QED
  BY <1>6, <1>7, <1>9, <1>10, <1>11, <1>12 DEF Next

\* Once every operation is over the registry of a call that goes on has no
\* roster the call has not: signaling leads, media follows.
THEOREM RegistryIsNotAhead == SafetySpec => []RegistryNotAhead
<1>1. Init => LevelInv
  BY NumbersAreInts DEF Init, LevelInv, Registry!Init, Registry!NoTx, NoUpdate, NoTx
<1>2. LiveInv /\ LevelInv => RegistryNotAhead
  BY DEF LiveInv, LevelInv, RegistryNotAhead, Settled, At
<1>3. QED
  BY <1>1, <1>2, LevelStep, LiveInit, LiveStep, EngineInvariant, RegistryTyped, BuildInvariant, PTL
     DEF SafetySpec
=============================================================================
