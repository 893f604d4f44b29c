----------------------- MODULE GroupReceivers_proofs -----------------------
(***************************************************************************)
(* Theorems about GroupReceivers, for any sets of transactions, devices,   *)
(* senders and keys: its type invariant, the agreement of everybody who    *)
(* holds a key, convergence on the newest eligible epoch, the erasure of   *)
(* departed receivers, and the refinement of GroupEpochs.                  *)
(***************************************************************************)
EXTENDS GroupReceivers, TLAPS

USE ReceiversAssumption DEF NoTx

-----------------------------------------------------------------------------
(* Types.                                                                  *)

\* The key a roster adopts is a raw key, or none.
LEMMA AdoptedType ==
    ASSUME TypeOK, NEW n \in Numbers, NEW tx \in Transactions, NewestDue(n, tx)
    PROVE  Adopted(n) \in Keys \cup {NoKey}
<1>1. CASE n > installedTx
  <2>1. n \in Transactions
    BY <1>1 DEF Numbers, TypeOK
  <2>2. QED
    BY <1>1, <2>1 DEF Adopted, TypeOK
<1>2. CASE ~(n > installedTx)
  BY <1>2 DEF Adopted, TypeOK
<1>3. QED
  BY <1>1, <1>2

\* The keys of the receivers after a roster are key material.
LEMMA RosterKeysType ==
    ASSUME TypeOK, NEW now \in SUBSET Devices, NEW k \in Keys \cup {NoKey}
    PROVE  RosterKeys(now, k) \in [Devices -> Material]
  BY DEF RosterKeys, TypeOK, Material

\* A roster keeps the types.
LEMMA CommitType ==
    ASSUME TypeOK, NEW tx \in Transactions, NEW devs \in SUBSET Devices, NEW w \in BOOLEAN,
           CommitRoster(tx, devs, w)
    PROVE  TypeOK'
<1>1. PICK n \in Numbers :
        /\ NewestDue(n, tx)
        /\ installedTx' = IF n > installedTx THEN n ELSE installedTx
        /\ installedKey' = Adopted(n)
        /\ recvKey' = RosterKeys(Remaining(devs), Adopted(n))
        /\ sendKey' = [s \in Senders |->
              IF s \in senders /\ Adopted(n) # NoKey THEN Adopted(n) ELSE sendKey[s]]
  BY DEF CommitRoster
<1>2. Adopted(n) \in Keys \cup {NoKey}
  BY <1>1, AdoptedType
<1>3. Remaining(devs) \in SUBSET Devices
  BY DEF Remaining, TypeOK
<1>4. recvKey' \in [Devices -> Material]
  BY <1>1, <1>2, <1>3, RosterKeysType
<1>5. sendKey' \in [Senders -> Material]
  BY <1>1, <1>2 DEF TypeOK, Material
<1>6. installedTx' \in Numbers /\ installedKey' \in Keys \cup {NoKey}
  BY <1>1, <1>2 DEF TypeOK
<1>7. pending' \in [Transactions -> Keys \cup {NoKey}]
  BY DEF CommitRoster, TypeOK
<1>8. roster' \in Numbers /\ active' \subseteq Devices
  BY <1>3 DEF CommitRoster, Numbers
<1>9. QED
  BY <1>4, <1>5, <1>6, <1>7, <1>8 DEF CommitRoster, TypeOK

\* Every step keeps the types.
LEMMA TypeStep == TypeOK /\ [Next]_vars => TypeOK'
<1> SUFFICES ASSUME TypeOK, [Next]_vars PROVE TypeOK'
  OBVIOUS
<1>1. ASSUME NEW tx \in Transactions, NEW devs \in SUBSET Devices, NEW w \in BOOLEAN,
             CommitRoster(tx, devs, w) \/ IgnoreRoster(tx, devs, w)
      PROVE TypeOK'
  <2>1. CASE CommitRoster(tx, devs, w)
    BY <2>1, CommitType
  <2>2. CASE IgnoreRoster(tx, devs, w)
    BY <2>2 DEF IgnoreRoster, vars, keyVars, TypeOK
  <2>3. QED
    BY <1>1, <2>1, <2>2
<1>2. ASSUME NEW tx \in Transactions, NEW k \in Keys,
             BufferEpoch(tx, k) \/ InstallEpoch(tx, k) \/ IgnoreEpoch(tx, k)
      PROVE TypeOK'
  <2>1. offered' \in [Transactions -> Keys \cup {NoKey}]
    BY <1>2 DEF BufferEpoch, InstallEpoch, IgnoreEpoch, Offer, TypeOK
  <2>2. QED
    BY <1>2, <2>1 DEF BufferEpoch, InstallEpoch, IgnoreEpoch, keyVars, TypeOK, Material, Numbers
<1>3. ASSUME NEW s \in Senders, AttachSender(s) PROVE TypeOK'
  BY <1>3 DEF AttachSender, TypeOK, Material
<1>4. ASSUME NEW d \in Devices, ReplaceFallback(d) \/ RenameFallback(d) PROVE TypeOK'
  BY <1>4 DEF ReplaceFallback, RenameFallback, keyVars, TypeOK, Material
<1>5. CASE Clear
  BY <1>5 DEF Clear, TypeOK, Material, Numbers
<1>6. CASE UNCHANGED vars
  BY <1>6 DEF vars, keyVars, TypeOK
<1>7. QED
  BY <1>1, <1>2, <1>3, <1>4, <1>5, <1>6 DEF Next, Operation

\* The registry starts typed.
LEMMA TypeInit == Init => TypeOK
  BY DEF Init, TypeOK, Material, Numbers

\* The fields of the registry and the keys everybody holds keep their types.
THEOREM ReceiversTypeOK == Spec => []TypeOK
  BY TypeInit, TypeStep, PTL DEF Spec

-----------------------------------------------------------------------------
(* The buffer, the installed epoch and what was offered.                   *)

\* What is buffered is exactly what was offered beyond the roster, and the
\* installed epoch is ahead of everything that was offered up to it.
EpochInv ==
    /\ installedTx = NoTx <=> installedKey = NoKey
    /\ installedTx <= roster
    /\ \A t \in Transactions : pending[t] # NoKey => t > roster /\ pending[t] = offered[t]
    /\ \A t \in Transactions : t > roster /\ offered[t] # NoKey => pending[t] # NoKey
    /\ installedTx # NoTx => installedKey = offered[installedTx]
    /\ \A t \in Transactions : t <= roster /\ offered[t] # NoKey => t <= installedTx

\* Everybody who holds a key holds the one in use.
Agreed ==
    /\ \A d \in active : recvKey[d] = KeyInUse
    /\ \A s \in senders : sendKey[s] = KeyInUse

\* The inductive invariant.
RegInv ==
    /\ TypeOK
    /\ ~Cleared => EpochInv /\ Agreed
    /\ DepartedHoldNoEpoch

\* The empty registry satisfies it.
LEMMA RegInit == Init => RegInv
<1> SUFFICES ASSUME Init PROVE RegInv
  OBVIOUS
<1>1. TypeOK
  BY TypeInit
<1>2. EpochInv
  BY DEF Init, EpochInv
<1>3. Agreed /\ DepartedHoldNoEpoch
  BY DEF Init, Agreed, DepartedHoldNoEpoch, KeyInUse
<1>4. QED
  BY <1>1, <1>2, <1>3 DEF RegInv

\* Which epoch a roster ends up with, and under which key.
LEMMA CommitEpoch ==
    ASSUME TypeOK, EpochInv, NEW tx \in Transactions, tx > roster,
           NEW n \in Numbers, NewestDue(n, tx),
           installedTx' = IF n > installedTx THEN n ELSE installedTx,
           installedKey' = Adopted(n), roster' = tx, offered' = offered,
           pending' = [t \in Transactions |-> IF t <= tx THEN NoKey ELSE pending[t]]
    PROVE  EpochInv'
<1>1. CASE n > installedTx
  <2>1. n \in Due(tx) /\ n \in Transactions
    BY <1>1 DEF NewestDue, Numbers, TypeOK
  <2>2. installedTx' = n /\ installedKey' = offered[n] /\ installedKey' # NoKey /\ n <= tx
    BY <1>1, <2>1 DEF Adopted, Due, EpochInv
  <2>3. ASSUME NEW t \in Transactions, t <= tx, offered[t] # NoKey PROVE t <= n
    <3>1. CASE t > roster
      BY <2>3, <3>1 DEF EpochInv, NewestDue, Due
    <3>2. CASE ~(t > roster)
      BY <1>1, <2>3, <3>2 DEF EpochInv, TypeOK, Numbers
    <3>3. QED
      BY <3>1, <3>2
  <2>4. \A t \in Transactions : pending'[t] # NoKey => t > roster' /\ pending'[t] = offered'[t]
    BY DEF EpochInv, TypeOK, Numbers
  <2>5. \A t \in Transactions : t > roster' /\ offered'[t] # NoKey => pending'[t] # NoKey
    BY DEF EpochInv, TypeOK, Numbers
  <2>6. QED
    BY <2>1, <2>2, <2>3, <2>4, <2>5 DEF EpochInv
<1>2. CASE ~(n > installedTx)
  <2>1. installedTx' = installedTx /\ installedKey' = installedKey
    BY <1>2 DEF Adopted
  <2>2. ASSUME NEW t \in Transactions, t <= tx, offered[t] # NoKey PROVE t <= installedTx
    <3>1. CASE t > roster
      BY <1>2, <2>2, <3>1 DEF EpochInv, NewestDue, Due, TypeOK, Numbers
    <3>2. CASE ~(t > roster)
      BY <2>2, <3>2 DEF EpochInv, TypeOK, Numbers
    <3>3. QED
      BY <3>1, <3>2
  <2>3. installedTx' <= roster'
    BY <2>1 DEF EpochInv, TypeOK, Numbers
  <2>4. \A t \in Transactions : pending'[t] # NoKey => t > roster' /\ pending'[t] = offered'[t]
    BY DEF EpochInv, TypeOK, Numbers
  <2>5. \A t \in Transactions : t > roster' /\ offered'[t] # NoKey => pending'[t] # NoKey
    BY DEF EpochInv, TypeOK, Numbers
  <2>6. QED
    BY <2>1, <2>2, <2>3, <2>4, <2>5 DEF EpochInv
<1>3. QED
  BY <1>1, <1>2

\* A roster gives the key it ends up with to everybody, or leaves the call
\* key with everybody, and erases the receivers that leave.
LEMMA CommitKeepsRegInv ==
    ASSUME RegInv, NEW tx \in Transactions, NEW devs \in SUBSET Devices, NEW w \in BOOLEAN,
           CommitRoster(tx, devs, w)
    PROVE  RegInv'
<1>1. PICK n \in Numbers :
        /\ NewestDue(n, tx)
        /\ installedTx' = IF n > installedTx THEN n ELSE installedTx
        /\ installedKey' = Adopted(n)
        /\ recvKey' = RosterKeys(Remaining(devs), Adopted(n))
        /\ sendKey' = [s \in Senders |->
              IF s \in senders /\ Adopted(n) # NoKey THEN Adopted(n) ELSE sendKey[s]]
  BY DEF CommitRoster
<1>2. TypeOK /\ TypeOK'
  BY CommitType DEF RegInv
<1>3. active' = Remaining(devs) /\ senders' = senders /\ callKey' = callKey
  BY DEF CommitRoster
<1>4. ASSUME ~Cleared PROVE EpochInv' /\ Agreed'
  <2>1. EpochInv /\ Agreed
    BY <1>4 DEF RegInv
  <2>2. EpochInv'
    BY <1>1, <1>2, <2>1, CommitEpoch DEF CommitRoster
  <2>3. KeyInUse' = IF Adopted(n) = NoKey THEN CallKey ELSE Adopted(n)
    BY <1>1, <2>2 DEF KeyInUse, EpochInv
  <2>4. ASSUME Adopted(n) = NoKey PROVE KeyInUse = CallKey
    BY <1>1, <1>2, <2>1, <2>2, <2>4 DEF KeyInUse, EpochInv, TypeOK, Numbers
  <2>5. \A d \in active' : recvKey'[d] = KeyInUse'
    BY <1>1, <1>2, <1>3, <2>1, <2>3, <2>4 DEF RosterKeys, Agreed, TypeOK
  <2>6. \A s \in senders' : sendKey'[s] = KeyInUse'
    BY <1>1, <1>2, <1>3, <2>1, <2>3, <2>4 DEF Agreed, TypeOK
  <2>7. QED
    BY <2>2, <2>5, <2>6 DEF Agreed
<1>5. DepartedHoldNoEpoch'
  BY <1>1, <1>3 DEF DepartedHoldNoEpoch, RosterKeys, RegInv
<1>6. QED
  BY <1>2, <1>3, <1>4, <1>5 DEF RegInv, Cleared

\* An epoch is buffered, installed everywhere, or of no consequence.
LEMMA EpochKeepsRegInv ==
    ASSUME RegInv, TypeOK', NEW tx \in Transactions, NEW k \in Keys,
           BufferEpoch(tx, k) \/ InstallEpoch(tx, k) \/ IgnoreEpoch(tx, k)
    PROVE  RegInv'
<1> USE DEF RegInv
<1>1. CASE BufferEpoch(tx, k)
  <2>1. ASSUME ~Cleared PROVE EpochInv'
    BY <1>1, <2>1 DEF BufferEpoch, Offer, EpochInv, TypeOK, Numbers
  <2>2. QED
    BY <1>1, <2>1 DEF BufferEpoch, Agreed, KeyInUse, Cleared, DepartedHoldNoEpoch
<1>2. CASE InstallEpoch(tx, k)
  <2>1. ASSUME ~Cleared PROVE EpochInv'
    <3>1. EpochInv /\ offered[tx] = NoKey
      BY <1>2, <2>1 DEF InstallEpoch, EpochInv, TypeOK, Numbers
    <3>2. offered' = [offered EXCEPT ![tx] = k]
      BY <1>2, <3>1 DEF InstallEpoch, Offer, TypeOK
    <3>3. installedTx' = tx /\ installedKey' = k /\ roster' = roster /\ pending' = pending
          /\ tx <= roster /\ tx > installedTx
      BY <1>2 DEF InstallEpoch
    <3>4. \A t \in Transactions : t <= roster /\ offered'[t] # NoKey => t <= tx
      BY <3>1, <3>2, <3>3 DEF EpochInv, TypeOK, Numbers
    <3>5. QED
      BY <3>1, <3>2, <3>3, <3>4 DEF EpochInv, TypeOK
  <2>2. installedTx' # NoTx /\ KeyInUse' = k
    BY <1>2 DEF InstallEpoch, KeyInUse
  <2>3. Agreed' /\ DepartedHoldNoEpoch'
    BY <1>2, <2>2 DEF InstallEpoch, Agreed, DepartedHoldNoEpoch, TypeOK
  <2>4. QED
    BY <1>2, <2>1, <2>3 DEF InstallEpoch, Cleared
<1>3. CASE IgnoreEpoch(tx, k)
  <2>1. ASSUME ~Cleared PROVE EpochInv'
    BY <1>3, <2>1 DEF IgnoreEpoch, Offer, keyVars, EpochInv, TypeOK, Numbers
  <2>2. QED
    BY <1>3, <2>1 DEF IgnoreEpoch, keyVars, Agreed, KeyInUse, Cleared, DepartedHoldNoEpoch
<1>4. QED
  BY <1>1, <1>2, <1>3

\* A late sender inherits the key in use.
LEMMA AttachKeepsRegInv ==
    ASSUME RegInv, TypeOK', NEW s \in Senders, AttachSender(s)
    PROVE  RegInv'
<1>1. ASSUME ~Cleared PROVE EpochInv'
  BY <1>1 DEF RegInv, AttachSender, EpochInv
<1>2. ASSUME ~Cleared PROVE Agreed'
  BY <1>2 DEF RegInv, AttachSender, Agreed, KeyInUse, TypeOK
<1>3. QED
  BY <1>1, <1>2 DEF RegInv, AttachSender, Cleared, DepartedHoldNoEpoch

\* The answering device: before any roster there is no epoch, so the call key
\* of its new receiver is the key in use, and those it replaces hold no more.
LEMMA FallbackKeepsRegInv ==
    ASSUME RegInv, TypeOK', NEW d \in Devices, ReplaceFallback(d) \/ RenameFallback(d)
    PROVE  RegInv'
<1>1. CASE ReplaceFallback(d)
  <2>1. EpochInv /\ Agreed /\ roster = NoTx
    BY <1>1 DEF ReplaceFallback, RegInv, Cleared
  <2>2. installedTx = NoTx /\ KeyInUse = CallKey /\ KeyInUse' = CallKey
    BY <1>1, <2>1 DEF ReplaceFallback, EpochInv, KeyInUse, RegInv, TypeOK, Numbers
  <2>3. EpochInv'
    BY <1>1, <2>1 DEF ReplaceFallback, EpochInv
  <2>4. Agreed' /\ DepartedHoldNoEpoch'
    BY <1>1, <2>1, <2>2 DEF ReplaceFallback, Agreed, DepartedHoldNoEpoch, RegInv, TypeOK
  <2>5. QED
    BY <2>3, <2>4 DEF RegInv
<1>2. CASE RenameFallback(d)
  BY <1>2 DEF RenameFallback, keyVars, RegInv, EpochInv, Agreed, KeyInUse, Cleared,
              DepartedHoldNoEpoch
<1>3. QED
  BY <1>1, <1>2

\* Every step keeps the invariant.
LEMMA RegStep == RegInv /\ [Next]_vars => RegInv'
<1> SUFFICES ASSUME RegInv, [Next]_vars PROVE RegInv'
  OBVIOUS
<1>1. TypeOK'
  BY TypeStep DEF RegInv
<1>2. ASSUME NEW tx \in Transactions, NEW devs \in SUBSET Devices, NEW w \in BOOLEAN,
             CommitRoster(tx, devs, w)
      PROVE RegInv'
  BY <1>2, CommitKeepsRegInv
<1>3. ASSUME NEW tx \in Transactions, NEW k \in Keys,
             BufferEpoch(tx, k) \/ InstallEpoch(tx, k) \/ IgnoreEpoch(tx, k)
      PROVE RegInv'
  BY <1>1, <1>3, EpochKeepsRegInv
<1>4. ASSUME NEW s \in Senders, AttachSender(s) PROVE RegInv'
  BY <1>1, <1>4, AttachKeepsRegInv
<1>5. ASSUME NEW d \in Devices, ReplaceFallback(d) \/ RenameFallback(d) PROVE RegInv'
  BY <1>1, <1>5, FallbackKeepsRegInv
<1>6. CASE Clear
  BY <1>1, <1>6 DEF Clear, RegInv, Cleared, DepartedHoldNoEpoch, TypeOK
<1>7. CASE UNCHANGED vars
  BY <1>7 DEF vars, keyVars, RegInv, TypeOK, EpochInv, Agreed, KeyInUse, Cleared,
              DepartedHoldNoEpoch
<1>8. ASSUME NEW tx \in Transactions, NEW devs \in SUBSET Devices, NEW w \in BOOLEAN,
             IgnoreRoster(tx, devs, w)
      PROVE RegInv'
  BY <1>7, <1>8 DEF IgnoreRoster
<1>9. QED
  BY <1>2, <1>3, <1>4, <1>5, <1>6, <1>7, <1>8 DEF Next, Operation

\* Every reachable registry satisfies the invariant.
LEMMA RegInvInductive == Spec => []RegInv
  BY RegInit, RegStep, PTL DEF Spec

\* Every receiver and every sender of a registry that was not cleared holds
\* the key in use, whatever the order of rosters, epochs and late senders.
THEOREM EveryoneAgreesOnTheKey == Spec => []KeyAgreement
<1>1. RegInv => KeyAgreement
  BY DEF RegInv, Agreed, KeyAgreement
<1>2. QED
  BY <1>1, RegInvInductive, PTL

\* The installed epoch is the newest of those ever offered that the roster
\* has reached: rosters and keys may be heard in any order.
THEOREM EpochsConverge == Spec => []Converges
<1>1. TypeOK /\ EpochInv => Converges
  <2> SUFFICES ASSUME TypeOK, EpochInv PROVE Converges
    OBVIOUS
  <2>1. \A t \in Transactions : t <= roster /\ offered[t] # NoKey => t <= installedTx
    BY DEF EpochInv
  <2>2. CASE installedTx = NoTx
    <3>1. {t \in Transactions : t <= roster /\ offered[t] # NoKey} = {}
      <4>1. ASSUME NEW t \in Transactions, t <= roster, offered[t] # NoKey PROVE FALSE
        <5>1. t <= -1 /\ t \in Nat
          BY <2>1, <2>2, <4>1
        <5>2. QED
          BY <5>1
      <4>2. QED
        BY <4>1
    <3>2. QED
      BY <2>2, <3>1 DEF Converges
  <2>3. CASE installedTx # NoTx
    BY <2>1, <2>3 DEF Converges, EpochInv, TypeOK, Numbers
  <2>4. QED
    BY <2>2, <2>3
<1>2. RegInv => Converges
  BY <1>1 DEF RegInv, Converges
<1>3. QED
  BY <1>2, RegInvInductive, PTL

\* A device that left the roster holds no epoch key, nor does anybody after
\* the registry was cleared.
THEOREM DepartedDevicesHoldNoEpoch == Spec => []DepartedHoldNoEpoch
<1>1. RegInv => DepartedHoldNoEpoch
  BY DEF RegInv
<1>2. QED
  BY <1>1, RegInvInductive, PTL

-----------------------------------------------------------------------------
(* The refinement of GroupEpochs.                                          *)

\* The invariant says what the abstract specification asks of the epoch in
\* use.
LEMMA NewestInUse == TypeOK /\ EpochInv => Epochs!Newest
<1> SUFFICES ASSUME TypeOK, EpochInv PROVE Epochs!Newest
  OBVIOUS
<1>1. \A t \in Epochs!Eligible : t <= installedTx
  BY DEF EpochInv, Epochs!Eligible
<1>2. installedTx = NoTx \/ installedTx \in Epochs!Eligible
  BY DEF EpochInv, Epochs!Eligible, TypeOK, Numbers
<1>3. QED
  BY <1>1, <1>2 DEF Epochs!Newest, Epochs!NoTx

\* A roster or a key is one the abstract specification hears; everything else
\* leaves what it sees unchanged.
LEMMA OperationHears ==
    ASSUME RegInv, RegInv', ~Cleared, Operation
    PROVE  Epochs!Next \/ UNCHANGED <<roster, offered, installedTx>>
<1> USE DEF Epochs!NoTx
<1>1. EpochInv /\ TypeOK /\ TypeOK' /\ Cleared' = Cleared
  BY DEF RegInv, Operation, CommitRoster, IgnoreRoster, BufferEpoch, InstallEpoch, IgnoreEpoch,
         AttachSender, ReplaceFallback, RenameFallback, Cleared, vars, keyVars
<1>2. Epochs!Newest' /\ installedTx' \in Transactions \cup {NoTx}
  <2>1. TypeOK' /\ EpochInv'
    BY <1>1 DEF RegInv
  <2>2. (TypeOK /\ EpochInv => Epochs!Newest)'
    BY NewestInUse, PTL
  <2>3. QED
    BY <2>1, <2>2 DEF TypeOK, Numbers
<1>3. ASSUME NEW tx \in Transactions, NEW devs \in SUBSET Devices, NEW w \in BOOLEAN,
             CommitRoster(tx, devs, w)
      PROVE Epochs!Next
  <2>1. Epochs!HearRoster(tx)
    BY <1>3 DEF CommitRoster, Epochs!HearRoster
  <2>2. QED
    BY <1>2, <2>1 DEF Epochs!Next
<1>4. ASSUME NEW tx \in Transactions, NEW k \in Keys,
             BufferEpoch(tx, k) \/ InstallEpoch(tx, k) \/ IgnoreEpoch(tx, k)
      PROVE Epochs!Next \/ UNCHANGED <<roster, offered, installedTx>>
  <2>1. roster' = roster /\ Offer(tx, k)
    BY <1>4 DEF BufferEpoch, InstallEpoch, IgnoreEpoch
  <2>2. CASE offered[tx] = NoKey
    <3>1. Epochs!HearKey(tx, k)
      BY <1>1, <2>1, <2>2 DEF Offer, Epochs!HearKey, TypeOK
    <3>2. QED
      BY <1>2, <3>1 DEF Epochs!Next
  <2>3. CASE offered[tx] # NoKey
    <3>1. offered' = offered
      BY <1>1, <2>1, <2>3 DEF Offer, TypeOK
    <3>2. ~InstallEpoch(tx, k)
      BY <1>1, <2>3 DEF InstallEpoch, EpochInv, TypeOK, Numbers
    <3>3. QED
      BY <1>4, <2>1, <3>1, <3>2 DEF BufferEpoch, IgnoreEpoch, keyVars
  <2>4. QED
    BY <2>2, <2>3
<1>5. ASSUME NEW s \in Senders, AttachSender(s)
      PROVE UNCHANGED <<roster, offered, installedTx>>
  BY <1>5 DEF AttachSender
<1>6. ASSUME NEW d \in Devices, ReplaceFallback(d) \/ RenameFallback(d)
      PROVE UNCHANGED <<roster, offered, installedTx>>
  BY <1>6 DEF ReplaceFallback, RenameFallback, keyVars
<1>7. ASSUME NEW tx \in Transactions, NEW devs \in SUBSET Devices, NEW w \in BOOLEAN,
             IgnoreRoster(tx, devs, w)
      PROVE UNCHANGED <<roster, offered, installedTx>>
  BY <1>7 DEF IgnoreRoster, vars, keyVars
<1>8. QED
  BY <1>3, <1>4, <1>5, <1>6, <1>7 DEF Operation

\* A registry that is not cleared keeps its copy of the call key.
LEMMA OperationNeverClears == Operation => callKey' = callKey
  BY DEF Operation, CommitRoster, IgnoreRoster, BufferEpoch, InstallEpoch, IgnoreEpoch,
         AttachSender, ReplaceFallback, RenameFallback, vars, keyVars

\* Until it is cleared the registry implements GroupEpochs: two members that
\* heard the same rosters and keys use the same epoch.
THEOREM ImplementsGroupEpochs == Spec => AgreesOnEpochs
<1>1. Init => Epochs!Init /\ RegInv
  BY RegInit, ReceiversAssumption DEF Init, Epochs!Init, Epochs!NoTx
<1>2. RegInv /\ [Next]_vars => RegInv'
  BY RegStep
<1>3. RegInv /\ RegInv' /\ [Next]_vars => [Cleared' \/ Epochs!Next]_(Epochs!vars)
  <2>1. SUFFICES ASSUME RegInv, RegInv', [Next]_vars, ~Cleared'
                 PROVE  [Epochs!Next]_(Epochs!vars)
    OBVIOUS
  <2>2. CASE Operation
    <3>1. ~Cleared
      BY <2>1, <2>2, OperationNeverClears DEF Cleared
    <3>2. QED
      BY <2>1, <2>2, <3>1, OperationHears DEF Epochs!vars
  <2>3. ~Clear
    BY <2>1 DEF Clear, Cleared
  <2>4. CASE UNCHANGED vars
    BY <2>4 DEF vars, keyVars, Epochs!vars
  <2>5. QED
    BY <2>1, <2>2, <2>3, <2>4 DEF Next
<1>4. QED
  BY <1>1, <1>2, <1>3, PTL DEF Spec, AgreesOnEpochs
=============================================================================
