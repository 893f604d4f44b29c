--------------------------- MODULE GroupReceivers ---------------------------
(***************************************************************************)
(* The participantReceiveRegistry of group_media_receive.go: the receivers *)
(* of the remote devices of one call and the senders of this device, and   *)
(* the key material they hold.  Rosters and raw key epochs arrive in any   *)
(* order; every method works under the registry's mutex and is one action. *)
(*                                                                         *)
(* A receiver is named by its device.  What it needs of the roster (PIDs,  *)
(* SSRCs, the three pipelines and their rollover counters) is left out,    *)
(* but for the one thing that decides what a method does: whether the      *)
(* roster is well formed.                                                  *)
(***************************************************************************)
EXTENDS Integers

CONSTANTS Transactions,  \* transaction numbers of rosters and epochs
          Devices,       \* the remote devices that may carry a PID
          Senders,       \* the RTP and SRTCP senders of this device
          Keys,          \* raw keys of epochs
          CallKey,       \* the key the call was set up with
          NoKey          \* no key, or one that was erased

ASSUME ReceiversAssumption ==
    /\ Transactions \subseteq Nat
    /\ CallKey \notin Keys /\ NoKey \notin Keys /\ CallKey # NoKey

NoTx == -1

VARIABLES
    callKey,      \* the registry's copy of the call key, or NoKey once cleared
    roster,       \* transactionID, or NoTx without hasGroupUpdate
    active,       \* byDeviceID: the devices with a receiver
    fallback,     \* fallbackID
    recvKey,      \* what the last receiver of each device holds
    senders,      \* sendPipes and srtcpSenders
    sendKey,      \* what each sender holds
    pending,      \* pendingEpochs: per transaction a key, or NoKey
    installedTx,  \* installedEpoch, or NoTx without hasEpoch
    installedKey,
    offered       \* history: the first key offered for each transaction

keyVars == <<recvKey, sendKey, pending, installedTx, installedKey>>
vars == <<callKey, roster, active, fallback, senders, keyVars, offered>>

Material == Keys \cup {CallKey, NoKey}
Numbers == Transactions \cup {NoTx}

TypeOK ==
    /\ callKey \in {CallKey, NoKey}
    /\ roster \in Numbers
    /\ active \subseteq Devices
    /\ fallback \in Devices
    /\ recvKey \in [Devices -> Material]
    /\ senders \subseteq Senders
    /\ sendKey \in [Senders -> Material]
    /\ pending \in [Transactions -> Keys \cup {NoKey}]
    /\ installedTx \in Numbers
    /\ installedKey \in Keys \cup {NoKey}
    /\ offered \in [Transactions -> Keys \cup {NoKey}]

\* newParticipantReceiveRegistry: one receiver, of the peer the call was made
\* with, on the call key.
Init ==
    /\ callKey = CallKey
    /\ roster = NoTx
    /\ fallback \in Devices
    /\ active = {fallback}
    /\ recvKey = [d \in Devices |-> IF d = fallback THEN CallKey ELSE NoKey]
    /\ senders = {}
    /\ sendKey = [s \in Senders |-> CallKey]
    /\ pending = [t \in Transactions |-> NoKey]
    /\ installedTx = NoTx
    /\ installedKey = NoKey
    /\ offered = [t \in Transactions |-> NoKey]

-----------------------------------------------------------------------------
(* Rosters: ApplyGroupUpdate.  A roster is the set of its connected remote *)
(* devices with a PID, and wellFormed says that no device, PID or SSRC     *)
(* occurs twice in it.                                                     *)

\* The buffered epochs a roster makes eligible, and the newest of them.
Due(tx) == {t \in Transactions : t <= tx /\ pending[t] # NoKey}

\* Variant of NewestDue: the one the iteration over the map ends with.
AnyDue(n, tx) == IF Due(tx) = {} THEN n = NoTx ELSE n \in Due(tx)

NewestDue(n, tx) ==
    /\ IF Due(tx) = {} THEN n = NoTx ELSE n \in Due(tx)
    /\ \A t \in Due(tx) : t <= n

\* The receivers after the roster: without a remote PID only the fallback
\* stays, if it still was there.
Remaining(devs) == IF devs # {} THEN devs ELSE {fallback} \cap active

\* What makes prepareGroupUpdateLocked fail: a malformed roster, a receiver
\* that cannot be made without the call key, two keys for one transaction.
Refused(devs, wellFormed, n) ==
    \/ ~wellFormed
    \/ callKey = NoKey /\ ~(devs \subseteq active)
    \/ n # NoTx /\ n = installedTx /\ pending[n] # installedKey

\* Keys of the receivers once the roster is committed: those that stay or
\* come get the adopted key, those that leave are erased.
RosterKeys(now, adopted) ==
    [d \in Devices |->
        IF d \in now THEN IF adopted # NoKey THEN adopted
                          ELSE IF d \in active THEN recvKey[d] ELSE CallKey
        ELSE IF d \in active THEN NoKey ELSE recvKey[d]]

\* Variant of Adopted: without an epoch the call key is recorded as one.
AdoptedCallKey(n) ==
    IF n > installedTx THEN pending[n]
    ELSE IF installedTx = NoTx THEN CallKey ELSE installedKey

\* The key a roster installs: the newest due one, if it is newer, or again
\* the installed one; NoKey if there is neither.
Adopted(n) == IF n > installedTx THEN pending[n] ELSE installedKey

\* commitGroupUpdateLocked: devices, keys, buffer and epoch change together.
CommitRoster(tx, devs, wellFormed) ==
    /\ tx > roster
    /\ \E n \in Numbers :
          /\ NewestDue(n, tx)
          /\ ~Refused(devs, wellFormed, n)
          /\ installedTx' = IF n > installedTx THEN n ELSE installedTx
          /\ installedKey' = Adopted(n)
          /\ recvKey' = RosterKeys(Remaining(devs), Adopted(n))
          /\ sendKey' = [s \in Senders |->
                IF s \in senders /\ Adopted(n) # NoKey THEN Adopted(n) ELSE sendKey[s]]
    /\ roster' = tx
    /\ active' = Remaining(devs)
    /\ pending' = [t \in Transactions |-> IF t <= tx THEN NoKey ELSE pending[t]]
    /\ UNCHANGED <<callKey, fallback, senders, offered>>

\* A roster that is not newer is ignored; one that cannot be prepared is
\* refused and changes nothing.
IgnoreRoster(tx, devs, wellFormed) ==
    /\ tx <= roster \/ \E n \in Numbers : NewestDue(n, tx) /\ Refused(devs, wellFormed, n)
    /\ UNCHANGED vars

-----------------------------------------------------------------------------
(* Epochs: ApplyGroupRawEpoch.                                             *)

\* The history: the first key offered counts.
Offer(tx, k) == offered' = [offered EXCEPT ![tx] = IF @ = NoKey THEN k ELSE @]

\* The roster has not reached the transaction: the first key for it waits.
BufferEpoch(tx, k) ==
    /\ tx > roster
    /\ pending[tx] = NoKey
    /\ pending' = [pending EXCEPT ![tx] = k]
    /\ Offer(tx, k)
    /\ UNCHANGED <<callKey, roster, active, fallback, recvKey, senders, sendKey,
                   installedTx, installedKey>>

\* Variant of InstallEpoch: an older key than the installed one is installed.
InstallAnyEpoch(tx, k) ==
    /\ tx <= roster
    /\ installedTx' = tx
    /\ installedKey' = k
    /\ recvKey' = [d \in Devices |-> IF d \in active THEN k ELSE recvKey[d]]
    /\ sendKey' = [s \in Senders |-> IF s \in senders THEN k ELSE sendKey[s]]
    /\ Offer(tx, k)
    /\ UNCHANGED <<callKey, roster, active, fallback, senders, pending>>

\* A newer epoch that the roster has reached replaces the installed one in
\* every receiver and sender.
InstallEpoch(tx, k) ==
    /\ tx <= roster
    /\ tx > installedTx
    /\ installedTx' = tx
    /\ installedKey' = k
    /\ recvKey' = [d \in Devices |-> IF d \in active THEN k ELSE recvKey[d]]
    /\ sendKey' = [s \in Senders |-> IF s \in senders THEN k ELSE sendKey[s]]
    /\ Offer(tx, k)
    /\ UNCHANGED <<callKey, roster, active, fallback, senders, pending>>

\* Anything else is a duplicate, a conflict (an error) or too old.
IgnoreEpoch(tx, k) ==
    /\ IF tx > roster THEN pending[tx] # NoKey ELSE tx <= installedTx
    /\ Offer(tx, k)
    /\ UNCHANGED <<callKey, roster, active, fallback, senders, keyVars>>

-----------------------------------------------------------------------------
\* Variant of AttachSender: the sender keeps the key it was made with.
AttachSenderAsIs(s) ==
    /\ s \notin senders /\ sendKey[s] = CallKey
    /\ senders' = senders \cup {s}
    /\ UNCHANGED <<callKey, roster, active, fallback, keyVars, offered>>

\* attachSendPipeline, attachSRTCPSender: a late sender, made with the call
\* key, inherits the installed epoch.
AttachSender(s) ==
    /\ s \notin senders /\ sendKey[s] = CallKey
    /\ senders' = senders \cup {s}
    /\ sendKey' = IF installedTx = NoTx THEN sendKey ELSE [sendKey EXCEPT ![s] = installedKey]
    /\ UNCHANGED <<callKey, roster, active, fallback, recvKey, pending, installedTx,
                   installedKey, offered>>

\* RekeyFallback before any roster: a receiver for the answering device takes
\* the place of all others, which go without being erased.
ReplaceFallback(d) ==
    /\ roster = NoTx /\ callKey # NoKey
    /\ active' = {d}
    /\ fallback' = d
    /\ recvKey' = [recvKey EXCEPT ![d] = CallKey]
    /\ UNCHANGED <<callKey, roster, senders, sendKey, pending, installedTx, installedKey, offered>>

\* RekeyFallback under a roster only renames the fallback, if it is a member.
RenameFallback(d) ==
    /\ roster # NoTx /\ d \in active
    /\ fallback' = d
    /\ UNCHANGED <<callKey, roster, active, senders, keyVars, offered>>

\* clear: every key is erased and everything but the transaction is dropped.
Clear ==
    /\ callKey' = NoKey
    /\ active' = {}
    /\ recvKey' = [d \in Devices |-> IF d \in active THEN NoKey ELSE recvKey[d]]
    /\ senders' = {}
    /\ sendKey' = [s \in Senders |-> IF s \in senders THEN NoKey ELSE sendKey[s]]
    /\ pending' = [t \in Transactions |-> NoKey]
    /\ installedTx' = NoTx
    /\ installedKey' = NoKey
    /\ UNCHANGED <<roster, fallback, offered>>

Operation ==
    \/ \E tx \in Transactions :
          \/ \E devs \in SUBSET Devices, wellFormed \in BOOLEAN :
                CommitRoster(tx, devs, wellFormed) \/ IgnoreRoster(tx, devs, wellFormed)
          \/ \E k \in Keys : BufferEpoch(tx, k) \/ InstallEpoch(tx, k) \/ IgnoreEpoch(tx, k)
    \/ \E s \in Senders : AttachSender(s)
    \/ \E d \in Devices : ReplaceFallback(d) \/ RenameFallback(d)

Next == Operation \/ Clear

Spec == Init /\ [][Next]_vars

-----------------------------------------------------------------------------
Cleared == callKey = NoKey

\* The key media flows under: that of the installed epoch, or the call key.
KeyInUse == IF installedTx = NoTx THEN CallKey ELSE installedKey

\* "The live engine installs one accepted epoch into all attached RTP and
\* SRTCP senders and the participant receive registry as one operation": in
\* whatever order rosters, epochs, late senders and the answering device
\* come, every receiver and every sender holds the key in use.
KeyAgreement ==
    ~Cleared => /\ \A d \in active : recvKey[d] = KeyInUse
                /\ \A s \in senders : sendKey[s] = KeyInUse

\* "Rekey-before-roster and roster-before-rekey must converge": the installed
\* epoch is the newest one the roster has reached of all that were ever
\* offered, with the key that was offered first.
Converges ==
    ~Cleared => LET eligible == {t \in Transactions : t <= roster /\ offered[t] # NoKey}
                IN  /\ IF installedTx = NoTx THEN eligible = {}
                       ELSE installedTx \in eligible /\ installedKey = offered[installedTx]
                    /\ \A t \in eligible : t <= installedTx

\* A departed participant cannot follow the call: no receiver outside the
\* roster still holds the key of an epoch.
DepartedHoldNoEpoch == \A d \in Devices \ active : recvKey[d] \notin Keys

\* The transaction of the installed epoch is the one in use.
Epochs == INSTANCE GroupEpochs WITH inUse <- installedTx

\* Until it is cleared the registry implements GroupEpochs: it agrees with
\* every other member's on the key, whatever order the rosters and the keys
\* reached them in.
AgreesOnEpochs == Epochs!Init /\ [][Cleared' \/ Epochs!Next]_(Epochs!vars)
=============================================================================
