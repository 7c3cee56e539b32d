--------------------------- MODULE PairingProofs ---------------------------
(***************************************************************************)
(* Proofs that the credential stores keep their promises for every set of  *)
(* agentIds and any number of pairings: PairingInv holds initially, every  *)
(* step of `pair`, `uninstall`, the service and the keyring preserves it,  *)
(* and it implies the properties of Pairing.                               *)
(***************************************************************************)
EXTENDS Pairing, TLAPS

USE PairingAssumption

\* A new machine, or a Mac of the version that used the Keychain.
LEMMA InitPairingInv == PairingInit => PairingInv
  <1> SUFFICES ASSUME PairingInit PROVE PairingInv
    OBVIOUS
  <1> USE DEF PairingInit, Secret, Cred, NoCred
  <1>1. PICK id \in Ids :
          /\ owner = [n \in 1..MaxSecret |-> IF n = 1 THEN id ELSE NoId]
          /\ \/ config = NoId /\ keyring = [i \in Ids |-> 0]
             \/ /\ platform = "darwin" /\ config = id
                /\ keyring = [i \in Ids |-> IF i = id THEN 1 ELSE 0]
    OBVIOUS
  <1>2. PairingTypeOK
    <2>1. owner \in [1..MaxSecret -> Ids \cup {NoId}]
      BY <1>1
    <2>2. keyring \in [Ids -> Secret] /\ (platform = "darwin" => \A i \in Ids : keyring[i] <= 1)
      BY <1>1
    <2>3. config \in Ids \cup {NoId}
      BY <1>1
    <2>4. locked \in BOOLEAN /\ degraded \in BOOLEAN /\ wiped \in BOOLEAN
      OBVIOUS
    <2>5. NoCred \in Cred
      OBVIOUS
    <2> QED BY <2>1, <2>2, <2>3, <2>4, <2>5 DEF PairingTypeOK
  <1>3. SecretsOwned
    BY <1>1 DEF SecretsOwned, Issued
  <1>4. SecretBeforeConfig /\ NothingKept
    BY DEF SecretBeforeConfig, NothingKept
  <1> QED BY <1>2, <1>3, <1>4 DEF PairingInv

\* Whatever an agent finds when it starts was issued to the agentId it found.
LEMMA StartedIsIssued ==
  ASSUME PairingInv, NEW who \in {"admin", "service"}
  PROVE  Started(who) \in Cred /\ Issued(Started(who))
  <1> USE DEF PairingInv, PairingTypeOK, Secret, Cred, NoCred
  <1>1. CASE Started(who) = NoCred
    BY <1>1 DEF Issued
  <1>2. CASE Started(who) # NoCred
    <2>1. /\ config \in Ids
          /\ Started(who) = [id |-> config, n |-> load_agent_secret(config, who)]
          /\ load_agent_secret(config, who) # 0
      BY <1>2 DEF Started
    <2>2. \/ dpapi.id = config /\ load_agent_secret(config, who) = dpapi.n
          \/ fallback.id = config /\ load_agent_secret(config, who) = fallback.n
          \/ load_agent_secret(config, who) = keyring[config]
      BY <2>1 DEF load_agent_secret, BelongsTo, KeyringSecret
    <2> QED BY <2>1, <2>2 DEF SecretsOwned, Issued
  <1> QED BY <1>1, <1>2

\* web/ hands out a secret that no store has yet.
LEMMA RedeemStep ==
  ASSUME PairingInv, NEW id \in Ids, Redeem(id)
  PROVE  PairingInv'
  <1> USE DEF Redeem, stores, web, ghosts, PairingInv, Secret, Cred, NoCred
  <1>1. PairingTypeOK'
    BY DEF PairingTypeOK
  <1>2. SecretsOwned'
    BY DEF PairingTypeOK, SecretsOwned, Issued
  <1>3. SecretBeforeConfig'
    BY DEF PairingTypeOK, SecretsOwned, Issued, SecretBeforeConfig, InStore
  <1>4. NothingKept'
    BY DEF PairingTypeOK, NothingKept
  <1> QED BY <1>1, <1>2, <1>3, <1>4

\* The secret goes to one store and leaves the others alone.
LEMMA SaveSecretStep ==
  ASSUME PairingInv, SaveSecret
  PROVE  PairingInv'
  <1> USE DEF SaveSecret, save_agent_secret, stores, web, ghosts, PairingInv, Secret, Cred, NoCred
  <1>1. PairingTypeOK'
    <2>1. answer \in Cred /\ answer.id \in Ids /\ answer.n \in Secret
      BY DEF PairingTypeOK, SecretsOwned, Issued
    <2>2. dpapi' \in Cred /\ fallback' \in Cred /\ keyring' \in [Ids -> Secret]
      BY <2>1 DEF PairingTypeOK
    <2>3. locked' \in BOOLEAN /\ degraded' \in BOOLEAN /\ wiped' \in BOOLEAN
      BY Zenon DEF PairingTypeOK
    <2>4. /\ platform' # "win32" => dpapi' = NoCred
          /\ platform' = "darwin" => \A id \in Ids : keyring'[id] <= 1
      BY DEF PairingTypeOK
    <2>5. answer' \in Cred /\ agent' \in Cred /\ expected' \in Cred
      BY DEF PairingTypeOK
    <2> HIDE DEF save_agent_secret, Cred, NoCred, Secret
    <2> QED BY <2>2, <2>3, <2>4, <2>5 DEF PairingTypeOK
  <1>2. SecretsOwned'
    BY DEF PairingTypeOK, SecretsOwned, Issued
  <1>3. SecretBeforeConfig'
    BY DEF PairingTypeOK, SecretsOwned, Issued, SecretBeforeConfig, InStore
  <1>4. NothingKept'
    BY DEF PairingTypeOK, NothingKept
  <1> QED BY <1>1, <1>2, <1>3, <1>4

\* The agentId follows its secret.
LEMMA SaveConfigStep ==
  ASSUME PairingInv, save_config
  PROVE  PairingInv'
  <1> USE DEF save_config, stores, web, ghosts, PairingInv, Secret, Cred, NoCred
  <1>1. PairingTypeOK'
    BY DEF PairingTypeOK
  <1>2. SecretsOwned'
    BY DEF PairingTypeOK, SecretsOwned, Issued
  <1>3. SecretBeforeConfig'
    BY DEF PairingTypeOK, SecretsOwned, Issued, SecretBeforeConfig, InStore
  <1>4. NothingKept'
    BY DEF PairingTypeOK, NothingKept
  <1> QED BY <1>1, <1>2, <1>3, <1>4

\* A restarted service reads what is stored for its agentId.
LEMMA RestartServiceStep ==
  ASSUME PairingInv, RestartService
  PROVE  PairingInv'
  <1> USE DEF RestartService, stores, web, ghosts, PairingInv, Secret, Cred, NoCred
  <1>0. Started("service") \in Cred /\ Issued(Started("service"))
    BY StartedIsIssued
  <1>1. PairingTypeOK'
    BY <1>0 DEF PairingTypeOK
  <1>2. SecretsOwned'
    BY <1>0 DEF PairingTypeOK, SecretsOwned, Issued
  <1>3. SecretBeforeConfig'
    BY DEF PairingTypeOK, SecretsOwned, Issued, SecretBeforeConfig, InStore
  <1>4. NothingKept'
    BY DEF PairingTypeOK, NothingKept
  <1> QED BY <1>1, <1>2, <1>3, <1>4

\* A pairing that dies leaves old content or none.
LEMMA PairDiesStep ==
  ASSUME PairingInv, PairDies
  PROVE  PairingInv'
  <1> USE DEF PairDies, stores, web, ghosts, PairingInv, Secret, Cred, NoCred
  <1>1. PairingTypeOK'
    BY DEF PairingTypeOK
  <1>2. SecretsOwned'
    BY DEF PairingTypeOK, SecretsOwned, Issued
  <1>3. SecretBeforeConfig'
    BY DEF PairingTypeOK, SecretsOwned, Issued, SecretBeforeConfig, InStore
  <1>4. NothingKept'
    BY DEF PairingTypeOK, NothingKept
  <1> QED BY <1>1, <1>2, <1>3, <1>4

\* A starting agent reads what is stored for its agentId.
LEMMA StartStep ==
  ASSUME PairingInv, NEW who \in {"admin", "service"}, Start(who)
  PROVE  PairingInv'
  <1> USE DEF Start, stores, web, ghosts, PairingInv, Secret, Cred, NoCred
  <1>0. Started(who) \in Cred /\ Issued(Started(who))
    BY StartedIsIssued
  <1>1. PairingTypeOK'
    BY <1>0 DEF PairingTypeOK
  <1>2. SecretsOwned'
    BY <1>0 DEF PairingTypeOK, SecretsOwned, Issued
  <1>3. SecretBeforeConfig'
    BY DEF PairingTypeOK, SecretsOwned, Issued, SecretBeforeConfig, InStore
  <1>4. NothingKept'
    BY DEF PairingTypeOK, NothingKept
  <1> QED BY <1>1, <1>2, <1>3, <1>4

\* Stopping forgets the credential in use.
LEMMA StopServiceStep ==
  ASSUME PairingInv, StopService
  PROVE  PairingInv'
  <1> USE DEF StopService, stores, web, ghosts, PairingInv, Secret, Cred, NoCred
  <1>1. PairingTypeOK'
    BY DEF PairingTypeOK
  <1>2. SecretsOwned'
    BY DEF PairingTypeOK, SecretsOwned, Issued
  <1>3. SecretBeforeConfig'
    BY DEF PairingTypeOK, SecretsOwned, Issued, SecretBeforeConfig, InStore
  <1>4. NothingKept'
    BY DEF PairingTypeOK, NothingKept
  <1> QED BY <1>1, <1>2, <1>3, <1>4

\* Uninstall empties stores.
LEMMA UninstallStep ==
  ASSUME PairingInv, cmd_uninstall
  PROVE  PairingInv'
  <1> USE DEF cmd_uninstall, stores, web, ghosts, PairingInv, Secret, Cred, NoCred
  <1>1. CASE config = NoId
    <2>1. PairingTypeOK' /\ SecretsOwned'
      BY <1>1 DEF PairingTypeOK, SecretsOwned, Issued
    <2>2. SecretBeforeConfig' /\ NothingKept'
      BY <1>1 DEF PairingTypeOK, SecretBeforeConfig, InStore, NothingKept
    <2> QED BY <2>1, <2>2
  <1>2. CASE config # NoId
    <2>1. PICK kept \in SUBSET {"dpapi", "fallback"} :
            /\ delete_agent_secret(config, kept)
            /\ expected' = NoCred /\ wiped' = (kept = {} /\ ~locked)
            /\ UNCHANGED degraded
      BY <1>2
    <2> USE DEF delete_agent_secret
    <2>2. /\ dpapi' \in {dpapi, NoCred} /\ fallback' \in {fallback, NoCred}
          /\ keyring' \in [Ids -> Secret]
          /\ \A id \in Ids : keyring'[id] \in {keyring[id], 0}
      BY <1>2, <2>1 DEF PairingTypeOK
    <2>3. wiped' \in BOOLEAN
      BY <2>1, Zenon
    <2>4. PairingTypeOK'
      BY <2>1, <2>2, <2>3 DEF PairingTypeOK
    <2>5. SecretsOwned'
      BY <2>1, <2>2 DEF PairingTypeOK, SecretsOwned, Issued
    <2>6. SecretBeforeConfig'
      BY <2>1, <2>2 DEF PairingTypeOK, SecretBeforeConfig, InStore
    <2>7. NothingKept'
      BY <1>2, <2>1 DEF PairingTypeOK, NothingKept
    <2> QED BY <2>4, <2>5, <2>6, <2>7
  <1> QED BY <1>1, <1>2

\* The keyring is locked or unlocked.
LEMMA KeyringStep ==
  ASSUME PairingInv, KeyringChanges
  PROVE  PairingInv'
  <1> USE DEF KeyringChanges, stores, web, ghosts, PairingInv, Secret, Cred, NoCred
  <1>1. PairingTypeOK'
    BY DEF PairingTypeOK
  <1>2. SecretsOwned'
    BY DEF PairingTypeOK, SecretsOwned, Issued
  <1>3. SecretBeforeConfig'
    BY DEF PairingTypeOK, SecretsOwned, Issued, SecretBeforeConfig, InStore
  <1>4. NothingKept'
    BY DEF PairingTypeOK, NothingKept
  <1> QED BY <1>1, <1>2, <1>3, <1>4

-----------------------------------------------------------------------------
(* The theorems. *)

\* What holds between any two writes of `pair` and `uninstall` holds for ever.
THEOREM PairingInvariance == PairingSpec => []PairingInv
  <1>1. ASSUME PairingInv, [PairingNext]_pairingVars PROVE PairingInv'
    <2>1. CASE PairingNext
      BY <1>1, <2>1, RedeemStep, SaveSecretStep, SaveConfigStep, RestartServiceStep,
         PairDiesStep, StartStep, StopServiceStep, UninstallStep, KeyringStep
         DEF PairingNext
    <2>2. CASE UNCHANGED pairingVars
      BY <1>1, <2>2 DEF pairingVars, stores, web, ghosts, PairingInv, PairingTypeOK,
         SecretsOwned, Issued, SecretBeforeConfig, InStore, NothingKept
    <2> QED BY <1>1, <2>1, <2>2
  <1> QED BY <1>1, InitPairingInv, PTL DEF PairingSpec

\* No agent ever authenticates with a secret of another agentId.
THEOREM SecretIsOwn == PairingSpec => []NoForeignSecret
  <1>1. PairingInv => NoForeignSecret
    BY DEF PairingInv, SecretsOwned, Issued, NoForeignSecret
  <1> QED BY <1>1, PairingInvariance, PTL

\* After a complete pairing every account that starts the agent finds its secret.
THEOREM PairingIsEnough == PairingSpec => []PairedStarts
  <1>1. PairingInv => PairedStarts
    BY DEF PairingInv, PairingTypeOK, SecretsOwned, Issued, SecretBeforeConfig, InStore,
       PairedStarts, load_agent_secret, BelongsTo, KeyringSecret, Cred, NoCred
  <1> QED BY <1>1, PairingInvariance, PTL

\* After an uninstall that could delete everything no agent starts.
THEOREM UninstalledStaysDown == PairingSpec => []UninstallForgets
  <1>1. PairingInv => UninstallForgets
    BY DEF PairingInv, PairingTypeOK, NothingKept, UninstallForgets, Started,
       load_agent_secret, BelongsTo, KeyringSecret, Cred, NoCred
  <1> QED BY <1>1, PairingInvariance, PTL
=============================================================================
