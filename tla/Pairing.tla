------------------------------ MODULE Pairing ------------------------------
(***************************************************************************)
(* Where the agent's identity is kept: `eres-print-agent pair` redeems a   *)
(* code for an agentId and a secret (core/pairing.py), writes the secret   *)
(* to one of three stores (credentials.py), then the agentId to            *)
(* config.json (config.py), then restarts the service (cli.py).  The       *)
(* service and `run` read both once, when they start; `uninstall` deletes  *)
(* the secret.                                                             *)
(*                                                                         *)
(* Two files and a keyring are written one after the other by a command    *)
(* that can die in between, and read by a process of another account.      *)
(***************************************************************************)
EXTENDS Naturals

CONSTANTS
  Ids,          \* agentIds web/ hands out; it may hand out one again
  NoId,
  MaxSecret     \* bound: secret 1 is an old one, pairing yields 2..MaxSecret

ASSUME PairingAssumption == NoId \notin Ids /\ Ids # {} /\ MaxSecret \in Nat \ {0}

VARIABLES
  platform,    \* sys.platform
  config,      \* config.json: the agentId, NoId if it is missing or damaged
  dpapi,       \* credential.dpapi
  fallback,    \* credential.fallback
  keyring,     \* the user's keyring: the secret of each agentId, 0 for none
  locked,      \* does the keyring raise KeyringError?
  issued,      \* the newest secret
  owner,       \* the agentId web/ issued each secret to
  step,        \* where the pair command stands
  answer,      \* what web/ answered it
  agent,       \* the credential the running agent uses
  degraded,    \* did a save have to use another store than this platform's own?
  expected,    \* what the last complete pairing stored, until something undoes it
  wiped        \* has `uninstall` deleted everything since the last save?

stores == <<dpapi, fallback, keyring>>
web == <<issued, owner>>
ghosts == <<degraded, expected, wiped>>
pairingVars ==
  <<platform, config, stores, locked, web, step, answer, agent, ghosts>>

Secret == 0..MaxSecret
Cred == [id : Ids \cup {NoId}, n : Secret]
NoCred == [id |-> NoId, n |-> 0]

\* The shape of the state; only Windows has a DPAPI blob, and no agent of this
\* version writes to a Mac's Keychain.
PairingTypeOK ==
  /\ platform \in {"win32", "darwin", "linux"}
  /\ config \in Ids \cup {NoId}
  /\ dpapi \in Cred /\ fallback \in Cred
  /\ answer \in Cred /\ agent \in Cred /\ expected \in Cred
  /\ keyring \in [Ids -> Secret]
  /\ issued \in Secret
  /\ owner \in [1..MaxSecret -> Ids \cup {NoId}]
  /\ step \in {"idle", "save_secret", "save_config", "restart"}
  /\ locked \in BOOLEAN /\ degraded \in BOOLEAN /\ wiped \in BOOLEAN
  /\ platform # "win32" => dpapi = NoCred
  /\ platform = "darwin" => \A id \in Ids : keyring[id] <= 1

\* A new machine, or a Mac whose earlier agent kept its secret in the Keychain.
PairingInit ==
  /\ platform \in {"win32", "darwin", "linux"}
  /\ issued = 1
  /\ \E id \in Ids :
       /\ owner = [n \in 1..MaxSecret |-> IF n = 1 THEN id ELSE NoId]
       /\ \/ config = NoId /\ keyring = [i \in Ids |-> 0]
          \/ /\ platform = "darwin" /\ config = id
             /\ keyring = [i \in Ids |-> IF i = id THEN 1 ELSE 0]
  /\ dpapi = NoCred /\ fallback = NoCred
  /\ locked = FALSE
  /\ step = "idle" /\ answer = NoCred /\ agent = NoCred
  /\ degraded = FALSE /\ expected = NoCred /\ wiped = FALSE

-----------------------------------------------------------------------------
(* credentials.py *)

\* The Credential Locker of Windows is per user; the service is LocalSystem.
KeyringSecret(id, who) ==
  IF locked \/ (platform = "win32" /\ who = "service") THEN 0 ELSE keyring[id]

\* Is this file the credential of that agent? (variant: nobody looks.)
BelongsTo_Any(cred, id) == cred # NoCred
BelongsTo(cred, id) == cred.id = id

\* Variant: the keyring before the file.
load_agent_secret_KeyringFirst(id, who) ==
  IF platform = "win32" /\ BelongsTo(dpapi, id) THEN dpapi.n
  ELSE IF KeyringSecret(id, who) # 0 THEN KeyringSecret(id, who)
  ELSE IF BelongsTo(fallback, id) THEN fallback.n ELSE 0

\* The machine-wide store, then the file, then the keyring; 0 for None.
load_agent_secret(id, who) ==
  IF platform = "win32" /\ BelongsTo(dpapi, id) THEN dpapi.n
  ELSE IF BelongsTo(fallback, id) THEN fallback.n
  ELSE KeyringSecret(id, who)

\* Variant: macOS tries the Keychain too.
save_agent_secret_Keychain(cred) ==
  \/ /\ platform = "win32"
     /\ dpapi' = cred
     /\ UNCHANGED <<fallback, keyring, degraded>>
  \/ /\ ~locked
     /\ keyring' = [keyring EXCEPT ![cred.id] = cred.n]
     /\ UNCHANGED <<dpapi, fallback, degraded>>

\* DPAPI on Windows, a file on macOS, else the keyring; when one refuses, the next.
save_agent_secret(cred) ==
  \/ /\ platform = "win32"
     /\ dpapi' = cred
     /\ UNCHANGED <<fallback, keyring, degraded>>
  \/ /\ platform # "darwin" /\ ~locked
     /\ keyring' = [keyring EXCEPT ![cred.id] = cred.n]
     /\ degraded' = (degraded \/ platform = "win32")
     /\ UNCHANGED <<dpapi, fallback>>
  \/ /\ platform = "darwin" \/ locked
     /\ fallback' = cred
     /\ degraded' = (degraded \/ platform # "darwin")
     /\ UNCHANGED <<dpapi, keyring>>

\* Variant: the file is left behind.
delete_agent_secret_NotFile(id, kept) ==
  /\ dpapi' = IF "dpapi" \in kept THEN dpapi ELSE NoCred
  /\ keyring' = IF locked THEN keyring ELSE [keyring EXCEPT ![id] = 0]
  /\ UNCHANGED fallback

\* All three stores, the two files whoever they belong to.  An error (a locked
\* keyring, a file that cannot be unlinked) is ignored and that store is kept.
delete_agent_secret(id, kept) ==
  /\ dpapi' = IF "dpapi" \in kept THEN dpapi ELSE NoCred
  /\ keyring' = IF locked THEN keyring ELSE [keyring EXCEPT ![id] = 0]
  /\ fallback' = IF "fallback" \in kept THEN fallback ELSE NoCred

-----------------------------------------------------------------------------
(* eres-print-agent pair *)

\* web/ accepts the code.  (If it does not, nothing changes.)
Redeem(id) ==
  /\ step = "idle" /\ issued < MaxSecret
  /\ issued' = issued + 1
  /\ owner' = [owner EXCEPT ![issued + 1] = id]
  /\ answer' = [id |-> id, n |-> issued + 1]
  /\ step' = "save_secret"
  /\ UNCHANGED <<platform, config, stores, locked, agent, ghosts>>

SaveSecret ==
  /\ step = "save_secret"
  /\ save_agent_secret(answer)
  /\ step' = "save_config"
  /\ expected' = NoCred /\ wiped' = FALSE
  /\ UNCHANGED <<platform, config, locked, web, answer, agent>>

save_config ==
  /\ step = "save_config"
  /\ config' = answer.id
  /\ step' = "restart" /\ expected' = answer
  /\ UNCHANGED <<platform, stores, locked, web, answer, agent, degraded, wiped>>

\* What a starting agent uses: NoCred when it is not paired or finds no secret.
Started(who) ==
  IF config # NoId /\ load_agent_secret(config, who) # 0
  THEN [id |-> config, n |-> load_agent_secret(config, who)]
  ELSE NoCred

\* The service is installed or restarted; --no-service, or a refusal of the
\* service manager, leaves the old agent running or none.
RestartService ==
  /\ step = "restart"
  /\ agent' \in {Started("service"), agent, NoCred}
  /\ step' = "idle" /\ answer' = NoCred
  /\ UNCHANGED <<platform, config, stores, locked, web, ghosts>>

\* The command is killed or a write fails: a file may be left cut short, which
\* reads as no credential or as no configuration.
PairDies ==
  /\ step # "idle"
  /\ step' = "idle" /\ answer' = NoCred
  /\ \/ UNCHANGED <<config, dpapi, fallback, expected>>
     \/ /\ step = "save_secret" /\ expected' = NoCred
        /\ dpapi' = IF platform = "win32" THEN NoCred ELSE dpapi
        /\ fallback' = IF platform = "win32" THEN fallback ELSE NoCred
        /\ UNCHANGED config
     \/ /\ step = "save_config"
        /\ config' = NoId
        /\ UNCHANGED <<dpapi, fallback, expected>>
  /\ UNCHANGED <<platform, keyring, locked, web, agent, degraded, wiped>>

-----------------------------------------------------------------------------
(* The agent's process, uninstall and the keyring. *)

\* SvcDoRun, or cmd_run in a terminal.
Start(who) ==
  /\ agent = NoCred
  /\ agent' = Started(who)
  /\ UNCHANGED <<platform, config, stores, locked, web, step, answer, ghosts>>

StopService ==
  /\ agent' = NoCred
  /\ UNCHANGED <<platform, config, stores, locked, web, step, answer, ghosts>>

\* The service is stopped and removed; config.json stays.
cmd_uninstall ==
  /\ step = "idle"
  /\ agent' = NoCred
  /\ IF config # NoId
     THEN \E kept \in SUBSET {"dpapi", "fallback"} :
            /\ delete_agent_secret(config, kept)
            /\ expected' = NoCred /\ wiped' = (kept = {} /\ ~locked)
            /\ UNCHANGED degraded
     ELSE UNCHANGED <<stores, ghosts>>
  /\ UNCHANGED <<platform, config, locked, web, step, answer>>

KeyringChanges ==
  /\ locked' = ~locked
  /\ UNCHANGED <<platform, config, stores, web, step, answer, agent, ghosts>>

-----------------------------------------------------------------------------
PairingNext ==
  \/ \E id \in Ids : Redeem(id)
  \/ SaveSecret \/ save_config \/ RestartService \/ PairDies
  \/ \E who \in {"admin", "service"} : Start(who)
  \/ StopService \/ cmd_uninstall \/ KeyringChanges

PairingSpec == PairingInit /\ [][PairingNext]_pairingVars

-----------------------------------------------------------------------------
(* Properties. *)

\* "After this, the service can be started with no further user configuration"
\* (core/pairing.py): after a complete pairing every account that starts the agent
\* finds the secret just saved, also when the agentId is an old one whose former
\* secret is still in another store; while no platform store refused a save and
\* the keyring can be read.
PairedStarts ==
  expected # NoCred /\ ~degraded /\ ~locked =>
    \A who \in {"admin", "service"} :
      config # NoId => load_agent_secret(config, who) = expected.n

\* An agent never authenticates with the secret of another agentId, although a
\* pairing that dies between its two writes leaves the old agentId with the new
\* agent's secret.
NoForeignSecret == agent # NoCred => owner[agent.n] = agent.id

\* After an uninstall that could delete everything the agent cannot start again
\* without a new pairing.
UninstallForgets ==
  wiped => \A who \in {"admin", "service"} : Started(who) = NoCred

-----------------------------------------------------------------------------
(* The inductive invariant. *)

\* A credential that is kept anywhere is one web/ issued, to the agentId beside it.
Issued(cred) ==
  cred # NoCred => cred.n \in 1..issued /\ cred.id \in Ids /\ owner[cred.n] = cred.id

\* It is what this platform's own store holds, and no other store hides it.
InStore(cred) ==
  /\ platform = "win32" => dpapi = cred
  /\ platform = "darwin" => fallback = cred
  /\ platform = "linux" => keyring[cred.id] = cred.n /\ fallback = NoCred

\* Every stored secret belongs to the agentId it is stored for.
SecretsOwned ==
  /\ Issued(dpapi) /\ Issued(fallback) /\ Issued(answer) /\ Issued(agent) /\ Issued(expected)
  /\ \A id \in Ids : keyring[id] # 0 => Issued([id |-> id, n |-> keyring[id]])
  /\ step # "idle" => answer # NoCred

\* `pair` writes the secret first: it is still in its store when the agentId is
\* written, and as long as nothing undoes the pairing.
SecretBeforeConfig ==
  /\ platform = "linux" /\ ~degraded => fallback = NoCred
  /\ step = "save_config" /\ ~degraded => InStore(answer)
  /\ expected # NoCred /\ ~degraded => InStore(expected) /\ config \in {NoId, expected.id}

\* Nothing is left for this agentId in the stores that an uninstall emptied.
NothingKept ==
  /\ step \in {"save_config", "restart"} => ~wiped
  /\ wiped =>
       dpapi = NoCred /\ fallback = NoCred /\ (config # NoId => keyring[config] = 0)

\* What holds between any two writes of `pair` and `uninstall`: the type invariant
\* and the three facts above, which every step of every process preserves together.
PairingInv == PairingTypeOK /\ SecretsOwned /\ SecretBeforeConfig /\ NothingKept
=============================================================================
