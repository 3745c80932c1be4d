----------------------------- MODULE SecretManager -----------------------------
(***************************************************************************)
(* The secret manager of antikythera-security (src/secrets): versions of   *)
(* each secret behind one mutex, and the rotation thread, which shares     *)
(* them and keeps the age it was started with.  Each operation holds the   *)
(* mutex throughout; the thread takes it once per wake.                    *)
(*                                                                         *)
(* Abstracted: bytes (a value is the number of the call that stored it),   *)
(* the interval of the thread (it may wake at any time), free metadata.    *)
(***************************************************************************)
EXTENDS Integers, SequencesExt

CONSTANTS
  SecretIds,
  SecretConfigs,  \* [enabled, auto_rotate, versioning, max_versions, max_age]
  FirstConfig,    \* the one SecretManager::new is given
  Lifetime,       \* 90 days, after which a version is expired
  MaxStored,      \* bound: calls of store_secret and rotate_secret
  MaxReconfigured \* bound: calls of update_config

ASSUME SecretAssumption ==
  /\ FirstConfig \in SecretConfigs
  /\ \A c \in SecretConfigs :
       /\ {c.enabled, c.auto_rotate, c.versioning} \subseteq BOOLEAN
       /\ c.max_versions \in Nat /\ c.max_age \in Nat
  /\ Lifetime \in Nat /\ MaxStored \in Nat /\ MaxReconfigured \in Nat

VARIABLES
  known,         \* the secrets that have an entry
  secrets,       \* the versions in it; a limit of 0 leaves none
  secret_config,
  rotator,       \* the age the rotation thread works with; Stopped: no thread
  stored,        \* how many values were stored, the last one's number
  reconfigured,
  valid          \* history: values that nobody rotated out, deleted or let age

secretVars == <<known, secrets, secret_config, rotator, stored, reconfigured, valid>>

Stopped == -1
NoSecret == 0

Thread(c) == IF c.auto_rotate THEN c.max_age ELSE Stopped

SecretInit ==
  /\ known = {}
  /\ secrets = [i \in SecretIds |-> <<>>]
  /\ secret_config = FirstConfig /\ rotator = Thread(FirstConfig)
  /\ stored = 0 /\ reconfigured = 0
  /\ valid = [i \in SecretIds |-> {}]

NewVersion(versions, value) ==
  [value |-> value, version |-> Len(versions) + 1, active |-> TRUE, age |-> 0]

\* One version at most is removed, also when the limit was lowered by more.
Truncated(versions) ==
  IF secret_config.versioning /\ Len(versions) > secret_config.max_versions
  THEN Tail(versions) ELSE versions

StoreSecret(i) ==
  /\ secret_config.enabled /\ stored < MaxStored
  /\ known' = known \cup {i}
  /\ stored' = stored + 1
  /\ secrets' = [secrets EXCEPT ![i] = Truncated(Append(@, NewVersion(@, stored')))]
  /\ valid' = [valid EXCEPT ![i] = @ \cup {stored'}]
  /\ UNCHANGED <<secret_config, rotator, reconfigured>>

Deactivated(versions) == [j \in DOMAIN versions |-> [versions[j] EXCEPT !.active = FALSE]]

\* The manager need not be enabled for this.
RotateSecret(i) ==
  /\ i \in known /\ stored < MaxStored
  /\ stored' = stored + 1
  /\ secrets' = [secrets EXCEPT ![i] =
                   Truncated(Append(Deactivated(@), NewVersion(@, stored')))]
  /\ valid' = [valid EXCEPT ![i] = {stored'}]
  /\ UNCHANGED <<known, secret_config, rotator, reconfigured>>

DeleteSecret(i) ==
  /\ i \in known
  /\ known' = known \ {i}
  /\ secrets' = [secrets EXCEPT ![i] = <<>>]
  /\ valid' = [valid EXCEPT ![i] = {}]
  /\ UNCHANGED <<secret_config, rotator, stored, reconfigured>>

(* Mutant of Latest: of versions with the same number the first is taken.  *)
LatestFirst(i) ==
  LET Active == {j \in DOMAIN secrets[i] : secrets[i][j].active} IN
  IF Active = {} THEN NoSecret
  ELSE CHOOSE j \in Active :
         \A k \in Active :
           \/ secrets[i][k].version < secrets[i][j].version
           \/ secrets[i][k].version = secrets[i][j].version /\ j <= k

\* max_by_key: of the active versions the highest, of equal ones the last.
Latest(i) ==
  LET Active == {j \in DOMAIN secrets[i] : secrets[i][j].active} IN
  IF Active = {} THEN NoSecret
  ELSE CHOOSE j \in Active :
         \A k \in Active :
           \/ secrets[i][k].version < secrets[i][j].version
           \/ secrets[i][k].version = secrets[i][j].version /\ k <= j

\* What get_secret returns; an expired version hides the ones before it.
GetSecret(i) ==
  IF Latest(i) = NoSecret THEN NoSecret
  ELSE IF secrets[i][Latest(i)].age >= Lifetime THEN NoSecret
  ELSE secrets[i][Latest(i)].value

\* A thread is started when there is none; one that runs is left as it is.
UpdateSecretConfig(c) ==
  /\ reconfigured < MaxReconfigured
  /\ reconfigured' = reconfigured + 1
  /\ secret_config' = c
  /\ rotator' = IF rotator = Stopped THEN Thread(c) ELSE rotator
  /\ UNCHANGED <<known, secrets, stored, valid>>

NeedsRotation(i) ==
  Latest(i) # NoSecret /\ secrets[i][Latest(i)].age >= rotator

\* The thread wakes: the latest version of each secret that is old enough is
\* deactivated.  Nothing new is stored, and an older active version may be
\* the latest from now on.
Rotate ==
  LET Due == {i \in SecretIds : NeedsRotation(i)} IN
  /\ rotator # Stopped
  /\ secrets' = [i \in SecretIds |->
                   IF i \in Due THEN [secrets[i] EXCEPT ![Latest(i)].active = FALSE] ELSE secrets[i]]
  /\ valid' = [i \in SecretIds |->
                 IF i \in Due THEN valid[i] \ {secrets[i][Latest(i)].value} ELSE valid[i]]
  /\ UNCHANGED <<known, secret_config, rotator, stored, reconfigured>>

\* Time passes, up to the age at which a version is expired.
SecretsAge ==
  /\ secrets' = [i \in SecretIds |->
       [j \in DOMAIN secrets[i] |->
          [secrets[i][j] EXCEPT !.age = IF @ < Lifetime THEN @ + 1 ELSE Lifetime]]]
  /\ UNCHANGED <<known, secret_config, rotator, stored, reconfigured, valid>>

SecretNext ==
  \/ \E i \in SecretIds : StoreSecret(i) \/ RotateSecret(i) \/ DeleteSecret(i)
  \/ \E c \in SecretConfigs : UpdateSecretConfig(c)
  \/ Rotate \/ SecretsAge

SecretSpec == SecretInit /\ [][SecretNext]_secretVars

-------------------------------------------------------------------------------
SecretTypeOK ==
  /\ known \subseteq SecretIds
  /\ \A i \in SecretIds : \A j \in DOMAIN secrets[i] :
       LET v == secrets[i][j] IN
       /\ v.value \in 1..stored /\ v.version \in 1..(stored + 1)
       /\ v.active \in BOOLEAN /\ v.age \in 0..Lifetime
  /\ secret_config \in SecretConfigs /\ stored \in 0..MaxStored
  /\ \A i \in SecretIds : valid[i] \subseteq 1..stored

(* What get_secret returns (secrets/mod.rs:87-113) is the newest of the    *)
(* values that nobody rotated out, deleted or let age, although it goes by *)
(* version numbers, which repeat once versions are removed, and although   *)
(* the limit on versions may change; and a newest value that is young and  *)
(* valid is returned.                                                      *)
ServesNewestValid ==
  \A i \in SecretIds :
    /\ GetSecret(i) # NoSecret =>
         GetSecret(i) \in valid[i] /\ \A v \in valid[i] : v <= GetSecret(i)
    /\ (secrets[i] # <<>> /\ Last(secrets[i]).value \in valid[i]
          /\ Last(secrets[i]).age < Lifetime)
         => GetSecret(i) = Last(secrets[i]).value
===============================================================================
