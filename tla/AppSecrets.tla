------------------------------- MODULE AppSecrets -------------------------------
(***************************************************************************)
(* The secrets of OAuth applications: how they are stored, encrypted under *)
(* the key of the configuration, and checked again, across restarts with a *)
(* new key.  Source: logic/crypto.go, logic/app.go, svc/servicecontext.go, *)
(* config/config.go.                                                       *)
(***************************************************************************)
EXTENDS Naturals

CONSTANTS
  Apps,
  Secrets,       \* what the generator can draw
  Keys,          \* encryption keys; every rotation takes one not used before
  NoKey,         \* previous_key is not configured, no key of Keys
  NoSecret,      \* no secret of Secrets
  MaxRotations,  \* bound on the number of rotations
  MaxResets      \* bound on the number of secrets handed out

VARIABLES
  app,       \* app[x]: "absent", "enabled", "disabled" or "deleted"
  stored,    \* stored[x]: the column app_secret
  key,       \* security.cipher.key of the running process
  previous,  \* its security.cipher.previous_key
  used,      \* keys used so far
  rotations, resets,
  handed     \* history: handed[x], the secret that was last given to the app's owner

vars == <<app, stored, key, previous, used, rotations, resets, handed>>

-----------------------------------------------------------------------------
\* A ciphertext has its version prefix and says nothing of the key under it.
\* "plain": stored before there was encryption; "v1": by an earlier release.
Ciphertext == [version : {"none", "plain", "v1", "v2"}, under : Keys \cup {NoKey},
               secret : Secrets \cup {NoSecret}]
NoCiphertext == [version |-> "none", under |-> NoKey, secret |-> NoSecret]

\* Always the current key, always v2.
Encrypt(s) == [version |-> "v2", under |-> key, secret |-> s]

\* The key a ciphertext is opened with.
OpenedWith(c) ==
  IF c.version = "v1" /\ previous # NoKey THEN previous ELSE key

\* What Decrypt returns; AES-GCM notices the wrong key.
Decrypt(c) ==
  IF c.version = "plain" \/ c.under = OpenedWith(c) THEN c.secret ELSE NoSecret

\* The app exists and is enabled, and the secret is the decrypted one.
VerifyCredential(x, s) == app[x] = "enabled" /\ Decrypt(stored[x]) = s

\* The table an earlier release left, under the key that is still in use.
Init ==
  /\ key \in Keys
  /\ previous = NoKey
  /\ used = {key}
  /\ app \in [Apps -> {"absent", "enabled"}]
  /\ stored \in [Apps -> Ciphertext]
  /\ \A x \in Apps :
       IF app[x] = "absent" THEN stored[x] = NoCiphertext
       ELSE /\ stored[x].version \in {"plain", "v1"} /\ stored[x].secret # NoSecret
            /\ stored[x].under = IF stored[x].version = "v1" THEN key ELSE NoKey
  /\ handed = [x \in Apps |-> stored[x].secret]
  /\ rotations = 0
  /\ resets = 0

-----------------------------------------------------------------------------
\* A secret is drawn, stored encrypted, and returned this one time.
HandOut(x, s) ==
  /\ resets < MaxResets
  /\ resets' = resets + 1
  /\ stored' = [stored EXCEPT ![x] = Encrypt(s)]
  /\ handed' = [handed EXCEPT ![x] = s]
  /\ UNCHANGED <<key, previous, used, rotations>>

\* The column default TRUE enables a new app whatever the request says.
Create(x, s) ==
  /\ app[x] = "absent"
  /\ app' = [app EXCEPT ![x] = "enabled"]
  /\ HandOut(x, s)

ResetSecret(x, s) ==
  /\ app[x] \in {"enabled", "disabled"}
  /\ HandOut(x, s)
  /\ UNCHANGED app

Update(x, status) ==
  /\ app[x] \in {"enabled", "disabled"}
  /\ app' = [app EXCEPT ![x] = status]
  /\ UNCHANGED <<stored, key, previous, used, rotations, resets, handed>>

Delete(x) ==
  /\ app[x] \in {"enabled", "disabled"}
  /\ app' = [app EXCEPT ![x] = "deleted"]
  /\ stored' = [stored EXCEPT ![x] = NoCiphertext]
  /\ handed' = [handed EXCEPT ![x] = NoSecret]
  /\ UNCHANGED <<key, previous, used, rotations, resets>>

\* The process is restarted with the old key as previous_key and a new key.
Rotate(k) ==
  /\ rotations < MaxRotations
  /\ k \notin used
  /\ rotations' = rotations + 1
  /\ key' = k
  /\ previous' = key
  /\ used' = used \cup {k}
  /\ UNCHANGED <<app, stored, resets, handed>>

Next ==
  \/ \E x \in Apps, s \in Secrets : Create(x, s) \/ ResetSecret(x, s)
  \/ \E x \in Apps : Delete(x) \/ \E status \in {"enabled", "disabled"} : Update(x, status)
  \/ \E k \in Keys : Rotate(k)

Spec == Init /\ [][Next]_vars

-----------------------------------------------------------------------------
\* crypto.go:20-21: with the old key in previous_key and the new one in key, a
\* restart is a smooth transition, and stored secrets do not become invalid.  One
\* rotation, as there is one previous key.
SecretsOutliveRotation ==
  rotations <= 1 =>
    \A x \in Apps : app[x] = "enabled" => VerifyCredential(x, handed[x])
=============================================================================
