CONSTANTS
  Apps = {x1, x2}
  Secrets = {s1, s2}
  Keys = {k1, k2, k3}
  NoKey = NoKey
  NoSecret = NoSecret
  MaxRotations = 1
  MaxResets = 3
SPECIFICATION Spec
INVARIANT
  SecretsOutliveRotation
CHECK_DEADLOCK FALSE
