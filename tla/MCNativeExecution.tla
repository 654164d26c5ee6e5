------------------------- MODULE MCNativeExecution --------------------------
EXTENDS NativeExecution

CONSTANTS op, a1, a2, s1, s2

\* Providers that validate what they send produce complete lists only.
ListOf(scopes) ==
  {[i \in DOMAIN scopes |-> [scope |-> scopes[i], knowledge |-> k[i]]] :
     k \in [DOMAIN scopes -> Knowledge]}

OneEffect == <<s1>>
OneEffectLists == ListOf(OneEffect)

=============================================================================
