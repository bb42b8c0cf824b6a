------------------------------- MODULE Inputs -------------------------------
(***************************************************************************)
(* Texts the server reads from outside, cut down to what its checks look   *)
(* at: ENCRYPTION_KEY (internal/config/env.go, internal/infra/crypto/      *)
(* aes.go), APP_URL (internal/router/routes.go) and a user's API key       *)
(* (internal/model/user_api_key.go).  Lengths are in bytes.                *)
(***************************************************************************)
EXTENDS Integers

-----------------------------------------------------------------------------
(* ENCRYPTION_KEY: len bytes once trimmed, pad bytes of white space around  *)
(* them, hex when the trimmed text is all hexadecimal digits.               *)

KeyText(lens, pads) == [len : lens, pad : pads, hex : BOOLEAN]

\* Mutant: Load measures the text as it is.
MutTrimmed(k) == k.len + k.pad

Trimmed(k) == k.len

\* config.Load.
LoadAcceptsKey(k) ==
    /\ k.len + k.pad > 0
    /\ IF Trimmed(k) = 64 THEN k.hex ELSE Trimmed(k) = 32

\* crypto.parseKey: what NewAESCipher makes of it, in bytes; 0 is an error.
ParseKey(k) ==
    IF k.len = 64 /\ k.hex THEN k.len \div 2 ELSE IF k.len = 32 THEN 32 ELSE 0

-----------------------------------------------------------------------------
(* APP_URL: Load asks for a text, New splits it at the commas.              *)

\* missing; separators and blanks only; an origin without its scheme; a list
\* of origins.
AppURLs == {"missing", "blank", "schemeless", "origins"}

LoadAcceptsURL(u) == u # "missing"

\* cors.New panics when no origin is left, and on one without http:// or https://.
CorsAccepts(u) == u = "origins"

-----------------------------------------------------------------------------
(* An API key, trimmed: its length and the longest prefix MaskAPIKey knows, *)
(* "sk-or-v1-" (router), "sk-" (sk) or neither (none).                      *)

ApiKey(lens) == {k \in [len : lens, prefix : {"none", "sk", "router"}] :
                    /\ k.prefix = "sk" => k.len >= 3
                    /\ k.prefix = "router" => k.len >= 9}

\* MaskAPIKey: how many bytes of the key the hint shows at each end.
Hint(k) ==
    CASE k.len <= 8                               -> [head |-> 0, tail |-> 0]
      [] k.len > 13 /\ k.prefix = "router"        -> [head |-> 9, tail |-> 4]
      [] k.len \in 9..13 /\ k.prefix = "router"   -> [head |-> 3, tail |-> 4]
      [] k.len > 8 /\ k.prefix = "sk"             -> [head |-> 3, tail |-> 4]
      [] k.len > 12 /\ k.prefix = "none"          -> [head |-> 6, tail |-> 4]
      [] k.len \in 9..12 /\ k.prefix = "none"     -> [head |-> 2, tail |-> 2]

\* "****", or the two ends around "...".
HintLength(k) == IF k.len <= 8 THEN 4 ELSE Hint(k).head + 3 + Hint(k).tail
=============================================================================
