---------------------------- MODULE RefreshChain ----------------------------
(***************************************************************************)
(* What refresh rotation promises, without Redis, requests or awaits: a    *)
(* family is a chain of one-time tokens.  At any time one token at most is *)
(* honoured; honouring it takes it out of use for good, and its holder     *)
(* either gets one fresh successor or nothing.  A chain that has ended is  *)
(* never taken up again.                                                   *)
(***************************************************************************)
CONSTANT Tokens

VARIABLES phase,     \* "unborn", "open", "rotating" or "ended", per family
          honoured,  \* the tokens of a family the service would honour
          seen       \* tokens ever handed out

cvars == <<phase, honoured, seen>>

ChainInit ==
  /\ phase = [f \in Tokens |-> "unborn"]
  /\ honoured = [f \in Tokens |-> {}]
  /\ seen = {}

(* A login starts the family named after its first token. *)
Open(f) ==
  /\ phase[f] = "unborn"
  /\ f \notin seen
  /\ phase' = [phase EXCEPT ![f] = "open"]
  /\ honoured' = [honoured EXCEPT ![f] = {f}]
  /\ seen' = seen \cup {f}

Take(f) ==
  /\ phase[f] = "open"
  /\ phase' = [phase EXCEPT ![f] = "rotating"]
  /\ honoured' = [honoured EXCEPT ![f] = {}]
  /\ UNCHANGED seen

Give(f, t) ==
  /\ phase[f] = "rotating"
  /\ t \notin seen
  /\ phase' = [phase EXCEPT ![f] = "open"]
  /\ honoured' = [honoured EXCEPT ![f] = {t}]
  /\ seen' = seen \cup {t}

(* Revocation, expiry, a rotation that fails. *)
End(f) ==
  /\ phase[f] \in {"open", "rotating"}
  /\ phase' = [phase EXCEPT ![f] = "ended"]
  /\ honoured' = [honoured EXCEPT ![f] = {}]
  /\ UNCHANGED seen

ChainNext ==
  \E f \in Tokens : Open(f) \/ Take(f) \/ End(f) \/ \E t \in Tokens : Give(f, t)

ChainSpec == ChainInit /\ [][ChainNext]_cvars
=============================================================================
