----------------------------- MODULE MCRequests -----------------------------
(* What a request meets: the gateway, and the authenticator behind it, each  *)
(* small enough for TLC.  They share no state: a behaviour is one of either. *)
EXTENDS Gateway, Authenticator

CONSTANTS Parts, w1, w2, good, other, forged, ours, theirs, k1, k2, m1, m2

MCRequestSet ==
  {[known |-> TRUE, key |-> TRUE, unregistered |-> FALSE, costs |-> TRUE]}
  \cup [known : BOOLEAN, key : {FALSE}, unregistered : BOOLEAN, costs : {FALSE}]

\* The issuer `ours' is discovered, or not; a token that claims it is signed by another.
MCIssuerOf == [t \in Tokens |-> IF t = other THEN theirs ELSE ours]
MCSignedWith == [t \in Tokens |-> IF t = good THEN k1 ELSE k2]
MCOwnerOf == k1 :> ours @@ k2 :> theirs
MCNotBefore == [t \in Tokens |-> IF t = good THEN 1 ELSE 0]
MCExpires == [t \in Tokens |-> IF t = good THEN EndOfTime + 1 ELSE EndOfTime]
MCUriOf == ours :> "unset" @@ theirs :> "set"
MCAllowed == m1 :> Tokens @@ m2 :> Tokens \ {good}

SameThreads == Permutations({w1, w2})

VARIABLE part

all == <<part, gatewayVars, authVars>>

MCInit == part \in Parts /\ GatewayInit /\ AuthInit

MCNext ==
  \/ part = "gateway" /\ GatewayNext /\ UNCHANGED <<part, authVars>>
  \/ part = "authenticator" /\ AuthNext /\ UNCHANGED <<part, gatewayVars>>

MCSpec == MCInit /\ [][MCNext]_all
=============================================================================
