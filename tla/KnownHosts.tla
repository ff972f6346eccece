----------------------------- MODULE KnownHosts -----------------------------
(* What trust on first use gives the user of control clients (the comment of  *)
(* VerifyOrTrustFingerprint): each connection is decided in one step, the     *)
(* first fingerprint accepted for a host is the one trusted from then on.  It *)
(* is taken back in two cases only: a save that breaks off may lose entries,  *)
(* and nothing is promised while saves race.                                  *)
CONSTANTS Host, Client,
          Shows,       \* the fingerprints that each host may show
          None, Torn   \* no fingerprint; a part of one, which matches none

VARIABLES trusts,  \* the fingerprint trusted for each host, or None, or Torn
          host,    \* the server each client talks to
          shown,   \* the fingerprint it was shown
          verdict, \* what it made of it: "none" yet, "trusted", "refused", "failed"
          racing   \* the clients whose save another one disturbed

hostsVars == <<trusts, host, shown, verdict, racing>>

Decide(c, v) ==
    /\ verdict[c] = "none"
    /\ verdict' = [verdict EXCEPT ![c] = v]
    /\ UNCHANGED <<host, shown>>

HostsInit ==
    /\ trusts = [h \in Host |-> None]
    /\ host \in [Client -> Host]
    /\ shown = [c \in Client |-> None]
    /\ verdict = [c \in Client |-> "none"]
    /\ racing = {}

Connect(c, h, f) ==
    /\ shown' = [shown EXCEPT ![c] = f]
    /\ host' = [host EXCEPT ![c] = h]
    /\ verdict' = [verdict EXCEPT ![c] = "none"]
    /\ UNCHANGED <<trusts, racing>>

MayTrust(c) == trusts[host[c]] \in {None, shown[c]}
WithNew(c) == [trusts EXCEPT ![host[c]] = shown[c]]

Trust(c) ==
    /\ MayTrust(c)
    /\ trusts' = WithNew(c)
    /\ Decide(c, "trusted")
    /\ UNCHANGED racing

Refuse(c) ==
    /\ ~ MayTrust(c)
    /\ Decide(c, "refused")
    /\ UNCHANGED <<trusts, racing>>

Fail(c) ==
    /\ Decide(c, "failed")
    /\ UNCHANGED <<trusts, racing>>

(* Only a client that would trust its host writes, and what it loses it       *)
(* replaces by nothing else.                                                  *)
BreakOff(c) ==
    /\ MayTrust(c)
    /\ Decide(c, "failed")
    /\ DOMAIN trusts' = Host
    /\ \A h \in Host : trusts'[h] \in {WithNew(c)[h], None, Torn}
    /\ UNCHANGED racing

(* Races begin and end, and one of the clients in them may decide.            *)
Race ==
    /\ racing \union racing' # {}
    /\ racing' \subseteq Client
    /\ DOMAIN trusts' = Host
    /\ \A h \in Host : trusts'[h] \in Shows[h] \union {None, Torn}
    /\ \/ UNCHANGED <<host, shown, verdict>>
       \/ \E c \in racing : Decide(c, "trusted") \/ Decide(c, "failed")

(* A decision changes the verdict: that conjunct follows from Decide, and is   *)
(* quick to evaluate.                                                         *)
HostsNext ==
    \/ \E c \in Client, h \in Host : \E f \in Shows[h] : Connect(c, h, f)
    \/ /\ verdict' # verdict
       /\ \E c \in Client : Trust(c) \/ Refuse(c) \/ Fail(c) \/ BreakOff(c)
    \/ Race

HostsSpec == HostsInit /\ [][HostsNext]_hostsVars
=============================================================================
