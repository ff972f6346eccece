--------------------------- MODULE TerminalProofs ---------------------------
(* Proofs about what a user runs at a terminal: each of the six components    *)
(* by itself, and as Terminal composes them.                                  *)
EXTENDS Terminal, SelectionProofs, FiniteSetTheorems

-----------------------------------------------------------------------------
(* The trust in servers.                                                      *)

(* Who races is rewriting the file, and all who do.  Who does so alone has in *)
(* memory what the file had before it was emptied, where its host was unknown.*)
RacingIsRewriting == racing \in {{}, Rewriting}
Alone == racing = {} => \A c, d \in Rewriting : c = d
InMemory ==
    racing = {} => \A c \in Rewriting :
        /\ loaded[c][host[c]] \in {None, seen[c]}
        /\ pc[c] = "truncate" => loaded[c] = known
        /\ pc[c] = "write" => known = NoHosts
Asked == \A c \in Client : pc[c] \in {"save", "truncate", "write"} => pin[c] = None

Inv == TypeOK /\ RacingIsRewriting /\ Alone /\ InMemory /\ Asked

(* Every behaviour begins in the invariant.                                   *)
LEMMA InitInv == Init => Inv
BY TrustStoreAssumption
   DEF TrustStoreAssumption, Init, Inv, TypeOK, RacingIsRewriting, Alone, InMemory, Asked,
       Rewriting, NoHosts, Final

(* What a client writes for a host is one of the fingerprints it may show, or *)
(* a part of one.                                                             *)
LEMMA EntriesType ==
    ASSUME TypeOK, NEW c \in Client, pc[c] # "idle"
    PROVE  /\ DOMAIN Entries(c) = Host
           /\ \A h \in Host : Entries(c)[h] \in Shows[h] \union {None, Torn}
BY DEF TypeOK, Entries

(* Every step keeps the types.                                                *)
LEMMA StepType == Inv /\ [Next]_vars => TypeOK'
<1> SUFFICES ASSUME Inv, [Next]_vars PROVE TypeOK'
  OBVIOUS
<1> USE TrustStoreAssumption
    DEF TrustStoreAssumption, TypeOK, Inv, NoHosts, Goto, Final, Fingerprint
<1>1. ASSUME NEW c \in Client, VerifyPinned(c) PROVE TypeOK'
  BY <1>1 DEF VerifyPinned
<1>2. ASSUME NEW c \in Client, Verify(c) PROVE TypeOK'
  BY <1>2 DEF Verify
<1>3. ASSUME NEW c \in Client, Reload(c) PROVE TypeOK'
  BY <1>3 DEF Reload, Rewriting
<1>4. ASSUME NEW c \in Client, Truncate(c) PROVE TypeOK'
  BY <1>4 DEF Truncate
<1>5. ASSUME NEW c \in Client, NEW p \in {"trusted", "failed"}, EndSave(c, p),
             known' \in [Host -> Fingerprint \union {None, Torn}],
             \A h \in Host : known'[h] \in Shows[h] \union {None, Torn}
      PROVE  TypeOK'
  BY <1>5 DEF EndSave
<1>6. ASSUME NEW c \in Client, Write(c) PROVE TypeOK'
  <2>1. pc[c] # "idle"
    BY <1>6 DEF Write, EndSave
  <2>2. \A h \in Host : known'[h] \in Shows[h] \union {None, Torn}
    BY <1>6, <2>1, EntriesType DEF Write
  <2>3. known' \in [Host -> Fingerprint \union {None, Torn}]
    BY <1>6, <2>2 DEF Write
  <2> QED
    BY <1>5, <1>6, <2>2, <2>3 DEF Write
<1>7. ASSUME NEW c \in Client, WriteFails(c) PROVE TypeOK'
  <2>1. pc[c] # "idle"
    BY <1>7 DEF WriteFails, EndSave
  <2>2. \A h \in Host : known'[h] \in Shows[h] \union {None, Torn}
    BY <1>7, <2>1, EntriesType DEF WriteFails
  <2>3. known' \in [Host -> Fingerprint \union {None, Torn}]
    BY <1>7, <2>2 DEF WriteFails
  <2> QED
    BY <1>5, <1>7, <2>2, <2>3 DEF WriteFails
<1>8. ASSUME NEW c \in Client, ClientFails(c) PROVE TypeOK'
  BY <1>8 DEF ClientFails
<1>9. ASSUME NEW c \in Client, NEW h \in Host, NEW f \in Fingerprint,
             NEW p \in Fingerprint \union {None}, Handshake(c, h, f, p)
      PROVE  TypeOK'
  BY <1>9 DEF Handshake
<1>10. CASE UNCHANGED vars
  BY <1>10 DEF vars
<1> QED
  BY <1>1, <1>2, <1>3, <1>4, <1>6, <1>7, <1>8, <1>9, <1>10 DEF Next, ClientStep

(* Every step keeps the rest.                                                 *)
LEMMA StepInv == Inv /\ [Next]_vars => Inv'
<1> SUFFICES ASSUME Inv, [Next]_vars PROVE Inv'
  OBVIOUS
<1>0. TypeOK'
  BY StepType
<1> USE <1>0 DEF Inv, RacingIsRewriting, Alone, InMemory, Asked, Goto, Final
<1>1. ASSUME NEW c \in Client, VerifyPinned(c) PROVE Inv'
  <2>1. Rewriting' = Rewriting
    BY <1>1 DEF VerifyPinned, Rewriting, TypeOK
  <2> QED
    BY <1>1, <2>1 DEF VerifyPinned, TypeOK, Rewriting
<1>2. ASSUME NEW c \in Client, Verify(c) PROVE Inv'
  <2>1. Rewriting' = Rewriting
    BY <1>2 DEF Verify, Rewriting, TypeOK
  <2> QED
    BY <1>2, <2>1 DEF Verify, TypeOK, Rewriting
<1>3. ASSUME NEW c \in Client, Reload(c) PROVE Inv'
  <2>1. Rewriting' = Rewriting \union {c} /\ c \notin Rewriting
    BY <1>3 DEF Reload, Rewriting, TypeOK
  <2>2. CASE Rewriting = {} /\ known[host[c]] \in {None, seen[c]}
    BY <1>3, <2>1, <2>2 DEF Reload, TypeOK
  <2>3. CASE ~ (Rewriting = {} /\ known[host[c]] \in {None, seen[c]})
    <3>1. racing' = Rewriting' /\ racing' # {}
      BY <1>3, <2>1, <2>3 DEF Reload
    <3> QED
      BY <1>3, <3>1 DEF Reload, TypeOK
  <2> QED
    BY <2>2, <2>3
<1>4. ASSUME NEW c \in Client, Truncate(c) PROVE Inv'
  <2>1. Rewriting' = Rewriting /\ c \in Rewriting
    BY <1>4 DEF Truncate, Rewriting, TypeOK
  <2> QED
    BY <1>4, <2>1 DEF Truncate, TypeOK, Rewriting
<1>5. ASSUME NEW c \in Client, pc[c] \notin Final, NEW p \in Final, Goto(c, p),
             racing' = racing \ {c}, loaded' = [loaded EXCEPT ![c] = NoHosts],
             UNCHANGED <<host, seen, pin>>, known' = known \/ c \in Rewriting
      PROVE  Inv'
  <2>1. Rewriting' = Rewriting \ {c}
    BY <1>5 DEF Rewriting, TypeOK
  <2>2. CASE racing = {}
    BY <1>5, <2>1, <2>2 DEF TypeOK, Rewriting
  <2>3. CASE racing = Rewriting
    BY <1>5, <2>1, <2>3 DEF TypeOK
  <2> QED
    BY <2>2, <2>3
<1>6. ASSUME NEW c \in Client, Write(c) \/ WriteFails(c) PROVE Inv'
  <2>1. c \in Rewriting
    BY <1>6 DEF Write, WriteFails, EndSave, Rewriting
  <2> QED
    BY <1>5, <1>6, <2>1 DEF Write, WriteFails, EndSave
<1>7. ASSUME NEW c \in Client, ClientFails(c) PROVE Inv'
  BY <1>5, <1>7 DEF ClientFails
<1>8. ASSUME NEW c \in Client, NEW h \in Host, NEW f \in Fingerprint,
             NEW p \in Fingerprint \union {None}, Handshake(c, h, f, p)
      PROVE  Inv'
  <2>1. Rewriting' = Rewriting /\ c \notin Rewriting
    BY <1>8 DEF Handshake, Rewriting, TypeOK
  <2> QED
    BY <1>8, <2>1 DEF Handshake, TypeOK, Rewriting
<1>9. CASE UNCHANGED vars
  BY <1>9 DEF vars, Rewriting, TypeOK
<1> QED
  BY <1>1, <1>2, <1>3, <1>4, <1>6, <1>7, <1>8, <1>9 DEF Next, ClientStep

(* Who empties the file alone is who holds what is trusted.                   *)
LEMMA TrustedInMemory ==
    ASSUME Inv, racing = {}, NEW c \in Client, pc[c] = "write"
    PROVE  Trusted = loaded[c]
<1>1. Emptying = {c}
  BY DEF Inv, Alone, Rewriting, Emptying
<1> QED
  BY <1>1 DEF Trusted

(* Nothing is trusted where there is no file, and nobody has decided.         *)
LEMMA TrustInit == Init => Abstract!HostsInit
BY DEF Init, Abstract!HostsInit, Trusted, Emptying, Verdict, NoHosts

(* What is trusted keeps its type.                                            *)
LEMMA TrustedType ==
    ASSUME Inv
    PROVE  DOMAIN Trusted = Host /\ \A h \in Host : Trusted[h] \in Shows[h] \union {None, Torn}
<1>1. CASE racing = {} /\ Emptying # {}
  <2> PICK c \in Client : pc[c] = "write"
    BY <1>1 DEF Emptying
  <2> QED
    BY <1>1, TrustedInMemory DEF Inv, TypeOK
<1>2. CASE ~ (racing = {} /\ Emptying # {})
  BY <1>2 DEF Trusted, Inv, TypeOK
<1> QED
  BY <1>1, <1>2

(* Each step of a client decides its connection, or leaves all trust alone,   *)
(* or is part of a race: Truncate, which empties the file, is a stutter if it *)
(* is not, and Write and WriteFails are the decisions.                        *)
LEMMA TrustStep == Inv /\ [Next]_vars => [Abstract!HostsNext]_(Abstract!hostsVars)
<1> SUFFICES ASSUME Inv, [Next]_vars
             PROVE  Abstract!HostsNext \/ UNCHANGED Abstract!hostsVars
  OBVIOUS
<1>0. Inv' /\ DOMAIN Trusted' = Host
      /\ \A h \in Host : Trusted'[h] \in Shows[h] \union {None, Torn}
  <2>1. Inv'
    BY StepInv
  <2>2. (Inv => DOMAIN Trusted = Host
               /\ \A h \in Host : Trusted[h] \in Shows[h] \union {None, Torn})'
    BY TrustedType, PTL
  <2> QED
    BY <2>1, <2>2
<1>1. racing \subseteq Client /\ racing' \subseteq Client
  BY <1>0 DEF Inv, TypeOK
<1> DEFINE Still == UNCHANGED <<Trusted, host, seen, Verdict, racing>>
           Deciding(c, v) == /\ Verdict[c] = "none"
                             /\ Verdict' = [Verdict EXCEPT ![c] = v]
                             /\ UNCHANGED <<host, seen>>
(* A step in a race is one of Race.                                           *)
<1>2. ASSUME racing \union racing' # {},
             \/ UNCHANGED <<host, seen, Verdict>>
             \/ \E c \in racing : Deciding(c, "trusted") \/ Deciding(c, "failed")
      PROVE  Abstract!Race
  BY <1>0, <1>1, <1>2 DEF Abstract!Race, Abstract!Decide
(* A decision without a pinned fingerprint is one of the abstract store.      *)
<1>3. ASSUME NEW c \in Client, pc[c] \in {"shown", "save", "truncate", "write"}, pin[c] = None,
             NEW v \in {"trusted", "refused", "failed"}, Goto(c, v), UNCHANGED <<host, seen, pin>>
      PROVE  Deciding(c, v)
  BY <1>3 DEF Inv, TypeOK, Goto, Verdict
<1>4. ASSUME NEW c \in Client, NEW v, Deciding(c, v), v # "none"
      PROVE  Verdict' # Verdict
  BY <1>4 DEF Verdict
(* The verdict does not change while a client is not done or has a pin.       *)
<1>5. ASSUME NEW c \in Client, NEW to, Goto(c, to), UNCHANGED pin,
             pc[c] \in {"shown", "save", "truncate", "write"},
             pin[c] # None \/ to \in {"shown", "save", "truncate", "write"}
      PROVE  Verdict' = Verdict
  BY <1>5 DEF Inv, TypeOK, Goto, Verdict
(* What is trusted stays where the file does and nobody empties it anew.      *)
<1>6. ASSUME NEW c \in Client, pc[c] # "write", pc'[c] # "write", UNCHANGED <<known, racing>>,
             \A d \in Client \ {c} : pc'[d] = pc[d] /\ loaded'[d] = loaded[d]
      PROVE  Trusted' = Trusted
  <2>1. Emptying' = Emptying
    BY <1>6 DEF Emptying
  <2>2. CASE racing = {} /\ Emptying # {}
    <3> PICK d \in Client : pc[d] = "write"
      BY <2>2 DEF Emptying
    <3>1. Emptying = {d} /\ d # c
      BY <1>6, <2>2 DEF Inv, Alone, Rewriting, Emptying
    <3> QED
      BY <1>6, <2>1, <2>2, <3>1 DEF Trusted
  <2>3. CASE ~ (racing = {} /\ Emptying # {})
    BY <1>6, <2>1, <2>3 DEF Trusted
  <2> QED
    BY <2>2, <2>3
<1> HIDE DEF Still, Deciding
<1> USE DEF Inv
<1>7. ASSUME NEW c \in Client, NEW h \in Host, NEW f \in Fingerprint,
             NEW p \in Fingerprint \union {None}, Handshake(c, h, f, p)
      PROVE  Abstract!HostsNext
  <2>1. Verdict' = [Verdict EXCEPT ![c] = "none"]
    BY <1>7 DEF Handshake, Verdict, Goto, TypeOK, Final
  <2>2. Trusted' = Trusted
    BY <1>6, <1>7 DEF Handshake, Goto, TypeOK, Final
  <2>3. Abstract!Connect(c, h, f)
    BY <1>7, <2>1, <2>2 DEF Handshake, Abstract!Connect
  <2> QED
    BY <1>7, <2>3 DEF Handshake, Abstract!HostsNext
<1>8. ASSUME NEW c \in Client, VerifyPinned(c) PROVE Still
  <2>1. Trusted' = Trusted
    BY <1>6, <1>8 DEF VerifyPinned, Goto, TypeOK
  <2>2. Verdict' = Verdict
    BY <1>5, <1>8 DEF VerifyPinned
  <2> QED
    BY <1>8, <2>1, <2>2 DEF VerifyPinned, Still
<1>9. ASSUME NEW c \in Client, Verify(c)
      PROVE  Still \/ Abstract!HostsNext
  <2>1. Trusted' = Trusted
    BY <1>6, <1>9 DEF Verify, Goto, TypeOK
  <2>0. seen[c] # None
    BY <1>9, TrustStoreAssumption DEF Verify, TypeOK, TrustStoreAssumption, Fingerprint
  <2>2. CASE known[host[c]] = None
    <3>1. Goto(c, "save")
      BY <1>9, <2>0, <2>2 DEF Verify
    <3>2. Verdict' = Verdict
      BY <1>5, <1>9, <3>1 DEF Verify
    <3> QED
      BY <1>9, <2>1, <3>2 DEF Verify, Still
  <2>3. CASE known[host[c]] # None
    <3>1. Trusted = known
      <4>1. ASSUME racing = {} PROVE Emptying = {}
        BY <2>3, <4>1 DEF InMemory, Rewriting, Emptying, NoHosts, TypeOK
      <4> QED
        BY <4>1 DEF Trusted
    <3>2. known = [h \in Host |-> known[h]]
      BY DEF TypeOK
    <3>3. CASE known[host[c]] = seen[c]
      <4>1. Deciding(c, "trusted")
        BY <1>3, <1>9, <2>3, <3>3 DEF Verify
      <4>2. Trusted' = [Trusted EXCEPT ![host[c]] = seen[c]]
        BY <2>1, <3>1, <3>2, <3>3, <1>0 DEF Verify
      <4>3. Abstract!Trust(c)
        BY <1>9, <3>1, <3>3, <4>1, <4>2
           DEF Verify, Abstract!Trust, Abstract!MayTrust, Abstract!WithNew, Abstract!Decide, Deciding
      <4> QED
        BY <1>4, <4>1, <4>3 DEF Abstract!HostsNext
    <3>4. CASE known[host[c]] # seen[c]
      <4>1. Deciding(c, "refused")
        BY <1>3, <1>9, <2>3, <3>4 DEF Verify
      <4>2. Abstract!Refuse(c)
        BY <1>9, <2>1, <2>3, <3>1, <3>4, <4>1
           DEF Verify, Abstract!Refuse, Abstract!MayTrust, Abstract!Decide, Deciding
      <4> QED
        BY <1>4, <4>1, <4>2 DEF Abstract!HostsNext
    <3> QED
      BY <3>3, <3>4
  <2> QED
    BY <2>2, <2>3
<1>10. ASSUME NEW c \in Client, Reload(c)
       PROVE  Still \/ Abstract!HostsNext
  <2>1. Verdict' = Verdict
    BY <1>5, <1>10 DEF Reload
  <2>2. CASE racing' = racing
    <3>1. Trusted' = Trusted
      BY <1>6, <1>10, <2>2 DEF Reload, Goto, TypeOK
    <3> QED
      BY <1>10, <2>1, <2>2, <3>1 DEF Reload, Still
  <2>3. CASE racing' # racing
    BY <1>2, <1>10, <2>1, <2>3 DEF Reload, Abstract!HostsNext
  <2> QED
    BY <2>2, <2>3
<1>11. ASSUME NEW c \in Client, Truncate(c)
       PROVE  Still \/ Abstract!HostsNext
  <2>1. Verdict' = Verdict
    BY <1>5, <1>11 DEF Truncate
  <2>2. CASE racing = {}
    <3>1. Emptying = {} /\ loaded[c] = known
      BY <1>11, <2>2 DEF Truncate, Alone, InMemory, Rewriting, Emptying
    <3>2. Trusted = known
      BY <3>1 DEF Trusted
    <3>3. Emptying' = {c}
      BY <1>11, <3>1 DEF Truncate, Goto, Emptying, TypeOK
    <3>4. Trusted' = loaded'[c]
      BY <1>11, <2>2, <3>3 DEF Truncate, Trusted
    <3> QED
      BY <1>11, <2>1, <3>1, <3>2, <3>4 DEF Truncate, Still
  <2>3. CASE racing # {}
    BY <1>2, <1>11, <2>1, <2>3 DEF Truncate, Abstract!HostsNext
  <2> QED
    BY <2>2, <2>3
<1>12. ASSUME NEW c \in Client, NEW v \in {"trusted", "failed"}, EndSave(c, v)
       PROVE  /\ Deciding(c, v)
              /\ racing # {} => Abstract!HostsNext
              /\ racing = {} =>
                   /\ Trusted = loaded[c] /\ Trusted' = known' /\ known = NoHosts
                   /\ Abstract!MayTrust(c) /\ racing' = racing
  <2>1. Deciding(c, v)
    BY <1>3, <1>12 DEF EndSave, Asked
  <2>2. ASSUME racing # {} PROVE Abstract!HostsNext
    <3>1. c \in racing
      BY <1>12, <2>2 DEF EndSave, RacingIsRewriting, Rewriting
    <3> QED
      BY <1>2, <2>1, <2>2, <3>1 DEF Abstract!HostsNext
  <2>3. ASSUME racing = {}
        PROVE  /\ Trusted = loaded[c] /\ Trusted' = known' /\ known = NoHosts
               /\ Abstract!MayTrust(c) /\ racing' = racing
    <3>1. Emptying' = {}
      BY <1>12, <2>3 DEF EndSave, Alone, Rewriting, Emptying, Goto, TypeOK
    <3>2. Trusted = loaded[c]
      BY <1>12, <2>3, TrustedInMemory DEF EndSave
    <3> QED
      BY <1>12, <2>3, <3>1, <3>2
         DEF EndSave, Trusted, InMemory, Rewriting, Abstract!MayTrust
  <2> QED
    BY <2>1, <2>2, <2>3
<1>13. ASSUME NEW c \in Client, Write(c) PROVE Abstract!HostsNext
  <2> SUFFICES ASSUME racing = {} PROVE Abstract!HostsNext
    BY <1>12, <1>13 DEF Write
  <2>1. Deciding(c, "trusted") /\ Trusted = loaded[c] /\ Trusted' = known' /\ known = NoHosts
        /\ Abstract!MayTrust(c) /\ racing' = racing
    BY <1>12, <1>13 DEF Write
  <2>2. known' = Entries(c)
    <3>1. DOMAIN Entries(c) = Host /\ Entries(c) = [h \in Host |-> Entries(c)[h]]
      BY DEF TypeOK, Entries
    <3> QED
      BY <1>13, <2>1, <3>1 DEF Write, Leftovers, NoHosts
  <2>3. Abstract!Trust(c)
    BY <2>1, <2>2 DEF Entries, Abstract!Trust, Abstract!WithNew, Abstract!Decide, Deciding
  <2> QED
    BY <1>4, <2>1, <2>3 DEF Abstract!HostsNext
<1>14. ASSUME NEW c \in Client, WriteFails(c) PROVE Abstract!HostsNext
  <2> SUFFICES ASSUME racing = {} PROVE Abstract!HostsNext
    BY <1>12, <1>14 DEF WriteFails
  <2>1. Deciding(c, "failed") /\ Trusted = loaded[c] /\ Trusted' = known' /\ known = NoHosts
        /\ Abstract!MayTrust(c) /\ racing' = racing
    BY <1>12, <1>14 DEF WriteFails
  <2>2. \A h \in Host : known'[h] \in {Entries(c)[h], None, Torn}
    BY <1>14, <2>1 DEF WriteFails, Leftovers, NoHosts
  <2>3. Abstract!BreakOff(c)
    BY <1>0, <2>1, <2>2 DEF Entries, Abstract!BreakOff, Abstract!WithNew, Abstract!Decide, Deciding
  <2> QED
    BY <1>4, <2>1, <2>3 DEF Abstract!HostsNext
<1>15. ASSUME NEW c \in Client, ClientFails(c)
       PROVE  Still \/ Abstract!HostsNext
  <2>1. CASE c \in racing
    <3>1. pin[c] = None
      BY <1>15, <2>1 DEF ClientFails, RacingIsRewriting, Rewriting, Asked
    <3> QED
      BY <1>2, <1>3, <1>15, <2>1, <3>1 DEF ClientFails, Abstract!HostsNext
  <2>2. CASE c \notin racing
    <3>1. racing' = racing
      BY <1>15, <2>2 DEF ClientFails
    <3>2. Trusted' = Trusted
      BY <1>6, <1>15, <3>1 DEF ClientFails, Goto, TypeOK
    <3>3. CASE pin[c] # None
      BY <1>5, <1>15, <3>1, <3>2, <3>3 DEF ClientFails, Still
    <3>4. CASE pin[c] = None
      <4>1. Deciding(c, "failed")
        BY <1>3, <1>15, <3>4 DEF ClientFails
      <4>2. Abstract!Fail(c)
        BY <3>1, <3>2, <4>1 DEF Abstract!Fail, Abstract!Decide, Deciding
      <4> QED
        BY <1>4, <4>1, <4>2 DEF Abstract!HostsNext
    <3> QED
      BY <3>3, <3>4
  <2> QED
    BY <2>1, <2>2
<1>16. CASE UNCHANGED vars
  BY <1>16 DEF vars, Verdict, Trusted, Emptying, Abstract!hostsVars
<1>17. Still => UNCHANGED Abstract!hostsVars
  BY DEF Still, Abstract!hostsVars
<1> QED
  BY <1>7, <1>8, <1>9, <1>10, <1>11, <1>13, <1>14, <1>15, <1>16, <1>17 DEF Next, ClientStep

(* The invariant of the store.                                                *)
LEMMA InvHolds == Spec => []Inv
BY InitInv, StepInv, PTL DEF Spec

(* Whatever clients do at once, the file implements a store in which trust    *)
(* is decided in one step (tls.go:183-226).                                   *)
LEMMA TrustFirst == Spec => TrustOnFirstUse
BY TrustInit, TrustStep, InvHolds, PTL DEF Spec, TrustOnFirstUse, Abstract!HostsSpec

(* Every variable keeps its type, a host's entry is one of its fingerprints or *)
(* a part of one, and a client past the handshake was shown one.              *)
THEOREM TypeCorrect == Spec => []TypeOK
BY InvHolds, PTL DEF Inv

-----------------------------------------------------------------------------
(* The identity of a server.                                                  *)

(* The files of a host that has shown an identity are those of this identity, *)
(* at most one of them lost; a daemon that writes a pair has shown none.      *)
StoredInv ==
    /\ \A h \in Host : ident[h] # None =>
        /\ cert[h] \in {ident[h], None} /\ key[h] \in {ident[h], None}
        /\ cert[h] # None \/ key[h] # None
    /\ \A h \in Host : daemon[h] \in {"cert", "key", "keywrite"} =>
        ident[h] = None /\ ids[h] # 0
    /\ \A h \in Host : daemon[h] \in {"key", "keywrite"} => cert[h] = ids[h]
    /\ \A h \in Host : daemon[h] = "serving" => ident[h] # None
    /\ Server!ServedPairIsStored

IdentityInv == Server!TypeOK /\ StoredInv

(* Every behaviour begins in the invariant.                                   *)
LEMMA IdentityInit == Server!IdentityAssumption /\ Server!Init => IdentityInv
BY DEF Server!IdentityAssumption, Server!Init, Server!NoFiles, IdentityInv, Server!TypeOK,
   StoredInv, Server!ServedPairIsStored

(* Every step keeps the types.                                                *)
LEMMA IdentityType ==
    ASSUME Server!IdentityAssumption, IdentityInv, [Server!Next]_(Server!vars)
    PROVE  Server!TypeOK'
<1> USE DEF Server!IdentityAssumption, Server!TypeOK, IdentityInv, StoredInv, Server!Id,
            Server!Step
<1>1. ASSUME NEW h \in Host, Server!Start(h) PROVE Server!TypeOK'
  BY <1>1 DEF Server!Start
<1>2. ASSUME NEW h \in Host, Server!Load(h) PROVE Server!TypeOK'
  BY <1>2 DEF Server!Load
<1>3. ASSUME NEW h \in Host, Server!LoadFails(h) PROVE Server!TypeOK'
  BY <1>3 DEF Server!LoadFails
<1>4. ASSUME NEW h \in Host, Server!Generate(h) PROVE Server!TypeOK'
  BY <1>4 DEF Server!Generate
<1>5. ASSUME NEW h \in Host, Server!WriteCert(h) PROVE Server!TypeOK'
  BY <1>5 DEF Server!WriteCert
<1>6. ASSUME NEW h \in Host, Server!TruncateKey(h) PROVE Server!TypeOK'
  BY <1>6 DEF Server!TruncateKey
<1>7. ASSUME NEW h \in Host, Server!WriteKey(h) PROVE Server!TypeOK'
  BY <1>7 DEF Server!WriteKey
<1>8. ASSUME NEW h \in Host, Server!End(h) PROVE Server!TypeOK'
  BY <1>8 DEF Server!End
<1>9. ASSUME NEW h \in Host, Server!RemoveFile(h) PROVE Server!TypeOK'
  BY <1>9 DEF Server!RemoveFile
<1>10. CASE UNCHANGED Server!vars
  BY <1>10 DEF Server!vars
<1> QED
  BY <1>1, <1>2, <1>3, <1>4, <1>5, <1>6, <1>7, <1>8, <1>9, <1>10
     DEF Server!Next, Server!ServerStep

(* No step tears the pair of a host that has shown an identity.               *)
LEMMA IdentityStored ==
    ASSUME Server!IdentityAssumption, IdentityInv, [Server!Next]_(Server!vars)
    PROVE  StoredInv'
<1> USE DEF Server!IdentityAssumption, Server!TypeOK, IdentityInv, StoredInv, Server!Id,
            Server!Step, Server!ServedPairIsStored
<1>1. ASSUME NEW h \in Host, Server!Start(h) PROVE StoredInv'
  BY <1>1 DEF Server!Start
<1>2. ASSUME NEW h \in Host, Server!Load(h) PROVE StoredInv'
  BY <1>2 DEF Server!Load
<1>3. ASSUME NEW h \in Host, Server!LoadFails(h) PROVE StoredInv'
  BY <1>3 DEF Server!LoadFails
<1>4. ASSUME NEW h \in Host, Server!Generate(h) PROVE StoredInv'
  BY <1>4 DEF Server!Generate
<1>5. ASSUME NEW h \in Host, Server!WriteCert(h) PROVE StoredInv'
  BY <1>5 DEF Server!WriteCert
<1>6. ASSUME NEW h \in Host, Server!TruncateKey(h) PROVE StoredInv'
  BY <1>6 DEF Server!TruncateKey
<1>7. ASSUME NEW h \in Host, Server!WriteKey(h) PROVE StoredInv'
  BY <1>7 DEF Server!WriteKey
<1>8. ASSUME NEW h \in Host, Server!End(h) PROVE StoredInv'
  BY <1>8 DEF Server!End
<1>9. ASSUME NEW h \in Host, Server!RemoveFile(h) PROVE StoredInv'
  BY <1>9 DEF Server!RemoveFile
<1>10. CASE UNCHANGED Server!vars
  BY <1>10 DEF Server!vars
<1> QED
  BY <1>1, <1>2, <1>3, <1>4, <1>5, <1>6, <1>7, <1>8, <1>9, <1>10
     DEF Server!Next, Server!ServerStep

(* No step replaces an identity by another one.                               *)
LEMMA IdentityStep ==
    ASSUME Server!IdentityAssumption, IdentityInv, Server!Next, NEW h \in Host
    PROVE  ident[h] \in {None, ident'[h]} \/ ident'[h] = None
<1> USE DEF Server!IdentityAssumption, Server!TypeOK, IdentityInv, StoredInv, Server!Id,
            Server!Step
<1>1. ASSUME NEW g \in Host,
             Server!Start(g) \/ Server!LoadFails(g) \/ Server!Generate(g) \/ Server!WriteCert(g)
               \/ Server!TruncateKey(g) \/ Server!End(g)
      PROVE  ident' = ident
  BY <1>1
     DEF Server!Start, Server!LoadFails, Server!Generate, Server!WriteCert,
         Server!TruncateKey, Server!End
<1>2. ASSUME NEW g \in Host, Server!Load(g) \/ Server!WriteKey(g) \/ Server!RemoveFile(g)
      PROVE  ident[h] \in {None, ident'[h]} \/ ident'[h] = None
  BY <1>2 DEF Server!Load, Server!WriteKey, Server!RemoveFile
<1> QED
  BY <1>1, <1>2 DEF Server!Next, Server!ServerStep

(* What a daemon serves with is on disk, and a host shows one identity until  *)
(* both its files are gone (tls.go:29-101).                                   *)
LEMMA StableIdentity ==
    ASSUME Server!IdentityAssumption
    PROVE  Server!Spec => []IdentityInv /\ Server!IdentityStable
<1>1. IdentityInv /\ [Server!Next]_(Server!vars) => IdentityInv'
  BY IdentityType, IdentityStored DEF IdentityInv
<1>2. IdentityInv => Server!ServedPairIsStored
  BY DEF IdentityInv, StoredInv
<1>3. IdentityInv /\ [Server!Next]_(Server!vars) =>
        [\A h \in Host : ident[h] \in {None, ident'[h]} \/ ident'[h] = None]_(Server!vars)
  BY IdentityStep
<1>4. Server!Init => IdentityInv
  BY IdentityInit
<1> QED
  BY <1>1, <1>2, <1>3, <1>4, PTL DEF Server!Spec, Server!IdentityStable

-----------------------------------------------------------------------------
(* The commands that ask and administer.                                      *)

(* The instance has copies of the operators of its library modules.           *)
LEMMA CommandKeep == \A s, A : Command!Keep(s, A) = Keep(s, A)
BY DEF Command!Keep, Keep

LEMMA CommandCardinality == \A S : Command!Cardinality(S) = Cardinality(S)
BY DEF Command!Cardinality, Cardinality

USE DEF Command!daemon, Command!world, Command!command, Command!vars

CommandRow == [repo : Command!Repo, is : {"live", "no token", "error", "none", "found"}]
IsAnswer(a) ==
    /\ DOMAIN a = {"reads", "repos", "runners", "max", "available"}
    /\ a.reads \in 0 .. 3 /\ a.repos \in Seq(Command!Repo)
    /\ a.runners \in SUBSET Command!Runner
    /\ a.max \in 0 .. MaxSlots /\ a.available \in Int

(* GitHub and the daemon.                                                     *)
WorldTypes ==
    /\ made \subseteq Command!Repo \X (1 .. MaxId)
    /\ sets = [r \in Command!Repo |-> sets[r]]
    /\ \A r \in Command!Repo : sets[r] = 0 \/ <<r, sets[r]>> \in made
    /\ up \in BOOLEAN /\ cap \in 1 .. MaxSlots
    /\ taken \in Cardinality(runners) .. MaxTaken
    /\ scalers \subseteq Command!Repo /\ runners \subseteq scalers \X (1 .. MaxTaken)
    /\ IsFiniteSet(runners) /\ IsFiniteSet(made)

(* The command.  A row that shows a scale set is of one there was.            *)
CommandTypes ==
    /\ cmd \in Command!Command /\ filter \in Command!Filter /\ id \in 0 .. MaxId
    /\ place \in {"idle", "connect", "live", "query", "done"}
    /\ rows \in Seq(CommandRow)
    /\ \A i \in 1 .. Len(rows) : rows[i].is = "found" => \E p \in made : p[1] = rows[i].repo
    /\ IsAnswer(answer) /\ moved \in BOOLEAN

Reports == {"status", "runners", "health"}

(* The rows so far are those of the first repositories that were asked for.   *)
RowsInv ==
    /\ place \in {"idle", "connect", "live"} => rows = <<>>
    /\ place \in {"idle", "connect", "query"} => answer = Command!Unread
    /\ place \in {"connect", "live"} => cmd \in {"status", "runners"}
    /\ (place = "done" /\ answer # Command!Unread) => cmd \in {"status", "runners"}
    /\ place = "query" => Len(rows) <= Len(Command!Chosen)
    /\ (place = "query" \/ (place = "done" /\ answer = Command!Unread /\ cmd \in Reports))
         => \A i \in 1 .. Len(rows) : rows[i].repo = Command!Chosen[i]
    /\ (place = "done" /\ answer = Command!Unread /\ cmd \in Reports)
         => Len(rows) = Len(Command!Chosen)
    /\ (place = "done" /\ answer # Command!Unread /\ cmd = "runners")
         => \A i \in 1 .. Len(rows) : rows[i].repo \in Command!ToSet(Command!Chosen)

(* What was read still stands, unless the daemon has changed since.           *)
LiveInv ==
    /\ answer = Command!Unread <=> answer.reads = 0
    /\ place = "live" => answer.reads <= 2
    /\ (place = "live" /\ ~ moved) =>
         /\ answer.reads >= 1 => answer.runners = runners
         /\ answer.reads = 2 => answer.max = cap
    /\ (place = "done" /\ answer # Command!Unread /\ ~ moved)
         => Cardinality(answer.runners) + answer.available <= answer.max

CommandInv == WorldTypes /\ CommandTypes /\ RowsInv /\ LiveInv

(* Finitely many repositories are configured.                                 *)
LEMMA RepoFinite == Command!CommandsAssumption => IsFiniteSet(Command!Repo)
<1> SUFFICES ASSUME Command!CommandsAssumption PROVE IsFiniteSet(Command!Repo)
  OBVIOUS
<1>1. Len(Configured) \in Nat /\ DOMAIN Configured = 1 .. Len(Configured)
  BY DEF Command!CommandsAssumption
<1>2. IsFiniteSet(1 .. Len(Configured))
  BY <1>1, FS_Interval
<1> DEFINE f == [i \in 1 .. Len(Configured) |-> Configured[i]]
<1>3. f \in Surjection(1 .. Len(Configured), Command!Repo)
  BY <1>1 DEF Command!Repo, Command!ToSet, Surjection
<1> QED
  BY <1>2, <1>3, FS_Surjection

(* Those that were asked for: in order, and all of them.                      *)
LEMMA ChosenFacts ==
    ASSUME Command!CommandsAssumption
    PROVE  /\ Command!Chosen \in Seq(Command!Repo) /\ Len(Command!Chosen) \in Nat
           /\ \A r \in Command!Repo :
                filter \in {All, Part, r} => r \in Command!ToSet(Command!Chosen)
<1> DEFINE A == {r \in Command!Repo : filter \in {All, Part, r}}
<1>1. Configured \in Seq(Command!Repo)
  BY DEF Command!CommandsAssumption
<1>2. /\ Command!Chosen \in Seq(Command!Repo)
      /\ KeptUpTo(Configured, A, Len(Configured), Command!Chosen)
  BY <1>1, KeepFacts, CommandKeep DEF Command!Chosen
<1>3. ASSUME NEW r \in Command!Repo, filter \in {All, Part, r}
      PROVE  r \in Command!ToSet(Command!Chosen)
  <2>1. PICK b \in 1 .. Len(Configured) : r = Configured[b]
    BY <1>1 DEF Command!Repo, Command!ToSet
  <2>2. \E l \in 1 .. Len(Command!Chosen) : Command!Chosen[l] = r
    BY <1>2, <1>3, <2>1 DEF KeptUpTo
  <2> QED
    BY <1>2, <2>2 DEF Command!ToSet
<1> QED
  BY <1>2, <1>3

(* The rows of a live answer: of the name that was asked for.                 *)
LEMMA PrintedFacts ==
    ASSUME CommandInv
    PROVE  /\ Command!LiveRows \in Seq(CommandRow)
           /\ \A i \in 1 .. Len(Command!LiveRows) :
                /\ Command!LiveRows[i].is = "live"
                /\ cmd = "runners" => filter \in {All, Command!LiveRows[i].repo}
<1> DEFINE A == {r \in Command!Repo : cmd = "status" \/ filter \in {All, r}}
<1>1. answer.repos \in Seq(Command!Repo)
  BY DEF CommandInv, CommandTypes, IsAnswer
<1>2. /\ Command!Printed \in Seq(Command!Repo)
      /\ KeptUpTo(answer.repos, A, Len(answer.repos), Command!Printed)
  BY <1>1, KeepFacts, CommandKeep DEF Command!Printed
<1>3. /\ DOMAIN Command!Printed = 1 .. Len(Command!Printed)
      /\ Len(Command!Printed) \in Nat
      /\ Command!LiveRows =
           [i \in 1 .. Len(Command!Printed) |-> [repo |-> Command!Printed[i], is |-> "live"]]
  BY <1>2 DEF Command!LiveRows
<1>4. ASSUME NEW i \in 1 .. Len(Command!Printed)
      PROVE  Command!Printed[i] \in Command!Repo /\ Command!Printed[i] \in A
  BY <1>2 DEF KeptUpTo
<1>5. /\ Command!LiveRows \in Seq(CommandRow)
      /\ Len(Command!LiveRows) = Len(Command!Printed)
  <2>1. ASSUME NEW i \in 1 .. Len(Command!Printed)
        PROVE  [repo |-> Command!Printed[i], is |-> "live"] \in CommandRow
    BY <1>4 DEF CommandRow
  <2> QED
    BY <1>3, <2>1
<1> QED
  BY <1>3, <1>4, <1>5

-----------------------------------------------------------------------------
(* What the daemon does keeps the types of its state.                         *)
LEMMA DaemonTypes ==
    ASSUME Command!CommandsAssumption, WorldTypes, Command!DaemonChanges
    PROVE  WorldTypes'
<1> USE DEF WorldTypes
<1>1. Cardinality(runners) \in Nat
  BY FS_CardinalityType
<1>2. UNCHANGED <<sets, made>> /\ MaxTaken \in Nat /\ MaxSlots \in Nat
  BY DEF Command!DaemonChanges, Command!CommandsAssumption
<1>3. CASE up' = ~ up /\ scalers' = {} /\ runners' = {} /\ taken' = 0 /\ UNCHANGED cap
  BY <1>2, <1>3, FS_EmptySet
<1>4. CASE up /\ cap' \in 1 .. MaxSlots /\ UNCHANGED <<up, taken, scalers, runners>>
  BY <1>2, <1>4
<1>5. CASE /\ \/ up /\ taken < cap /\ taken < MaxTaken /\ taken' = taken + 1
              \/ Cardinality(runners) < taken /\ taken' = taken - 1
           /\ UNCHANGED <<up, cap, scalers, runners>>
  BY <1>1, <1>2, <1>5
<1>6. ASSUME NEW r \in Command!Repo \ scalers, scalers' = scalers \cup {r},
             UNCHANGED <<up, cap, taken, runners>>
      PROVE  WorldTypes'
  BY <1>2, <1>6
<1>7. ASSUME NEW r \in scalers, scalers' = scalers \ {r},
             runners' = {p \in runners : p[1] # r}, UNCHANGED <<up, cap, taken>>
      PROVE  WorldTypes'
  <2>1. runners' \in SUBSET runners /\ runners' \subseteq scalers' \X (1 .. MaxTaken)
    BY <1>7
  <2>2. IsFiniteSet(runners') /\ Cardinality(runners') <= Cardinality(runners)
    BY <2>1, FS_Subset
  <2>3. Cardinality(runners') \in Nat
    BY <2>2, FS_CardinalityType
  <2> QED
    BY <1>1, <1>2, <1>7, <2>1, <2>2, <2>3
<1>8. ASSUME NEW p \in Command!Runner \ runners, p[1] \in scalers,
             Cardinality(runners) < taken,
             runners' = runners \cup {p}, UNCHANGED <<up, cap, taken, scalers>>
      PROVE  WorldTypes'
  <2>1. IsFiniteSet(runners') /\ Cardinality(runners') = Cardinality(runners) + 1
    BY <1>8, FS_AddElement
  <2>2. p \in scalers \X (1 .. MaxTaken)
    BY <1>8 DEF Command!Runner
  <2>3. runners' \subseteq scalers' \X (1 .. MaxTaken)
    BY <1>8, <2>2
  <2> QED
    BY <1>1, <1>2, <1>8, <2>1, <2>3
<1>9. ASSUME NEW p \in runners, runners' = runners \ {p},
             UNCHANGED <<up, cap, taken, scalers>>
      PROVE  WorldTypes'
  <2>1. IsFiniteSet(runners') /\ Cardinality(runners') = Cardinality(runners) - 1
    BY <1>9, FS_RemoveElement
  <2>2. Cardinality(runners') \in Nat
    BY <2>1, FS_CardinalityType
  <2>3. runners' \subseteq scalers' \X (1 .. MaxTaken)
    BY <1>9
  <2> QED
    BY <1>1, <1>2, <1>9, <2>1, <2>2, <2>3
<1> HIDE DEF WorldTypes
<1> QED
  BY <1>3, <1>4, <1>5, <1>6, <1>7, <1>8, <1>9, CommandCardinality
     DEF Command!DaemonChanges

(* Every step does, and no scale set is forgotten.                            *)
LEMMA WorldStep ==
    ASSUME Command!CommandsAssumption, WorldTypes, [Command!Next]_(Command!vars)
    PROVE  WorldTypes' /\ made \subseteq made'
<1>1. ASSUME NEW r \in Command!Repo, Command!SetCreated(r)
      PROVE  WorldTypes' /\ made \subseteq made'
  <2> DEFINE n == Cardinality(made) + 1
  <2>1. n \in 1 .. MaxId
    <3>1. Cardinality(made) \in Nat
      BY FS_CardinalityType DEF WorldTypes
    <3> QED
      BY <1>1, <3>1, CommandCardinality
         DEF Command!SetCreated, Command!CommandsAssumption
  <2>2. sets' = [sets EXCEPT ![r] = n] /\ sets'[r] = n /\ made' = made \cup {<<r, n>>}
    BY <1>1, CommandCardinality DEF Command!SetCreated, WorldTypes
  <2>3. UNCHANGED Command!daemon
    BY <1>1, CommandCardinality DEF Command!SetCreated
  <2> HIDE DEF n
  <2>4. IsFiniteSet(made')
    BY <2>2, FS_AddElement DEF WorldTypes
  <2> QED
    BY <2>1, <2>2, <2>3, <2>4 DEF WorldTypes
<1>2. ASSUME Command!DaemonChanges PROVE WorldTypes' /\ made \subseteq made'
  BY <1>2, DaemonTypes, CommandCardinality DEF Command!DaemonChanges
<1>3. ASSUME Command!DeleteSet PROVE WorldTypes' /\ made \subseteq made'
  BY <1>3 DEF Command!DeleteSet, WorldTypes
<1>4. ASSUME UNCHANGED Command!world PROVE WorldTypes' /\ made \subseteq made'
  BY <1>4 DEF WorldTypes
<1>5. ASSUME \/ Command!Begin \/ Command!Connect \/ Command!FallBack
             \/ Command!ReadRunners \/ Command!ReadMax \/ Command!ReadAvailable
             \/ Command!Ask \/ Command!Report \/ Command!DeleteFails \/ Command!Exit
      PROVE  UNCHANGED Command!world
  BY <1>5
     DEF Command!Begin, Command!Connect, Command!FallBack, Command!ReadRunners,
     Command!ReadMax, Command!ReadAvailable, Command!Ask, Command!Report,
     Command!DeleteFails, Command!Exit
<1> QED
  BY <1>1, <1>2, <1>3, <1>4, <1>5 DEF Command!Next

(* The answers that Connect and the reads leave.                              *)
LEMMA UnreadTypes ==
    ASSUME Command!CommandsAssumption
    PROVE  IsAnswer(Command!Unread) /\ Command!Unread.reads = 0
BY DEF Command!Unread, IsAnswer, Command!CommandsAssumption

(* The first read takes the scalers and their runners.                        *)
LEMMA ReadRunnersIs ==
    ASSUME Command!CommandsAssumption, CommandInv, Command!ReadRunners
    PROVE  IsAnswer(answer') /\ answer'.reads = 1 /\ answer'.runners = runners
<1>1. PICK order \in Command!SetToSeqs(scalers) :
        answer' = [answer EXCEPT !.reads = 1, !.repos = order, !.runners = runners]
  BY DEF Command!ReadRunners
<1>2. order \in Seq(Command!Repo)
  <2>1. scalers \subseteq Command!Repo /\ IsFiniteSet(scalers)
    BY RepoFinite, FS_Subset DEF CommandInv, WorldTypes
  <2>2. Cardinality(scalers) \in Nat
    BY <2>1, FS_CardinalityType
  <2>3. order \in [1 .. Cardinality(scalers) -> scalers]
    BY <1>1, CommandCardinality DEF Command!SetToSeqs
  <2> QED
    BY <2>1, <2>2, <2>3
<1>3. runners \in SUBSET Command!Runner
  BY DEF CommandInv, WorldTypes, Command!Runner
<1>4. IsAnswer(answer)
  BY DEF CommandInv, CommandTypes
<1>5. /\ DOMAIN answer' = DOMAIN answer /\ answer'.reads = 1 /\ answer'.repos = order
      /\ answer'.runners = runners /\ answer'.max = answer.max
      /\ answer'.available = answer.available
  BY <1>1, <1>4 DEF IsAnswer
<1>6. answer.max \in 0 .. MaxSlots /\ answer.available \in Int
  BY <1>4 DEF IsAnswer
<1> QED
  BY <1>2, <1>3, <1>4, <1>5, <1>6 DEF IsAnswer

(* The second takes the capacity.                                             *)
LEMMA ReadMaxIs ==
    ASSUME Command!CommandsAssumption, CommandInv, Command!ReadMax
    PROVE  /\ IsAnswer(answer') /\ answer'.reads = 2
           /\ answer'.runners = answer.runners /\ answer'.max = cap
<1>1. answer' = [answer EXCEPT !.reads = 2, !.max = cap]
  BY DEF Command!ReadMax
<1>2. IsAnswer(answer) /\ cap \in 0 .. MaxSlots
  BY DEF CommandInv, CommandTypes, WorldTypes, Command!CommandsAssumption
<1>3. /\ DOMAIN answer' = DOMAIN answer /\ answer'.reads = 2
      /\ answer'.repos = answer.repos
      /\ answer'.runners = answer.runners /\ answer'.max = cap
      /\ answer'.available = answer.available
  BY <1>1, <1>2 DEF IsAnswer
<1>4. /\ answer.repos \in Seq(Command!Repo)
      /\ answer.runners \in SUBSET Command!Runner /\ answer.available \in Int
  BY <1>2 DEF IsAnswer
<1> QED
  BY <1>2, <1>3, <1>4 DEF IsAnswer

(* The third takes what is free of it.                                        *)
LEMMA ReadAvailableIs ==
    ASSUME Command!CommandsAssumption, CommandInv, Command!ReadAvailable
    PROVE  /\ IsAnswer(answer') /\ answer'.reads = 3 /\ answer'.runners = answer.runners
           /\ answer'.max = answer.max /\ answer'.available = cap - taken
<1>1. answer' = [answer EXCEPT !.reads = 3, !.available = cap - taken]
  BY DEF Command!ReadAvailable
<1>2. IsAnswer(answer) /\ cap - taken \in Int
  BY DEF CommandInv, CommandTypes, WorldTypes
<1>3. /\ DOMAIN answer' = DOMAIN answer /\ answer'.reads = 3
      /\ answer'.repos = answer.repos
      /\ answer'.runners = answer.runners /\ answer'.max = answer.max
      /\ answer'.available = cap - taken
  BY <1>1, <1>2 DEF IsAnswer
<1>4. /\ answer.repos \in Seq(Command!Repo)
      /\ answer.runners \in SUBSET Command!Runner /\ answer.max \in 0 .. MaxSlots
  BY <1>2 DEF IsAnswer
<1> QED
  BY <1>2, <1>3, <1>4 DEF IsAnswer

(* Every step keeps the types of the command.                                 *)
LEMMA AskStep ==
    ASSUME Command!CommandsAssumption, CommandInv, [Command!Next]_(Command!vars)
    PROVE  CommandTypes'
<1> USE DEF CommandInv, CommandTypes
<1>1. made \subseteq made'
  BY WorldStep
<1>2. ASSUME Command!DaemonChanges PROVE CommandTypes'
  BY <1>2, CommandCardinality DEF Command!DaemonChanges, Command!Idle
<1>3. ASSUME NEW r \in Command!Repo, Command!SetCreated(r) PROVE CommandTypes'
  BY <1>1, <1>3, CommandCardinality DEF Command!SetCreated, Command!Idle
<1>4. ASSUME Command!Begin PROVE CommandTypes'
  BY <1>4 DEF Command!Begin
<1>5. ASSUME Command!Connect PROVE CommandTypes'
  BY <1>5, UnreadTypes DEF Command!Connect
<1>6. ASSUME Command!FallBack PROVE CommandTypes'
  <2>1. /\ rows' = <<>> /\ answer' = Command!Unread /\ moved' = FALSE
        /\ place' = "query" /\ UNCHANGED Command!world /\ UNCHANGED Command!command
    BY <1>6 DEF Command!FallBack
  <2>2. rows' \in Seq(CommandRow) /\ Len(rows') = 0
    BY <2>1
  <2>3. IsAnswer(answer')
    BY <2>1, UnreadTypes
  <2>4. /\ cmd' \in Command!Command /\ filter' \in Command!Filter
        /\ id' \in 0 .. MaxId /\ moved' \in BOOLEAN
    BY <2>1
  <2> QED
    BY <2>1, <2>2, <2>3, <2>4
<1>7. ASSUME Command!ReadRunners PROVE CommandTypes'
  BY <1>7, ReadRunnersIs DEF Command!ReadRunners
<1>8. ASSUME Command!ReadMax PROVE CommandTypes'
  BY <1>8, ReadMaxIs DEF Command!ReadMax
<1>9. ASSUME Command!ReadAvailable PROVE CommandTypes'
  BY <1>9, ReadAvailableIs, PrintedFacts DEF Command!ReadAvailable
<1>10. ASSUME Command!Ask PROVE CommandTypes'
  <2>1. PICK is \in Command!Outcome(Command!NextRepo) :
          rows' = Append(rows, [repo |-> Command!NextRepo, is |-> is])
    BY <1>10 DEF Command!Ask
  <2>2. Command!NextRepo \in Command!Repo
    <3>1. /\ Command!Chosen \in Seq(Command!Repo)
          /\ Len(rows) + 1 \in 1 .. Len(Command!Chosen)
      BY <1>10, ChosenFacts DEF Command!Ask, Command!Querying
    <3> QED
      BY <3>1 DEF Command!NextRepo
  <2>3. is \in {"no token", "error", "none", "found"}
        /\ (is = "found" => sets[Command!NextRepo] # 0)
    BY DEF Command!Outcome
  <2>4. [repo |-> Command!NextRepo, is |-> is] \in CommandRow
    BY <2>2, <2>3 DEF CommandRow
  <2>5. is = "found" => \E p \in made : p[1] = Command!NextRepo
    BY <2>2, <2>3 DEF WorldTypes
  <2>6. rows' \in Seq(CommandRow) /\ Len(rows') = Len(rows) + 1
        /\ (\A i \in 1 .. Len(rows) : rows'[i] = rows[i])
        /\ rows'[Len(rows) + 1] = [repo |-> Command!NextRepo, is |-> is]
    BY <2>1, <2>4
  <2>7. \A i \in 1 .. Len(rows') :
          rows'[i].is = "found" => \E p \in made : p[1] = rows'[i].repo
    <3> SUFFICES ASSUME NEW i \in 1 .. Len(rows'), rows'[i].is = "found"
                 PROVE  \E p \in made : p[1] = rows'[i].repo
      OBVIOUS
    <3>1. i \in 1 .. Len(rows) \/ i = Len(rows) + 1
      BY <2>6
    <3>2. CASE i \in 1 .. Len(rows)
      BY <2>6, <3>2
    <3>3. CASE i = Len(rows) + 1
      BY <2>5, <2>6, <3>3
    <3> QED
      BY <3>1, <3>2, <3>3
  <2> QED
    BY <1>10, <2>6, <2>7 DEF Command!Ask
<1>11. ASSUME Command!Report PROVE CommandTypes'
  <2>1. /\ Command!Listed \in Seq(CommandRow)
        /\ \A i \in 1 .. Len(Command!Listed) :
             \E a \in 1 .. Len(rows) : rows[a] = Command!Listed[i]
    <3> DEFINE A == {row \in Command!ToSet(rows) : row.is = "found"}
    <3>1. /\ Command!Listed \in Seq(CommandRow)
          /\ KeptUpTo(rows, A, Len(rows), Command!Listed)
      <4> HIDE DEF A
      <4>1. rows \in Seq(CommandRow)
        OBVIOUS
      <4> QED BY <4>1, KeepFacts, CommandKeep DEF Command!Listed, A
    <3> QED
      BY <3>1 DEF KeptUpTo
  <2>2. \A i \in 1 .. Len(Command!Listed) :
          Command!Listed[i].is = "found" => \E p \in made : p[1] = Command!Listed[i].repo
    BY <2>1
  <2>3. rows' \in {rows, Command!Listed}
    BY <1>11 DEF Command!Report
  <2> QED
    BY <1>11, <2>1, <2>2, <2>3 DEF Command!Report
<1>12. ASSUME Command!DeleteSet PROVE CommandTypes'
  BY <1>12 DEF Command!DeleteSet
<1>13. ASSUME Command!DeleteFails PROVE CommandTypes'
  BY <1>13 DEF Command!DeleteFails
<1>14. ASSUME Command!Exit PROVE CommandTypes'
  <2>1. /\ rows' = <<>> /\ answer' = Command!Unread /\ moved' = FALSE
        /\ place' = "idle" /\ UNCHANGED Command!world
        /\ cmd' = "status" /\ filter' = All /\ id' = 0
    BY <1>14 DEF Command!Exit
  <2>2. rows' \in Seq(CommandRow) /\ Len(rows') = 0
    BY <2>1
  <2>3. IsAnswer(answer')
    BY <2>1, UnreadTypes
  <2>4. cmd' \in Command!Command /\ filter' \in Command!Filter /\ id' \in 0 .. MaxId
    BY <2>1 DEF Command!Command, Command!Filter, Command!CommandsAssumption
  <2>5. moved' \in BOOLEAN
    BY <2>1, Zenon
  <2> QED
    BY <2>1, <2>2, <2>3, <2>4, <2>5
<1>15. CASE UNCHANGED Command!vars
  BY <1>15
<1> QED
  BY <1>2, <1>3, <1>4, <1>5, <1>6, <1>7, <1>8, <1>9, <1>10, <1>11, <1>12, <1>13,
     <1>14, <1>15 DEF Command!Next

(* Every step keeps the rows those of the repositories asked for.             *)
LEMMA RowsStep ==
    ASSUME Command!CommandsAssumption, CommandInv, [Command!Next]_(Command!vars)
    PROVE  RowsInv'
<1> USE DEF CommandInv, RowsInv, Reports
<1>1. /\ Command!Chosen \in Seq(Command!Repo) /\ Len(Command!Chosen) \in Nat
      /\ rows \in Seq(CommandRow) /\ Len(rows) \in Nat
  BY ChosenFacts DEF CommandTypes
<1>2. UNCHANGED filter => UNCHANGED Command!Chosen
  BY DEF Command!Chosen
<1>3. ASSUME UNCHANGED <<Command!command, place, rows, answer>> PROVE RowsInv'
  BY <1>2, <1>3
<1>4. ASSUME Command!DaemonChanges \/ UNCHANGED Command!vars PROVE RowsInv'
  BY <1>3, <1>4, CommandCardinality DEF Command!DaemonChanges, Command!Idle
<1>5. ASSUME NEW r \in Command!Repo, Command!SetCreated(r) PROVE RowsInv'
  BY <1>3, <1>5, CommandCardinality DEF Command!SetCreated, Command!Idle
<1>6. Len(<<>>) = 0
  OBVIOUS
<1>7. ASSUME Command!Begin PROVE RowsInv'
  <2>1. rows' = <<>> /\ answer' = Command!Unread /\ place' \in {"connect", "query"}
        /\ (place' = "connect" => cmd' \in {"status", "runners"})
    BY <1>7 DEF Command!Begin
  <2>2. Len(rows') = 0 /\ Len(Command!Chosen') \in Nat
    <3>1. Command!Chosen' =
            Keep(Configured, {r \in Command!Repo : filter' \in {All, Part, r}})
      BY CommandKeep DEF Command!Chosen
    <3>2. Command!Chosen' \in Seq(Command!Repo)
      BY <3>1, KeepFacts, CommandKeep DEF Command!CommandsAssumption
    <3> QED
      BY <2>1, <3>2
  <2> QED
    BY <2>1, <2>2
<1>8. ASSUME Command!Connect PROVE RowsInv'
  BY <1>8 DEF Command!Connect
<1>9. ASSUME Command!FallBack PROVE RowsInv'
  <2>1. rows' = <<>> /\ answer' = Command!Unread /\ place' = "query" /\ UNCHANGED filter
    BY <1>9 DEF Command!FallBack
  <2> QED
    BY <1>1, <1>2, <1>6, <2>1
<1>10. ASSUME Command!ReadRunners \/ Command!ReadMax PROVE RowsInv'
  BY <1>10 DEF Command!ReadRunners, Command!ReadMax
<1>11. ASSUME Command!ReadAvailable PROVE RowsInv'
  <2>1. /\ place = "live" /\ place' = "done" /\ rows' = Command!LiveRows
        /\ UNCHANGED Command!command
    BY <1>11 DEF Command!ReadAvailable
  <2>2. answer' # Command!Unread
    BY <1>11, ReadAvailableIs, UnreadTypes
  <2>3. ASSUME cmd = "runners", NEW i \in 1 .. Len(rows')
        PROVE  rows'[i].repo \in Command!ToSet(Command!Chosen)
    <3>1. rows' \in Seq(CommandRow) /\ filter \in {All, rows'[i].repo}
      BY <2>1, <2>3, PrintedFacts
    <3>2. rows'[i] \in CommandRow
      BY <3>1
    <3>3. rows'[i].repo \in Command!Repo
      BY <3>2 DEF CommandRow
    <3> QED
      BY <3>1, <3>3, ChosenFacts
  <2> QED
    BY <1>2, <2>1, <2>2, <2>3
<1>12. ASSUME Command!Ask PROVE RowsInv'
  <2>1. PICK is \in Command!Outcome(Command!NextRepo) :
          rows' = Append(rows, [repo |-> Command!NextRepo, is |-> is])
    BY <1>12 DEF Command!Ask
  <2>2. /\ Len(rows') = Len(rows) + 1 /\ \A i \in 1 .. Len(rows) : rows'[i] = rows[i]
        /\ rows'[Len(rows) + 1].repo = Command!Chosen[Len(rows) + 1]
    BY <1>1, <2>1 DEF Command!NextRepo
  <2>3. /\ place = "query" /\ Len(rows) < Len(Command!Chosen)
        /\ UNCHANGED <<Command!command, place, answer>>
    BY <1>12 DEF Command!Ask, Command!Querying
  <2>4. \A i \in 1 .. Len(rows') : rows'[i].repo = Command!Chosen[i]
    <3> SUFFICES ASSUME NEW i \in 1 .. Len(rows') PROVE rows'[i].repo = Command!Chosen[i]
      OBVIOUS
    <3>1. i \in 1 .. Len(rows) \/ i = Len(rows) + 1
      BY <1>1, <2>2
    <3> QED
      BY <2>2, <2>3, <3>1
  <2> QED
    BY <1>1, <1>2, <2>2, <2>3, <2>4
<1>13. ASSUME Command!Report PROVE RowsInv'
  <2>1. /\ place = "query" /\ place' = "done" /\ UNCHANGED <<Command!command, answer>>
        /\ Len(rows) = Len(Command!Chosen) /\ (cmd \in Reports => rows' = rows)
    BY <1>13 DEF Command!Report
  <2>2. answer' = Command!Unread /\ UNCHANGED Command!Chosen /\ place' = "done"
    BY <1>2, <2>1
  <2>3. CASE cmd \in Reports
    BY <2>1, <2>2, <2>3
  <2>4. CASE cmd \notin Reports
    BY <2>1, <2>2, <2>4
  <2> QED
    BY <2>3, <2>4
<1>14. ASSUME Command!DeleteSet \/ Command!DeleteFails PROVE RowsInv'
  <2>1. place' = "done" /\ place = "query" /\ cmd' = "delete" /\ UNCHANGED answer
    BY <1>14 DEF Command!DeleteSet, Command!DeleteFails
  <2> QED
    BY <2>1
<1>15. ASSUME Command!Exit PROVE RowsInv'
  BY <1>15 DEF Command!Exit
<1> QED
  BY <1>4, <1>5, <1>7, <1>8, <1>9, <1>10, <1>11, <1>12, <1>13, <1>14, <1>15
     DEF Command!Next

(* Every step keeps what was read, unless the daemon changes.                 *)
LEMMA LiveStep ==
    ASSUME Command!CommandsAssumption, CommandInv, [Command!Next]_(Command!vars)
    PROVE  LiveInv'
<1> USE DEF LiveInv
<1>1. CommandInv /\ RowsInv /\ LiveInv
  BY DEF CommandInv
<1>2. Command!Unread.reads = 0
  BY UnreadTypes
<1>3. ASSUME UNCHANGED <<cap, runners, place, answer, moved>> PROVE LiveInv'
  BY <1>1, <1>3
<1>4. ASSUME Command!DaemonChanges PROVE LiveInv'
  <2>1. /\ UNCHANGED <<place, answer>>
        /\ moved' = (moved \/ (place = "live" /\ answer # Command!Unread))
    BY <1>4, CommandCardinality DEF Command!DaemonChanges, Command!Idle
  <2>2. /\ (answer' = Command!Unread <=> answer'.reads = 0)
        /\ (place' = "live" => answer'.reads <= 2)
    BY <1>1, <2>1
  <2>3. ASSUME place' = "live", ~ moved' PROVE answer'.reads = 0
    BY <1>2, <2>1, <2>3
  <2>4. ASSUME place' = "done", answer' # Command!Unread, ~ moved'
        PROVE  Cardinality(answer'.runners) + answer'.available <= answer'.max
    <3>1. ~ moved
      BY <2>1, <2>4
    <3> QED
      BY <1>1, <2>1, <2>4, <3>1
  <2> QED
    BY <2>2, <2>3, <2>4
<1>5. ASSUME \/ Command!DeleteSet \/ Command!DeleteFails \/ Command!Report
             \/ Command!Begin \/ Command!FallBack \/ Command!Connect \/ Command!Exit
      PROVE  LiveInv'
  <2>1. answer' = Command!Unread
    BY <1>1, <1>5
       DEF Command!DeleteSet, Command!DeleteFails, Command!Report, Command!Begin,
       Command!FallBack, Command!Connect, Command!Exit, RowsInv
  <2> QED
    BY <1>2, <2>1
<1>6. ASSUME Command!ReadRunners PROVE LiveInv'
  <2>1. answer'.reads = 1 /\ answer'.runners = runners
    BY <1>1, <1>6, ReadRunnersIs
  <2>2. place' = "live" /\ UNCHANGED <<runners, cap>>
    BY <1>6 DEF Command!ReadRunners
  <2>3. answer' # Command!Unread
    BY <1>2, <2>1
  <2> QED
    BY <2>1, <2>2, <2>3
<1>7. ASSUME Command!ReadMax PROVE LiveInv'
  <2>1. answer'.reads = 2 /\ answer'.runners = answer.runners /\ answer'.max = cap
    BY <1>1, <1>7, ReadMaxIs
  <2>2. /\ place' = "live" /\ UNCHANGED <<runners, cap>> /\ answer.reads = 1
        /\ place = "live"
    BY <1>7 DEF Command!ReadMax
  <2>3. answer' # Command!Unread
    BY <1>2, <2>1
  <2>4. ~ moved' => answer'.runners = runners'
    <3>1. ~ moved => answer.runners = runners
      BY <1>1, <2>2
    <3>2. moved' = moved
      BY <1>7 DEF Command!ReadMax
    <3> QED
      BY <2>1, <2>2, <3>1, <3>2
  <2> QED
    BY <2>1, <2>2, <2>3, <2>4
<1>8. ASSUME Command!ReadAvailable PROVE LiveInv'
  <2>1. /\ answer'.reads = 3 /\ answer'.runners = answer.runners
        /\ answer'.max = answer.max
        /\ answer'.available = cap - taken /\ place = "live" /\ answer.reads = 2
        /\ place' = "done"
        /\ moved' = moved
    BY <1>1, <1>8, ReadAvailableIs DEF Command!ReadAvailable
  <2>2. /\ Cardinality(runners) \in Nat /\ taken \in Int
        /\ taken >= Cardinality(runners) /\ cap \in Int
    BY <1>1, FS_CardinalityType DEF CommandInv, WorldTypes
  <2>3. ~ moved => Cardinality(answer'.runners) + answer'.available <= answer'.max
    BY <1>1, <2>1, <2>2
  <2> QED
    BY <1>2, <2>1, <2>3
<1>9. ASSUME \/ Command!Ask \/ UNCHANGED Command!vars
             \/ \E r \in Command!Repo : Command!SetCreated(r)
      PROVE  UNCHANGED <<cap, runners, place, answer, moved>>
  BY <1>9, CommandCardinality DEF Command!Ask, Command!SetCreated, Command!Idle
<1> QED
  BY <1>3, <1>4, <1>5, <1>6, <1>7, <1>8, <1>9 DEF Command!Next

(* The invariant of a command.                                                *)
LEMMA CommandInvHolds ==
    ASSUME Command!CommandsAssumption
    PROVE  Command!Spec => []CommandInv
<1>1. Command!Init => CommandInv
  <2> SUFFICES ASSUME Command!Init PROVE CommandInv
    OBVIOUS
  <2>1. WorldTypes
    <3>1. /\ made = {} /\ sets = [r \in Command!Repo |-> 0] /\ up = FALSE
          /\ cap = MaxSlots
          /\ taken = 0 /\ scalers = {} /\ runners = {}
      BY DEF Command!Init
    <3>2. cap \in 1 .. MaxSlots /\ MaxTaken \in Nat
      BY <3>1 DEF Command!CommandsAssumption
    <3>3. Cardinality(runners) = 0 /\ IsFiniteSet(runners) /\ IsFiniteSet(made)
      BY <3>1, FS_EmptySet
    <3>4. taken \in Cardinality(runners) .. MaxTaken
      BY <3>1, <3>2, <3>3
    <3>5. \A r \in Command!Repo : sets[r] = 0
      BY <3>1
    <3>6. sets = [r \in Command!Repo |-> sets[r]]
      BY <3>1
    <3> QED
      BY <3>1, <3>2, <3>3, <3>4, <3>5, <3>6 DEF WorldTypes
  <2>2. /\ rows = <<>> /\ rows \in Seq(CommandRow) /\ Len(rows) = 0
        /\ answer = Command!Unread /\ place = "idle"
    BY DEF Command!Init
  <2>3. CommandTypes
    <3>1. cmd \in Command!Command /\ filter \in Command!Filter /\ id \in 0 .. MaxId
      BY DEF Command!Init, Command!Command, Command!Filter,
         Command!CommandsAssumption
    <3>3. moved \in BOOLEAN
      BY Zenon DEF Command!Init
    <3>2. IsAnswer(answer)
      BY <2>2, UnreadTypes
    <3> QED
      BY <2>2, <3>1, <3>2, <3>3 DEF CommandTypes
  <2>4. RowsInv /\ LiveInv
    BY <2>2, UnreadTypes DEF RowsInv, Reports, LiveInv
  <2> QED
    BY <2>1, <2>3, <2>4 DEF CommandInv
<1>2. CommandInv /\ [Command!Next]_(Command!vars) => CommandInv'
  <2> SUFFICES ASSUME CommandInv, [Command!Next]_(Command!vars) PROVE CommandInv'
    OBVIOUS
  <2>1. WorldTypes'
    BY WorldStep DEF CommandInv
  <2> QED
    BY <2>1, AskStep, RowsStep, LiveStep DEF CommandInv
<1> QED
  BY <1>1, <1>2, PTL DEF Command!Spec

(* What a report may show follows from it.                                    *)
LEMMA AnswersTrue ==
    ASSUME Command!CommandsAssumption, CommandInv
    PROVE  Command!AnswersAreTrue
<1>1. rows \in Seq(CommandRow) /\ Command!Chosen \in Seq(Command!Repo)
  BY ChosenFacts DEF CommandInv, CommandTypes
<1>2. Command!ReportIsComplete
  BY <1>1 DEF Command!ReportIsComplete, Command!Names, CommandInv, RowsInv, Reports
<1>3. Command!RunnersFiltered
  <2> SUFFICES ASSUME place = "done", cmd = "runners", NEW i \in 1 .. Len(rows)
               PROVE  rows[i].repo \in Command!ToSet(Command!Chosen)
    BY <1>1 DEF Command!RunnersFiltered, Command!Names, Command!ToSet
  <2>1. CASE answer = Command!Unread
    <3>1. Len(rows) = Len(Command!Chosen) /\ rows[i].repo = Command!Chosen[i]
      BY <2>1 DEF CommandInv, RowsInv, Reports
    <3> QED
      BY <1>1, <3>1 DEF Command!ToSet
  <2>2. CASE answer # Command!Unread
    BY <2>2 DEF CommandInv, RowsInv, Reports
  <2> QED
    BY <2>1, <2>2
<1>4. Command!LiveAddsUp
  BY CommandCardinality DEF Command!LiveAddsUp, CommandInv, LiveInv
<1>5. Command!TypeOK
  <2>1. \A row \in Command!ToSet(rows) :
          /\ row.is \in {"live", "no token", "error", "none", "found"}
          /\ row.is = "found" => \E p \in made : p[1] = row.repo
    <3> SUFFICES ASSUME NEW row \in Command!ToSet(rows)
                 PROVE  /\ row.is \in {"live", "no token", "error", "none", "found"}
                        /\ row.is = "found" => \E p \in made : p[1] = row.repo
      OBVIOUS
    <3>1. PICK i \in 1 .. Len(rows) : row = rows[i]
      BY <1>1 DEF Command!ToSet
    <3>2. row \in CommandRow
      BY <1>1, <3>1
    <3>3. rows[i].is = "found" => \E p \in made : p[1] = rows[i].repo
      BY DEF CommandInv, CommandTypes
    <3> QED
      BY <3>1, <3>2, <3>3 DEF CommandRow
  <2> QED
    BY <2>1, CommandCardinality
       DEF Command!TypeOK, CommandInv, WorldTypes, CommandTypes
<1> QED
  BY <1>2, <1>3, <1>4, <1>5 DEF Command!AnswersAreTrue

-----------------------------------------------------------------------------
(* The keys of the dashboard.                                                 *)

LEMMA BoardKeep == \A s, A : Board!Keep(s, A) = Keep(s, A)
BY DEF Board!Keep, Keep


(* What a division leaves.                                                    *)
LEMMA Division ==
    ASSUME NEW n \in Nat \ {0}, NEW a \in Int
    PROVE  \E q \in Int : a = n * q + (a % n) /\ a % n \in 0 .. n - 1
<1>1. /\ a % n \in 0 .. n - 1
      /\ a = n * (a \div n) + (a % n) /\ a \div n \in Int
  OBVIOUS
<1> QED
  BY <1>1

(* The remainder of a number that is out of range by less than one round.     *)
LEMMA Wraps ==
    ASSUME NEW n \in Nat \ {0}, NEW a \in Int, - n <= a, a < n + n
    PROVE  a % n = IF a < 0 THEN a + n ELSE IF a < n THEN a ELSE a - n
<1> DEFINE r == a % n
<1>1. PICK q \in Int : r \in 0 .. n - 1 /\ a = n * q + r
  BY Division
<1> HIDE DEF r
<1>2. q >= -1
  <2> SUFFICES ASSUME q <= -2 PROVE FALSE
    BY <1>1
  <2>1. n * q <= - n - n
    BY <1>1
  <2> QED BY <1>1, <2>1
<1>3. q <= 1
  <2> SUFFICES ASSUME q >= 2 PROVE FALSE
    BY <1>1
  <2>1. n * q >= n + n
    BY <1>1
  <2> QED BY <1>1, <2>1
<1>4. r = IF a < 0 THEN a + n ELSE IF a < n THEN a ELSE a - n
  <2>1. q = -1 \/ q = 0 \/ q = 1
    BY <1>1, <1>2, <1>3
  <2> QED
    BY <1>1, <2>1
<1> QED
  BY <1>4 DEF r

(* Whole rounds leave no trace in a remainder.                                *)
LEMMA Rounds ==
    ASSUME NEW n \in Nat \ {0}, NEW s \in Nat, NEW b \in Int
    PROVE  s % n \in 0 .. n - 1 /\ (s + b) % n = ((s % n) + b) % n
<1> DEFINE r == s % n
<1>1. PICK q \in Int : s = n * q + r /\ r \in 0 .. n - 1
  <2>1. s \in Int
    OBVIOUS
  <2> QED
    BY <2>1, Division
<1> HIDE DEF r
<1>2. PICK x \in Int : s + b = n * x + ((s + b) % n) /\ (s + b) % n \in 0 .. n - 1
  <2>1. s + b \in Int
    OBVIOUS
  <2> QED
    BY <2>1, Division
<1>3. PICK y \in Int : r + b = n * y + ((r + b) % n) /\ (r + b) % n \in 0 .. n - 1
  <2>1. r + b \in Int
    BY <1>1
  <2> QED
    BY <2>1, Division
<1> DEFINE u == (s + b) % n
           v == (r + b) % n
           k == x - y - q
<1>4. u \in 0 .. n - 1 /\ v \in 0 .. n - 1 /\ s + b = n * x + u /\ r + b = n * y + v
  BY <1>2, <1>3
<1> HIDE DEF u, v
<1>5. v - u = n * k /\ k \in Int
  BY <1>1, <1>4
<1> HIDE DEF k
<1>6. k < 1
  <2> SUFFICES ASSUME k >= 1 PROVE FALSE
    BY <1>5
  <2>1. n * k >= n
    BY <1>5
  <2> QED BY <1>4, <1>5, <2>1
<1>7. k > -1
  <2> SUFFICES ASSUME k <= -1 PROVE FALSE
    BY <1>5
  <2>1. n * k <= - n
    BY <1>5
  <2> QED BY <1>4, <1>5, <2>1
<1>8. u = v
  BY <1>4, <1>5, <1>6, <1>7
<1> QED
  BY <1>1, <1>8 DEF u, v, r

(* A smallest number is the one Least chooses.                                *)
LEMMA LeastIn ==
    ASSUME NEW S \in SUBSET Int, NEW m \in S, \A k \in S : m <= k
    PROVE  Board!Least(S) = m
<1>1. \A k \in S : (\A j \in S : k <= j) => k = m
  OBVIOUS
<1> QED
  BY <1>1 DEF Board!Least

GreatestOf(S) == CHOOSE i \in S : \A j \in S : j <= i

(* A set of indices that is not empty has a greatest one.                     *)
LEMMA GreatestIn ==
    ASSUME NEW n \in Nat, NEW S \in SUBSET (0 .. n - 1), S # {}
    PROVE  GreatestOf(S) \in S /\ \A j \in S : j <= GreatestOf(S)
<1> DEFINE T == {n - 1 - i : i \in S}
<1>1. T \in SUBSET Nat /\ T # {}
  <2>1. \A i \in S : i \in 0 .. n - 1 /\ n - 1 - i \in Nat
    OBVIOUS
  <2> QED
    BY <2>1
<1>2. PICK t \in T : \A u \in T : t <= u
  <2> HIDE DEF T
  <2> QED BY <1>1, LeastNat
<1>3. PICK m \in S : t = n - 1 - m
  BY <1>2
<1>4. \A j \in S : j <= m
  <2> SUFFICES ASSUME NEW j \in S PROVE j <= m
    OBVIOUS
  <2>1. n - 1 - j \in T
    OBVIOUS
  <2> QED
    BY <1>2, <1>3, <2>1
<1> QED
  BY <1>4 DEF GreatestOf

(* And a least one.                                                           *)
LEMMA LeastExists ==
    ASSUME NEW n \in Nat, NEW S \in SUBSET (0 .. n), S # {}
    PROVE  Board!Least(S) \in S /\ \A j \in S : Board!Least(S) <= j
<1>1. S \subseteq Nat
  OBVIOUS
<1>2. PICK m \in S : \A j \in S : m <= j
  BY <1>1, LeastNat
<1> QED
  BY <1>2 DEF Board!Least

-----------------------------------------------------------------------------
(* The events the filters leave, and the matches among them.                  *)
LEMMA VisibleFacts ==
    ASSUME Board!TypeOK
    PROVE  /\ Board!Visible \in Seq(Board!Event) /\ Board!Count \in 0 .. Len(events)
           /\ \A text : Board!MatchSet(text) \in SUBSET (0 .. Board!Count - 1)
<1>1. events \in Seq(Board!Event)
  BY DEF Board!TypeOK
<1>2. /\ Board!Visible \in Seq(Board!Event)
      /\ KeptUpTo(events,
                  {e \in Board!Event : Board!Holds(e.repo, filterRepo) /\ e.type \notin hidden},
                  Len(events), Board!Visible)
  BY <1>1, KeepFacts, BoardKeep DEF Board!Visible
<1>3. Len(Board!Visible) \in Nat /\ Len(Board!Visible) <= Len(events)
  BY <1>2 DEF KeptUpTo
<1> QED
  BY <1>1, <1>2, <1>3 DEF Board!Count, Board!MatchSet

(* A step of the search comes to an event that is visible.                    *)
LEMMA StepsFacts ==
    ASSUME Board!TypeOK, NEW d \in {-1, 1}, NEW i \in 1 .. Board!Count
    PROVE  LET start == IF sel < 0 THEN (IF d > 0 THEN -1 ELSE Board!Count)
                        ELSE sel % Board!Count
               a == start + d * i
           IN  Board!Steps(d)[i] =
                 IF a < 0 THEN a + Board!Count ELSE IF a < Board!Count THEN a ELSE a - Board!Count
<1> DEFINE n == Board!Count
           from == IF sel < 0 THEN (IF d > 0 THEN -1 ELSE n) ELSE sel
           start == IF sel < 0 THEN (IF d > 0 THEN -1 ELSE n) ELSE sel % n
           a == start + d * i
<1>1. n \in Nat \ {0} /\ sel \in Int /\ sel >= -1 /\ i \in Int /\ d * i \in Int
  BY VisibleFacts DEF Board!TypeOK
<1>2. Board!Steps(d)[i] = (from + d * i) % n
  BY DEF Board!Steps
<1>3. (from + d * i) % n = a % n /\ start \in -1 .. n
  <2>1. CASE sel < 0
    BY <1>1, <2>1
  <2>2. CASE sel >= 0
    <3> HIDE DEF n
    <3>1. sel \in Nat
      BY <1>1, <2>2
    <3>2. sel % n \in 0 .. n - 1 /\ (sel + d * i) % n = ((sel % n) + d * i) % n
      BY <1>1, <3>1, Rounds
    <3> QED
      BY <1>1, <2>2, <3>2
  <2> QED
    BY <1>1, <2>1, <2>2
<1>4. a \in Int /\ - n <= a /\ a < n + n
  <2>1. start >= 0 \/ d = 1
    BY <1>1, <1>3
  <2>2. start < n \/ d = -1
    BY <1>1, <1>3
  <2> HIDE DEF start
  <2> QED
    BY <1>1, <1>3, <2>1, <2>2
<1> HIDE DEF a, n
<1>5. Board!Steps(d)[i] = IF a < 0 THEN a + n ELSE IF a < n THEN a ELSE a - n
  BY <1>1, <1>2, <1>3, <1>4, Wraps
<1> QED
  BY <1>5 DEF a, n

(* A search stops at the first step that matches.                             *)
LEMMA JumpIs ==
    ASSUME Board!TypeOK, NEW d \in {-1, 1}, NEW i \in 1 .. Board!Count,
           Board!Steps(d)[i] \in Board!MatchSet(query),
           \A j \in 1 .. i - 1 : Board!Steps(d)[j] \notin Board!MatchSet(query)
    PROVE  Board!Jump(d) = Board!Steps(d)[i]
<1> DEFINE hits ==
        {j \in DOMAIN Board!Steps(d) : Board!Steps(d)[j] \in Board!MatchSet(query)}
<1>1. DOMAIN Board!Steps(d) = 1 .. Board!Count /\ Board!Count \in Nat
  BY VisibleFacts DEF Board!Steps
<1>2. i \in hits /\ hits \in SUBSET Int /\ \A j \in hits : i <= j
  BY <1>1
<1>3. Board!Jump(d) = IF hits = {} THEN sel ELSE Board!Steps(d)[Board!Least(hits)]
  BY DEF Board!Jump
<1> HIDE DEF hits
<1>4. Board!Least(hits) = i
  BY <1>2, LeastIn
<1> QED
  BY <1>2, <1>3, <1>4

(* So it comes to the nearest match, over the end if there is none before.    *)
LEMMA JumpFinds == ASSUME Board!TypeOK PROVE Board!JumpIsNearest
<1> DEFINE M == Board!MatchSet(query)
           n == Board!Count
           at == IF sel < 0 THEN sel ELSE sel % n
           after == {i \in M : i > at}
           before == {i \in M : i < at}
<1> SUFFICES ASSUME M # {}
             PROVE  /\ Board!Jump(1) =
                         IF after # {} THEN Board!Least(after) ELSE Board!Least(M)
                    /\ Board!Jump(-1) =
                         IF before # {} THEN GreatestOf(before) ELSE GreatestOf(M)
  BY DEF Board!JumpIsNearest, GreatestOf
<1>1. n \in Nat /\ M \in SUBSET (0 .. n - 1) /\ n # 0
      /\ at \in Int /\ at >= -1 /\ at < n /\ (at < 0 <=> sel < 0)
  <2>1. n \in Nat /\ M \in SUBSET (0 .. n - 1) /\ n # 0 /\ sel \in Int /\ sel >= -1
    BY VisibleFacts DEF Board!TypeOK
  <2> HIDE DEF M, n
  <2>2. sel >= 0 => sel % n \in 0 .. n - 1
    BY <2>1, Rounds
  <2> QED
    BY <2>1, <2>2
<1>2. ASSUME NEW i \in 1 .. n
      PROVE  /\ Board!Steps(1)[i] = IF at + i < n THEN at + i ELSE at + i - n
             /\ at >= 0 => Board!Steps(-1)[i] = IF at - i < 0 THEN at - i + n ELSE at - i
             /\ at < 0 => Board!Steps(-1)[i] = n - i
  <2>1. Board!Steps(1)[i] =
          LET a == (IF sel < 0 THEN -1 ELSE at) + 1 * i
          IN  IF a < 0 THEN a + n ELSE IF a < n THEN a ELSE a - n
    BY StepsFacts
  <2>2. Board!Steps(-1)[i] =
          LET a == (IF sel < 0 THEN n ELSE at) + (-1) * i
          IN  IF a < 0 THEN a + n ELSE IF a < n THEN a ELSE a - n
    BY StepsFacts
  <2> HIDE DEF n, at
  <2> QED
    BY <1>1, <2>1, <2>2
<1>3. \A d \in {-1, 1}, i \in 1 .. n :
        Board!Steps(d)[i] \in M /\ (\A j \in 1 .. i - 1 : Board!Steps(d)[j] \notin M)
          => Board!Jump(d) = Board!Steps(d)[i]
  BY JumpIs
<1> HIDE DEF M, n, at
<1>4. ASSUME NEW d \in {-1, 1}, NEW m \in M, NEW i \in 1 .. n, Board!Steps(d)[i] = m,
             \A j \in 1 .. i - 1 : Board!Steps(d)[j] \notin M
      PROVE  Board!Jump(d) = m
  BY <1>3, <1>4
<1>5. ASSUME after # {} PROVE Board!Jump(1) = Board!Least(after)
  <2> DEFINE m == Board!Least(after)
  <2>1. m \in M /\ m > at /\ \A k \in M : k > at => m <= k
    <3>1. after \in SUBSET (0 .. n)
      <4>1. \A k \in after : k \in 0 .. n
        BY <1>1
      <4> HIDE DEF after
      <4> QED BY <4>1
    <3>2. m \in after /\ \A k \in after : m <= k
      BY <1>1, <1>5, <3>1, LeastExists
    <3> HIDE DEF m
    <3> QED
      BY <1>1, <3>2
  <2> HIDE DEF m
  <2>2. m - at \in 1 .. n /\ Board!Steps(1)[m - at] = m
    BY <1>1, <1>2, <2>1
  <2>3. \A j \in 1 .. (m - at) - 1 : Board!Steps(1)[j] \notin M
    BY <1>1, <1>2, <2>1
  <2>4. Board!Jump(1) = m
    BY <1>4, <2>1, <2>2, <2>3
  <2> QED
    BY <2>4 DEF m
<1>6. ASSUME after = {} PROVE Board!Jump(1) = Board!Least(M)
  <2> DEFINE m == Board!Least(M)
  <2>1. m \in M /\ m <= at /\ \A k \in M : m <= k /\ k <= at
    <3>1. M \in SUBSET (0 .. n)
      BY <1>1
    <3>2. m \in M /\ \A k \in M : m <= k
      BY <1>1, <1>6, <3>1, LeastExists
    <3> HIDE DEF m
    <3> QED
      BY <1>1, <1>6, <3>2
  <2> HIDE DEF m
  <2>2. m - at + n \in 1 .. n /\ Board!Steps(1)[m - at + n] = m
    BY <1>1, <1>2, <1>6, <2>1
  <2>3. \A j \in 1 .. (m - at + n) - 1 : Board!Steps(1)[j] \notin M
    BY <1>1, <1>2, <1>6, <2>1
  <2>4. Board!Jump(1) = m
    BY <1>4, <2>1, <2>2, <2>3
  <2> QED
    BY <2>4 DEF m
<1>7. ASSUME at >= 0, before # {} PROVE Board!Jump(-1) = GreatestOf(before)
  <2> DEFINE m == GreatestOf(before)
  <2>1. m \in M /\ m < at /\ \A k \in M : k < at => k <= m
    <3>1. before \in SUBSET (0 .. n - 1)
      BY <1>1
    <3>2. m \in before /\ \A k \in before : k <= m
      BY <1>1, <1>7, <3>1, GreatestIn
    <3> HIDE DEF m
    <3> QED
      BY <1>1, <3>2
  <2> HIDE DEF m
  <2>2. at - m \in 1 .. n /\ Board!Steps(-1)[at - m] = m
    BY <1>1, <1>2, <1>7, <2>1
  <2>3. \A j \in 1 .. (at - m) - 1 : Board!Steps(-1)[j] \notin M
    BY <1>1, <1>2, <1>7, <2>1
  <2>4. Board!Jump(-1) = m
    BY <1>4, <2>1, <2>2, <2>3
  <2> QED
    BY <2>4 DEF m
<1>8. ASSUME at >= 0, before = {} PROVE Board!Jump(-1) = GreatestOf(M)
  <2> DEFINE m == GreatestOf(M)
  <2>1. m \in M /\ m >= at /\ \A k \in M : k <= m /\ k >= at
    <3>1. M \in SUBSET (0 .. n - 1)
      BY <1>1
    <3>2. m \in M /\ \A k \in M : k <= m
      BY <1>1, <1>8, <3>1, GreatestIn
    <3> HIDE DEF m
    <3> QED
      BY <1>1, <1>8, <3>2
  <2> HIDE DEF m
  <2>2. at - m + n \in 1 .. n /\ Board!Steps(-1)[at - m + n] = m
    BY <1>1, <1>2, <1>8, <2>1
  <2>3. \A j \in 1 .. (at - m + n) - 1 : Board!Steps(-1)[j] \notin M
    BY <1>1, <1>2, <1>8, <2>1
  <2>4. Board!Jump(-1) = m
    BY <1>4, <2>1, <2>2, <2>3
  <2> QED
    BY <2>4 DEF m
<1>9. ASSUME at < 0 PROVE Board!Jump(-1) = GreatestOf(M)
  <2> DEFINE m == GreatestOf(M)
  <2>1. m \in M /\ \A k \in M : k <= m
    <3>1. M \in SUBSET (0 .. n - 1)
      BY <1>1
    <3>2. m \in M /\ \A k \in M : k <= m
      BY <1>1, <1>9, <3>1, GreatestIn
    <3> HIDE DEF m
    <3> QED
      BY <1>1, <3>2
  <2> HIDE DEF m
  <2>2. n - m \in 1 .. n /\ Board!Steps(-1)[n - m] = m
    BY <1>1, <1>2, <1>9, <2>1
  <2>3. \A j \in 1 .. (n - m) - 1 : Board!Steps(-1)[j] \notin M
    BY <1>1, <1>2, <1>9, <2>1
  <2>4. Board!Jump(-1) = m
    BY <1>4, <2>1, <2>2, <2>3
  <2> QED
    BY <2>4 DEF m
<1>10. at < 0 => before = {}
  <2>1. \A i \in M : at < 0 => ~ (i < at)
    BY <1>1
  <2> QED
    BY <2>1
<1>11. at >= 0 \/ at < 0
  BY <1>1
<1> HIDE DEF after, before
<1> QED
  BY <1>5, <1>6, <1>7, <1>8, <1>9, <1>10, <1>11

(* An event is selected only by what also sets the scroll position, which     *)
(* "end" and "esc" drop together with the selection.                          *)
BoardInv == Board!TypeOK /\ (sel >= 0 => scroll >= 0)

(* The window holds the selected event, wherever the scroll position was.     *)
LEMMA WindowShows == ASSUME BoardInv PROVE Board!WindowShowsSelection
<1> DEFINE n == Board!Count
           at == IF sel >= n THEN n - 1 ELSE sel
           from == IF at < scroll THEN at ELSE scroll
           to == IF at >= from + lines THEN at - lines + 1 ELSE from
           top == IF scroll >= 0 /\ at >= 0 THEN IF to < 0 THEN 0 ELSE to
                    ELSE IF n > lines THEN n - lines ELSE 0
           end == IF top + lines < n THEN top + lines ELSE n
<1>1. Board!Shown = at /\ Board!WindowStart = top /\ Board!WindowEnd = end
  BY DEF Board!Shown, Board!WindowStart, Board!WindowEnd
<1>2. n \in Nat /\ sel \in Int /\ sel >= -1 /\ scroll \in Int /\ scroll >= -1
      /\ lines \in Nat \ {0} /\ (sel >= 0 => scroll >= 0)
  BY VisibleFacts DEF Board!TypeOK, BoardInv
<1> HIDE DEF n
<1>3. 0 <= top /\ top <= end /\ end <= n
  BY <1>2
<1>4. ASSUME sel >= 0, n > 0 PROVE at \in top .. end - 1
  <2>1. at >= 0 /\ at < n
    BY <1>2, <1>4
  <2> HIDE DEF at
  <2>2. at \in Int
    BY <1>2 DEF at
  <2> QED
    BY <1>2, <1>4, <2>1, <2>2
<1>5. ASSUME sel < 0 PROVE end = n /\ (top = 0 \/ end - top = lines)
  BY <1>2, <1>5
<1> HIDE DEF at, top, end
<1> QED
  BY <1>1, <1>3, <1>4, <1>5 DEF Board!WindowShowsSelection, n

-----------------------------------------------------------------------------
USE DEF Board!world, Board!filters, Board!selection, Board!vars

(* Tab leaves the name of a live repository, or the text as it was.           *)
LEMMA CycleTypes ==
    ASSUME Board!DashboardAssumption, Board!TypeOK, NEW text \in Board!Text
    PROVE  Board!CycleRepoFilter(text) \in Board!Text
<1> DEFINE A == {r \in live : Board!Holds(r, text)}
           matching == Keep(RepoOrder, A)
<1>1. matching \in Seq(Board!Repo)
  <2> HIDE DEF A
  <2> QED BY KeepFacts, BoardKeep DEF Board!DashboardAssumption
<1>2. Board!CycleRepoFilter(text) =
        IF matching = <<>> THEN text
        ELSE IF \E i \in DOMAIN matching : matching[i] = text
        THEN LET i == CHOOSE i \in DOMAIN matching : matching[i] = text
             IN  matching[(i % Len(matching)) + 1]
        ELSE matching[1]
  BY BoardKeep DEF Board!CycleRepoFilter
<1> HIDE DEF matching
<1>3. CASE matching = <<>>
  BY <1>2, <1>3
<1>4. CASE matching # <<>>
  <2>1. \A i \in 1 .. Len(matching) : matching[i] \in Board!Text
    BY <1>1 DEF Board!Text
  <2>2. Len(matching) \in Nat \ {0} /\ DOMAIN matching = 1 .. Len(matching)
    BY <1>1, <1>4
  <2>3. ASSUME NEW i \in 1 .. Len(matching)
        PROVE  (i % Len(matching)) + 1 \in 1 .. Len(matching)
    BY <2>2
  <2>4. CASE \E i \in DOMAIN matching : matching[i] = text
    BY <1>2, <1>4, <2>1, <2>2, <2>3, <2>4
  <2> QED
    BY <1>2, <1>4, <2>1, <2>2, <2>4
<1> QED
  BY <1>3, <1>4

(* The places where a search may leave the selection.                         *)
LEMMA JumpTypes ==
    ASSUME Board!DashboardAssumption, Board!TypeOK, NEW d \in {-1, 1},
           Board!MatchSet(query) # {}
    PROVE  Board!Jump(d) \in -1 .. MaxEvents - 1
<1> DEFINE hits ==
        {i \in DOMAIN Board!Steps(d) : Board!Steps(d)[i] \in Board!MatchSet(query)}
<1>1. /\ DOMAIN Board!Steps(d) = 1 .. Board!Count /\ Board!Count \in Nat
      /\ Board!Count <= MaxEvents /\ MaxEvents \in Nat
  BY VisibleFacts DEF Board!Steps, Board!TypeOK, Board!DashboardAssumption
<1>2. Board!Jump(d) = IF hits = {} THEN sel ELSE Board!Steps(d)[Board!Least(hits)]
  BY DEF Board!Jump
<1>3. hits # {} => Board!Steps(d)[Board!Least(hits)] \in Board!MatchSet(query)
  <2>1. hits \in SUBSET (0 .. Board!Count)
    BY <1>1
  <2>2. ASSUME hits # {} PROVE Board!Least(hits) \in hits
    <3> HIDE DEF hits
    <3> QED BY <1>1, <2>1, <2>2, LeastExists
  <2> QED
    BY <2>2
<1> HIDE DEF hits
<1>4. Board!MatchSet(query) \in SUBSET (0 .. Board!Count - 1)
  BY VisibleFacts
<1>5. \A i \in Board!MatchSet(query) : i \in -1 .. MaxEvents - 1
  BY <1>1, <1>4
<1>6. sel \in -1 .. MaxEvents - 1
  BY DEF Board!TypeOK
<1> QED
  BY <1>2, <1>3, <1>5, <1>6

(* The place of the first match.                                              *)
LEMMA LeastMatch ==
    ASSUME Board!DashboardAssumption, Board!TypeOK, NEW text, Board!MatchSet(text) # {}
    PROVE  Board!Least(Board!MatchSet(text)) \in 0 .. MaxEvents - 1
<1>1. Board!Count \in Nat /\ Board!Count <= MaxEvents /\ MaxEvents \in Nat
  BY VisibleFacts DEF Board!TypeOK, Board!DashboardAssumption
<1>2. Board!MatchSet(text) \in SUBSET (0 .. Board!Count - 1)
  BY VisibleFacts
<1>3. Board!MatchSet(text) \in SUBSET (0 .. Board!Count)
  BY <1>1, <1>2
<1>4. Board!Least(Board!MatchSet(text)) \in Board!MatchSet(text)
  BY <1>1, <1>3, LeastExists
<1> QED
  BY <1>1, <1>2, <1>4

(* The scroll position for it.                                                *)
LEMMA ScrollTypes ==
    ASSUME Board!DashboardAssumption, NEW i \in -1 .. MaxEvents - 1
    PROVE  Board!ScrollTo(i) \in 0 .. MaxEvents - 1
BY DEF Board!ScrollTo, Board!DashboardAssumption

(* Every key and every message keeps the invariant.                           *)
LEMMA BoardStep ==
    ASSUME Board!DashboardAssumption, BoardInv, [Board!Next]_(Board!vars)
    PROVE  BoardInv'
<1> USE DEF BoardInv, Board!TypeOK
<1>1. ASSUME Board!OpenTypes PROVE BoardInv'
  BY <1>1 DEF Board!OpenTypes, Board!Key, Board!Enter, Board!Text
<1>2. ASSUME Board!CloseTypes PROVE BoardInv'
  BY <1>2 DEF Board!CloseTypes, Board!Key, Board!Leave, Board!Enter, Board!Text
<1>3. ASSUME NEW by \in {-1, 1}, Board!MoveCursor(by) PROVE BoardInv'
  BY <1>3 DEF Board!MoveCursor, Board!Key, Board!Quiet
<1>4. ASSUME Board!ToggleType PROVE BoardInv'
  <2>1. TypeOrder[cursor + 1] \in Board!Type
    <3>1. TypeOrder \in Seq(Board!Type) /\ cursor \in 0 .. Len(TypeOrder) - 1
      BY DEF Board!DashboardAssumption
    <3>2. cursor + 1 \in 1 .. Len(TypeOrder)
      BY <3>1
    <3> QED
      BY <3>1, <3>2
  <2> QED
    BY <1>4, <2>1 DEF Board!ToggleType, Board!Key, Board!Quiet
<1>5. ASSUME Board!OpenSearch \/ Board!OpenFilter PROVE BoardInv'
  BY <1>5 DEF Board!OpenSearch, Board!OpenFilter, Board!Key, Board!Enter, Board!Text
<1>6. ASSUME Board!Edit PROVE BoardInv'
  <2>1. Board!Typed \subseteq Board!Text
    BY DEF Board!Typed, Board!DashboardAssumption
  <2> QED
    BY <1>6, <2>1 DEF Board!Edit, Board!Key
<1>7. ASSUME Board!Abandon PROVE BoardInv'
  BY <1>7 DEF Board!Abandon, Board!Key, Board!Leave, Board!Enter, Board!Text
<1>8. ASSUME Board!ConfirmSearch PROVE BoardInv'
  <2>2. Board!MatchSet(input) # {} => Board!Least(Board!MatchSet(input)) \in 0 .. MaxEvents - 1
    BY LeastMatch
  <2>3. Board!MatchSet(input) # {} =>
          Board!ScrollTo(Board!Least(Board!MatchSet(input))) \in 0 .. MaxEvents - 1
    BY <2>2, ScrollTypes
  <2> QED
    BY <1>8, <2>2, <2>3
       DEF Board!ConfirmSearch, Board!Key, Board!Leave, Board!Enter, Board!Text
<1>9. ASSUME Board!ConfirmFilter PROVE BoardInv'
  BY <1>9 DEF Board!ConfirmFilter, Board!Key, Board!Leave, Board!Enter, Board!Text
<1>10. ASSUME Board!Tab PROVE BoardInv'
  BY <1>10, CycleTypes DEF Board!Tab, Board!Key
<1>11. Board!Count \in 0 .. MaxEvents
  BY VisibleFacts DEF Board!DashboardAssumption
<1>12. ASSUME Board!Down PROVE BoardInv'
  BY <1>11, <1>12 DEF Board!Down, Board!Key, Board!Quiet, Board!DashboardAssumption
<1>13. ASSUME Board!Up PROVE BoardInv'
  BY <1>13 DEF Board!Up, Board!Key, Board!Quiet, Board!DashboardAssumption
<1>14. ASSUME Board!Top PROVE BoardInv'
  BY <1>14 DEF Board!Top, Board!Key, Board!Quiet, Board!DashboardAssumption
<1>15. ASSUME Board!Bottom PROVE BoardInv'
  BY <1>15 DEF Board!Bottom, Board!Key, Board!Quiet, Board!DashboardAssumption
<1>16. ASSUME NEW d \in {-1, 1}, Board!NextMatch(d) PROVE BoardInv'
  <2>1. sel' \in -1 .. MaxEvents - 1 /\ scroll' \in 0 .. MaxEvents - 1
    <3>1. /\ sel' = Board!Jump(d) /\ scroll' = Board!ScrollTo(sel')
          /\ Board!MatchSet(query) # {}
      BY <1>16 DEF Board!NextMatch
    <3>2. sel' \in -1 .. MaxEvents - 1
      BY <3>1, JumpTypes
    <3> QED
      BY <3>1, <3>2, ScrollTypes
  <2> QED
    BY <1>16, <2>1 DEF Board!NextMatch, Board!Key, Board!Quiet
<1>17. ASSUME Board!Expand PROVE BoardInv'
  BY <1>17 DEF Board!Expand, Board!Key, Board!Quiet
<1>18. ASSUME Board!Escape PROVE BoardInv'
  <2>1. Empty \in Board!Text /\ -1 \in -1 .. MaxEvents - 1
    BY DEF Board!Text, Board!DashboardAssumption
  <2>2. /\ sel' \in {sel, -1} /\ (sel' = sel => scroll' = scroll)
        /\ scroll' \in {scroll, -1}
    BY <1>18 DEF Board!Escape
  <2>3. filterRepo' \in {filterRepo, Empty} /\ query' \in {query, Empty}
    BY <1>18 DEF Board!Escape
  <2>4. /\ expanded' \in {expanded, FALSE}
        /\ UNCHANGED <<hidden, cursor, Board!world, mode, input, running>>
    BY <1>18, Zenon DEF Board!Escape, Board!Key, Board!Quiet
  <2>5. {expanded, running}' \subseteq BOOLEAN
    <3>1. {expanded, running} \subseteq BOOLEAN
      OBVIOUS
    <3> QED
      BY <2>4, <3>1, Zenon
  <2>6. /\ filterRepo' \in Board!Text /\ query' \in Board!Text
        /\ sel' \in -1 .. MaxEvents - 1
        /\ scroll' \in -1 .. MaxEvents - 1 /\ (sel' >= 0 => scroll' >= 0)
    BY <2>1, <2>2, <2>3
  <2> QED
    BY <2>4, <2>5, <2>6
<1>19. ASSUME Board!Quit PROVE BoardInv'
  BY <1>19 DEF Board!Quit, Board!Key
<1>20. ASSUME Board!NewEvent PROVE BoardInv'
  <2>1. PICK r \in Board!Repo, t \in Board!Type :
          events' = Append(IF Len(events) >= MaxEvents THEN Tail(events) ELSE events,
                           [repo |-> r, type |-> t])
    BY <1>20 DEF Board!NewEvent
  <2>2. events' \in Seq(Board!Event) /\ Len(events') <= MaxEvents
    <3>1. [repo |-> r, type |-> t] \in Board!Event
      BY DEF Board!Event
    <3>2. CASE Len(events) >= MaxEvents
      <4>1. /\ events # <<>> /\ Tail(events) \in Seq(Board!Event)
            /\ Len(Tail(events)) = Len(events) - 1
        BY <3>2 DEF Board!DashboardAssumption
      <4>2. events' = Append(Tail(events), [repo |-> r, type |-> t])
        BY <2>1, <3>2
      <4> QED
        BY <3>1, <4>1, <4>2
    <3>3. CASE ~ (Len(events) >= MaxEvents)
      <4>1. events' = Append(events, [repo |-> r, type |-> t])
        BY <2>1, <3>3
      <4> QED
        BY <3>1, <3>3, <4>1 DEF Board!DashboardAssumption
    <3> QED
      BY <3>2, <3>3
  <2> QED
    BY <1>20, <2>2 DEF Board!NewEvent, Board!Untouched
<1>21. ASSUME Board!LiveStatus PROVE BoardInv'
  BY <1>21 DEF Board!LiveStatus, Board!Untouched
<1>22. ASSUME Board!Resize PROVE BoardInv'
  BY <1>22 DEF Board!Resize, Board!Untouched
<1>23. CASE UNCHANGED Board!vars
  BY <1>23
<1> QED
  BY <1>1, <1>2, <1>3, <1>4, <1>5, <1>6, <1>7, <1>8, <1>9, <1>10, <1>12, <1>13,
     <1>14, <1>15, <1>16, <1>17, <1>18, <1>19, <1>20, <1>21, <1>22, <1>23
     DEF Board!Next

(* The invariant of the dashboard.                                            *)
LEMMA BoardInvHolds == ASSUME Board!DashboardAssumption PROVE Board!Spec => []BoardInv
<1>1. Board!Init => BoardInv
  <2> SUFFICES ASSUME Board!Init PROVE BoardInv
    OBVIOUS
  <2>1. /\ 0 \in 0 .. Len(TypeOrder) - 1 /\ MaxLines \in 1 .. MaxLines
        /\ MaxEvents \in Nat \ {0}
    <3>1. TypeOrder \in Seq(Board!Type) /\ TypeOrder # <<>>
      BY DEF Board!DashboardAssumption
    <3>2. Len(TypeOrder) \in Nat \ {0}
      BY <3>1
    <3> QED
      BY <3>2 DEF Board!DashboardAssumption
  <2>2. Empty \in Board!Text /\ <<>> \in Seq(Board!Event) /\ Len(<<>>) = 0
    BY DEF Board!Text
  <2>3. {expanded, running} \subseteq BOOLEAN
    BY Zenon DEF Board!Init
  <2> QED
    BY <2>1, <2>2, <2>3 DEF Board!Init, BoardInv, Board!TypeOK
<1>2. BoardInv /\ [Board!Next]_(Board!vars) => BoardInv'
  BY BoardStep
<1> QED
  BY <1>1, <1>2, PTL DEF Board!Spec

(* What the panel shows follows from it.                                      *)
LEMMA BoardRight == ASSUME BoardInv PROVE Board!BoardIsRight
BY WindowShows, JumpFinds DEF Board!BoardIsRight, BoardInv

-----------------------------------------------------------------------------
(* The loading of a configuration.                                            *)


(* What was loaded is what Load returns for the file and the environment.     *)
ConfigInv ==
    /\ file \in Config!Source /\ env \in Config!Source /\ exists \in BOOLEAN
    /\ phase = "loaded" => cfg = Config!LoadOf(file, env, exists) /\ cfg # Unset

Settings == {"max_runners", "executor", "image", "instance_id", "auth", "repos"}

(* A file that is missing sets nothing.                                       *)
LEMMA NoFileIsSource == Config!NoFile \in Config!Source
BY DEF Config!NoFile, Config!Source, Config!Defaults

(* The setting that wins comes from one of the three places.                  *)
LEMMA OverlayTypes ==
    ASSUME Config!ConfigurationAssumption, NEW f \in Config!Source, NEW e \in Config!Source
    PROVE  /\ Config!Overlay(f, e, "max_runners") \in Nat
           /\ Config!Overlay(f, e, "repos") \in SUBSET Config!RepoEntry
           /\ Config!Overlay(f, e, "auth") \in BOOLEAN
<1>1. ASSUME NEW g \in Config!Source
      PROVE  /\ g["max_runners"] \in {Unset, 0} /\ g["auth"] \in {Unset, TRUE}
             /\ g["repos"] \in {Unset} \cup Config!RepoLists
  BY DEF Config!Source
<1>2. /\ Config!Defaults["max_runners"] = CPUs /\ Config!Defaults["auth"] = FALSE
      /\ Config!Defaults["repos"] = {}
  BY DEF Config!Defaults
<1>3. Config!Overlay(f, e, "max_runners") \in Nat
  <2>1. Config!Overlay(f, e, "max_runners") \in {0, CPUs}
    BY <1>1, <1>2, Zenon DEF Config!Overlay
  <2> QED
    BY <2>1 DEF Config!ConfigurationAssumption
<1>4. Config!Overlay(f, e, "repos") \in SUBSET Config!RepoEntry
  BY <1>1, <1>2 DEF Config!Overlay, Config!RepoLists
<1>5. Config!Overlay(f, e, "auth") \in BOOLEAN
  BY <1>1, <1>2, Zenon DEF Config!Overlay
<1> QED
  BY <1>3, <1>4, <1>5

(* A configuration that passes the validation can run.                        *)
LEMMA LoadOfAccepts ==
    ASSUME Config!ConfigurationAssumption, NEW f \in Config!Source,
           NEW e \in Config!Source, NEW there \in BOOLEAN,
           NEW c, c = Config!LoadOf(f, e, there), c # Unset
    PROVE  /\ c.max_runners \in Nat \ {0}
           /\ c.repos # {} /\ \A r \in c.repos : r.name \in Name /\ (r.token \/ c.auth)
           /\ \/ c.executor = "subprocess"
              \/ c.executor = "docker" /\ "" \notin {c.image, c.instance_id}
<1> DEFINE g == IF there THEN f ELSE Config!NoFile
<1>1. g \in Config!Source
  BY NoFileIsSource
<1> HIDE DEF g
<1>2. c = [s \in Settings |-> Config!Overlay(g, e, s)] /\ Config!Validate(c)
  BY DEF Config!LoadOf, Settings, Config!Defaults, g
<1>3. c.max_runners \in Nat /\ c.repos \in SUBSET Config!RepoEntry /\ c.auth \in BOOLEAN
  BY <1>1, <1>2, OverlayTypes DEF Settings
<1>4. \A r \in Config!RepoEntry : (r.name \in Name \/ r.name = "") /\ r.token \in BOOLEAN
  <2>1. \A r \in [name : Name, token : BOOLEAN] : r.name \in Name /\ r.token \in BOOLEAN
    OBVIOUS
  <2>2. /\ [name |-> "", token |-> TRUE].name = ""
        /\ [name |-> "", token |-> TRUE].token \in BOOLEAN
    OBVIOUS
  <2> QED
    BY <2>1, <2>2 DEF Config!RepoEntry
<1>5. \A r \in c.repos : r.name \in Name /\ (r.token \/ c.auth)
  BY <1>2, <1>3, <1>4 DEF Config!Validate, Config!HasSource
<1>6. c.repos # {} /\ c.max_runners >= 1
  BY <1>2 DEF Config!Validate
<1>7. \/ c.executor = "subprocess"
      \/ c.executor = "docker" /\ "" \notin {c.image, c.instance_id}
  BY <1>2 DEF Config!Validate
<1>8. c.max_runners \in Nat \ {0}
  BY <1>3, <1>6
<1> QED
  BY <1>5, <1>6, <1>7, <1>8, Zenon

(* The invariant of the configuration.                                        *)
LEMMA ConfigInvHolds ==
    ASSUME Config!ConfigurationAssumption
    PROVE  Config!Spec => []ConfigInv
<1>1. Config!Init => ConfigInv
  BY DEF Config!Init, ConfigInv
<1>2. ConfigInv /\ [Config!Next]_(Config!vars) => ConfigInv'
  BY DEF ConfigInv, Config!Next, Config!Load, Config!vars
<1> QED
  BY <1>1, <1>2, PTL DEF Config!Spec

(* What Load promises follows from it.                                        *)
LEMMA ConfigIsRight ==
    ASSUME Config!ConfigurationAssumption, ConfigInv
    PROVE  Config!LoadIsRight
<1>1. Config!AcceptedRuns
  BY LoadOfAccepts DEF Config!AcceptedRuns, ConfigInv
<1>2. Config!EnvironmentWins
  <2> DEFINE rest ==
        [s \in DOMAIN Config!Defaults |-> IF env[s] # Unset THEN Unset ELSE file[s]]
  <2>1. ASSUME NEW s \in DOMAIN Config!Defaults
        PROVE  Config!Overlay(IF exists THEN file ELSE Config!NoFile, env, s)
                 = Config!Overlay(IF exists THEN rest ELSE Config!NoFile, env, s)
    BY <2>1 DEF Config!Overlay
  <2> QED
    BY <2>1 DEF Config!EnvironmentWins, Config!LoadOf
<1>3. Config!FileIsOptional
  BY DEF Config!FileIsOptional, Config!LoadOf, Config!FileMissing, Config!Validate
<1> QED
  BY <1>1, <1>2, <1>3 DEF Config!LoadIsRight

-----------------------------------------------------------------------------
(* The tokens of the clients.                                                 *)


TokenInv ==
    /\ Token!TypeOK
    /\ value = [slot \in Token!Slot |-> value[slot]]
    /\ client = [r \in Token!Repo |-> client[r]]

(* A smallest number is the one Least chooses.                                *)
LEMMA FirstPlaceIs ==
    ASSUME NEW S \in SUBSET Nat, NEW i \in S, \A j \in S : i <= j
    PROVE  Token!Least(S) = i
<1>1. \A k \in S : (\A j \in S : k <= j) => k = i
  OBVIOUS
<1> QED
  BY <1>1 DEF Token!Least

(* A repository's token is in the first of its six places that holds          *)
(* something.                                                                 *)
LEMMA TokenIsFirst ==
    ASSUME NEW r \in Token!Repo
    PROVE  LET full == {i \in 1 .. 6 : Token!Full(Token!Place(r, i)[1], Token!Place(r, i)[2])}
           IN  Token!TokenForRepo(r) =
                 IF full = {} THEN Fails ELSE value[Token!Place(r, Token!Least(full))]
<1> DEFINE P(i) == Token!Full(Token!Place(r, i)[1], Token!Place(r, i)[2])
           S == {i \in 1 .. 6 : P(i)}
           V(i) == value[Token!Place(r, i)]
<1>1. /\ Token!Place(r, 1) = <<r, "env">> /\ Token!Place(r, 2) = <<r, "keychain">>
      /\ Token!Place(r, 3) = <<r, "file">> /\ Token!Place(r, 4) = <<Global, "env">>
      /\ Token!Place(r, 5) = <<Global, "keychain">>
      /\ Token!Place(r, 6) = <<Global, "file">>
  BY DEF Token!Place, Token!Order
<1>2. /\ Token!Resolve(r) = IF P(1) THEN V(1) ELSE IF P(2) THEN V(2)
                      ELSE IF P(3) THEN V(3) ELSE Nothing
      /\ Token!Resolve(Global) = IF P(4) THEN V(4) ELSE IF P(5) THEN V(5)
                           ELSE IF P(6) THEN V(6) ELSE Nothing
  BY <1>1 DEF Token!Resolve
<1>3. \A i \in 1 .. 6 : P(i) => V(i) # Nothing
  <2>1. \A i \in 1 .. 6 : V(i) = value[<<Token!Place(r, i)[1], Token!Place(r, i)[2]>>]
    BY <1>1
  <2> QED
    BY <2>1 DEF Token!Full
<1> HIDE DEF P, V
<1>4. S \in SUBSET Nat
  OBVIOUS
<1>5. ASSUME NEW i \in 1 .. 6, P(i), \A j \in 1 .. i - 1 : ~ P(j)
      PROVE  S # {} /\ Token!Least(S) = i
  <2>1. i \in S /\ \A j \in S : i <= j
    BY <1>5
  <2> HIDE DEF S
  <2> QED
    BY <1>4, <2>1, FirstPlaceIs
<1>6. Token!TokenForRepo(r) = LET own == Token!Resolve(r)
                            found == IF own = Nothing THEN Token!Resolve(Global) ELSE own
                        IN  IF found = Nothing THEN Fails ELSE found
  BY DEF Token!TokenForRepo
<1>7. ASSUME NEW i \in 1 .. 6, P(i), \A j \in 1 .. i - 1 : ~ P(j)
      PROVE  Token!TokenForRepo(r) = V(i)
  <2>1. CASE i = 1 BY <1>2, <1>3, <1>6, <1>7, <2>1
  <2>2. CASE i = 2
    <3>1. ~ P(1)
      BY <1>7, <2>2
    <3> QED BY <1>2, <1>3, <1>6, <1>7, <2>2, <3>1
  <2>3. CASE i = 3
    <3>1. ~ P(1) /\ ~ P(2)
      BY <1>7, <2>3
    <3> QED BY <1>2, <1>3, <1>6, <1>7, <2>3, <3>1
  <2>4. CASE i = 4
    <3>1. ~ P(1) /\ ~ P(2) /\ ~ P(3)
      BY <1>7, <2>4
    <3> QED BY <1>2, <1>3, <1>6, <1>7, <2>4, <3>1
  <2>5. CASE i = 5
    <3>1. ~ P(1) /\ ~ P(2) /\ ~ P(3) /\ ~ P(4)
      BY <1>7, <2>5
    <3> QED BY <1>2, <1>3, <1>6, <1>7, <2>5, <3>1
  <2>6. CASE i = 6
    <3>1. ~ P(1) /\ ~ P(2) /\ ~ P(3) /\ ~ P(4) /\ ~ P(5)
      BY <1>7, <2>6
    <3> QED BY <1>2, <1>3, <1>6, <1>7, <2>6, <3>1
  <2> QED
    BY <2>1, <2>2, <2>3, <2>4, <2>5, <2>6
<1>8. CASE S = {}
  <2>1. ~ P(1) /\ ~ P(2) /\ ~ P(3) /\ ~ P(4) /\ ~ P(5) /\ ~ P(6)
    BY <1>8
  <2>2. Token!TokenForRepo(r) = Fails
    BY <1>2, <1>6, <2>1
  <2> QED
    BY <1>8, <2>2 DEF P
<1>9. CASE S # {}
  <2>1. \E i \in 1 .. 6 : P(i) /\ \A j \in 1 .. i - 1 : ~ P(j)
    <3>1. P(1) \/ P(2) \/ P(3) \/ P(4) \/ P(5) \/ P(6)
      BY <1>9
    <3> QED
      BY <3>1
  <2>2. PICK i \in 1 .. 6 : P(i) /\ \A j \in 1 .. i - 1 : ~ P(j)
    BY <2>1
  <2> QED
    BY <1>5, <1>7, <2>2 DEF P, V
<1> QED
  BY <1>8, <1>9

(* A token is what some place holds: the empty value, an error or its own.    *)
LEMMA TokenIsOwn ==
    ASSUME Token!TokensAssumption, TokenInv, NEW r \in Token!Repo
    PROVE  Token!TokenForRepo(r) \in {Fails} \cup ({r, Global} \X Token!Kind)
<1>1. ASSUME NEW o \in {r, Global}
      PROVE  Token!Resolve(o) \in {Nothing, Fails} \cup ({r, Global} \X Token!Kind)
  <2>1. o \in Owner
    BY DEF Token!Repo, Token!TokensAssumption
  <2>2. \A k \in Token!Kind : value[<<o, k>>] \in {Nothing, Fails, <<o, k>>}
    <3>1. ASSUME NEW k \in Token!Kind PROVE value[<<o, k>>] \in Token!Holds(<<o, k>>)
      BY <2>1 DEF TokenInv, Token!TypeOK, Token!Slot
    <3> QED
      BY <3>1 DEF Token!Holds
  <2>3. Token!Resolve(o) = Nothing \/ \E k \in Token!Kind : Token!Resolve(o) = value[<<o, k>>]
    BY DEF Token!Resolve, Token!Kind
  <2>4. CASE Token!Resolve(o) = Nothing
    BY <2>4
  <2>5. ASSUME NEW k \in Token!Kind, Token!Resolve(o) = value[<<o, k>>]
        PROVE  Token!Resolve(o) \in {Nothing, Fails} \cup ({r, Global} \X Token!Kind)
    <3>1. <<o, k>> \in {r, Global} \X Token!Kind
      OBVIOUS
    <3> QED
      BY <2>2, <2>5, <3>1
  <2> QED
    BY <2>3, <2>4, <2>5
<1> QED
  BY <1>1 DEF Token!TokenForRepo

(* Every change of a place and every new client keeps the types.              *)
LEMMA TokenStep ==
    ASSUME Token!TokensAssumption, TokenInv, [Token!Next]_(Token!vars)
    PROVE  TokenInv'
<1>1. ASSUME NEW slot \in Token!Slot, Token!Change(slot) PROVE TokenInv'
  BY <1>1 DEF Token!Change, TokenInv, Token!TypeOK
<1>2. ASSUME NEW r \in Token!Repo, Token!NewClient(r) PROVE TokenInv'
  <2>1. /\ client' = [client EXCEPT ![r] = Token!TokenForRepo(r)]
        /\ Token!TokenForRepo(r) \in {Fails} \cup ({r, Global} \X Token!Kind)
    BY <1>2, TokenIsOwn DEF Token!NewClient
  <2> QED
    BY <1>2, <2>1 DEF Token!NewClient, TokenInv, Token!TypeOK
<1>3. CASE UNCHANGED Token!vars
  BY <1>3 DEF TokenInv, Token!TypeOK, Token!vars
<1> QED
  BY <1>1, <1>2, <1>3 DEF Token!Next

(* The invariant of the tokens.                                               *)
LEMMA TokenInvHolds == ASSUME Token!TokensAssumption PROVE Token!Spec => []TokenInv
<1>1. Token!Init => TokenInv
  BY DEF Token!Init, TokenInv, Token!TypeOK, Token!Holds
<1>2. TokenInv /\ [Token!Next]_(Token!vars) => TokenInv'
  BY TokenStep
<1> QED
  BY <1>1, <1>2, PTL DEF Token!Spec

(* A new client takes the token of the first place that has one.              *)
LEMMA BestTokenHolds ==
    ASSUME Token!TokensAssumption
    PROVE  Token!Spec => Token!BestToken
<1> DEFINE Best(r) ==
      LET full == {i \in 1 .. 6 : Token!Full(Token!Place(r, i)[1], Token!Place(r, i)[2])}
      IN  client'[r] = IF full = {} THEN Fails ELSE value[Token!Place(r, Token!Least(full))]
<1>1. ASSUME TokenInv, [Token!Next]_(Token!vars)
      PROVE  [\A r \in Token!Repo : client'[r] # client[r] => Best(r)]_client
  <2>1. ASSUME NEW q \in Token!Repo, Token!NewClient(q), NEW r \in Token!Repo,
               client'[r] # client[r]
        PROVE  Best(r)
    <3>1. q = r /\ client'[r] = Token!TokenForRepo(r)
      BY <1>1, <2>1 DEF Token!NewClient, TokenInv
    <3> QED
      BY <3>1, TokenIsFirst
  <2>2. ASSUME NEW slot \in Token!Slot, Token!Change(slot) PROVE UNCHANGED client
    BY <2>2 DEF Token!Change
  <2> HIDE DEF Best
  <2> QED
    BY <1>1, <2>1, <2>2 DEF Token!Next, Token!vars
<1> QED
  BY <1>1, TokenInvHolds, PTL DEF Token!Spec, Token!BestToken

-----------------------------------------------------------------------------
(* Their composition: a step of one is a stutter of the others.               *)
HIDE DEF Init, Next, Server!Init, Server!Next, Command!Init, Command!Next, Board!Init,
         Board!Next, Config!Init, Config!Next, Token!Init, Token!Next

(* A step of the terminal is one of a component, or none of it.               *)
LEMMA StepOfOne ==
    [TerminalNext]_terminalVars =>
        /\ [Next]_vars /\ [Server!Next]_(Server!vars) /\ [Command!Next]_(Command!vars)
        /\ [Board!Next]_(Board!vars) /\ [Config!Next]_(Config!vars) /\ [Token!Next]_(Token!vars)
<1>1. UNCHANGED trustVars => UNCHANGED vars
  BY DEF trustVars, vars
<1>2. UNCHANGED serverVars => UNCHANGED Server!vars
  BY DEF serverVars, Server!vars
<1>3. UNCHANGED commandVars => UNCHANGED Command!vars
  BY DEF commandVars, Command!vars, Command!world, Command!daemon, Command!command
<1>4. UNCHANGED boardVars => UNCHANGED Board!vars
  BY DEF boardVars, Board!vars, Board!world, Board!filters, Board!selection
<1>5. UNCHANGED configVars => UNCHANGED Config!vars
  BY DEF configVars, Config!vars
<1>6. UNCHANGED tokenVars => UNCHANGED Token!vars
  BY DEF tokenVars, Token!vars
<1> HIDE DEF trustVars, serverVars, commandVars, boardVars, configVars, tokenVars, vars,
             Server!vars, Command!vars, Board!vars, Config!vars, Token!vars
<1> QED
  BY <1>1, <1>2, <1>3, <1>4, <1>5, <1>6 DEF TerminalNext, terminalVars

(* It begins where each of them may.                                          *)
LEMMA InitOfEach ==
    TerminalInit =>
        /\ Init /\ Server!Init /\ Command!Init
        /\ Board!Init /\ Config!Init /\ Token!Init
BY DEF TerminalInit, TrustRests, ConfigRests, TokenRests

(* A behaviour of the terminal is one of each component.                      *)
THEOREM TerminalIsEach ==
    TerminalSpec =>
        /\ Spec /\ Server!Spec /\ Command!Spec
        /\ Board!Spec /\ Config!Spec /\ Token!Spec
BY StepOfOne, InitOfEach, PTL
   DEF TerminalSpec, Spec, Server!Spec, Command!Spec, Board!Spec, Config!Spec, Token!Spec

(* What is assumed of their constants.                                        *)
LEMMA Assumed ==
    /\ Server!IdentityAssumption /\ Command!CommandsAssumption /\ Board!DashboardAssumption
    /\ Config!ConfigurationAssumption /\ Token!TokensAssumption
BY TerminalAssumption DEF TerminalAssumption

(* A daemon that serves has its pair on disk, and a host shows one identity   *)
(* until both its files are gone, wherever its daemon ends while it writes    *)
(* them (tls.go:29-122).                                                      *)
THEOREM IdentityAlwaysStable == TerminalSpec => IdentityStable
BY StableIdentity, Assumed, TerminalIsEach, PTL DEF IdentityStable

(* Any number of clients verify and save at once, and any write may fail      *)
(* half-way: the file that each new host truncates and writes over implements *)
(* a store that decides in one step and forgets a host only where a save      *)
(* breaks off or saves race (tls.go:176-226).                                 *)
THEOREM FirstTrustHolds == TerminalSpec => TrustOnFirstUse
BY TrustFirst, TerminalIsEach, PTL

(* Whatever daemon and GitHub do meanwhile, a report from the API has a row   *)
(* for each repository that was asked for, a filtered list shows no other,    *)
(* and a live answer during which nothing changed adds up                     *)
(* (query.go:40-103, runtime.go:101-116, cmd/runners.go).                     *)
THEOREM AnswersAlwaysTrue == TerminalSpec => []AnswersAreTrue
<1>1. Command!Spec => []CommandInv
  BY CommandInvHolds, Assumed
<1>2. CommandInv => AnswersAreTrue
  BY AnswersTrue, Assumed DEF AnswersAreTrue
<1> QED
  BY <1>1, <1>2, TerminalIsEach, PTL

(* The selected event is one the window shows, and the search comes to the    *)
(* nearest match on either side, over the end too (tui.go:1130-1260).         *)
THEOREM BoardAlwaysRight == TerminalSpec => []BoardIsRight
<1>1. Board!Spec => []BoardInv
  BY BoardInvHolds, Assumed
<1>2. BoardInv => BoardIsRight
  BY BoardRight, Assumed DEF BoardIsRight
<1> QED
  BY <1>1, <1>2, TerminalIsEach, PTL

(* A configuration that Load returns can run, the environment wins over the   *)
(* file, and the file is optional (config.go:60-190).                         *)
THEOREM LoadAlwaysRight == TerminalSpec => []LoadIsRight
<1>1. Config!Spec => []ConfigInv
  BY ConfigInvHolds, Assumed
<1>2. ConfigInv => LoadIsRight
  BY ConfigIsRight, Assumed DEF LoadIsRight
<1> QED
  BY <1>1, <1>2, TerminalIsEach, PTL

(* A client that is made anew has the token of the first of the six places    *)
(* that holds something (tokens.go:60-110).                                   *)
THEOREM AlwaysBestToken == TerminalSpec => BestToken
<1>1. Token!Spec => []TokenInv /\ Token!BestToken
  BY TokenInvHolds, BestTokenHolds, Assumed
<1>2. TokenInv => (subject = "token" => Token!TypeOK)
  BY DEF TokenInv
<1> QED
  BY <1>1, <1>2, TerminalIsEach, PTL DEF BestToken
=============================================================================
