----------------------------- MODULE TrustStore -----------------------------
(* What clients know of control servers (internal/control/tls.go): the        *)
(* known_hosts file of one user, and the verification of a server by trust on *)
(* first use.  Any number of clients run at once.  SaveKnownHost reads the    *)
(* file, then os.WriteFile truncates and writes it; nothing is locked, and a  *)
(* write may fail when the old contents are gone.                             *)
EXTENDS Naturals

CONSTANTS
    Host,        \* servers
    Client,      \* client processes of one user
    Shows,       \* the fingerprints of the certificates each host may show
    None, Torn   \* no entry; an entry cut short

Fingerprint == UNION {Shows[h] : h \in Host}

ASSUME TrustStoreAssumption ==
    /\ DOMAIN Shows = Host
    /\ None \notin Fingerprint /\ Torn \notin Fingerprint /\ None # Torn

VARIABLES
    known,       \* the known_hosts file
    pc,          \* where the handshake of each client is
    host,        \* the server it talks to
    seen,        \* the fingerprint it was shown
    pin,         \* --trust-fingerprint, or None
    loaded,      \* the entries that SaveKnownHost has read
    racing       \* history: the clients whose save another one disturbed

vars == <<known, pc, host, seen, pin, loaded, racing>>

NoHosts == [h \in Host |-> None]
Goto(c, place) == pc' = [pc EXCEPT ![c] = place]
Final == {"idle", "trusted", "refused", "failed"}

Init ==
    /\ known = NoHosts
    /\ pc = [c \in Client |-> "idle"]
    /\ host \in [Client -> Host]
    /\ seen = [c \in Client |-> None]
    /\ pin = [c \in Client |-> None]
    /\ loaded = [c \in Client |-> NoHosts]
    /\ racing = {}

-----------------------------------------------------------------------------
(* TOFUTLSConfig and VerifyOrTrustFingerprint.                                *)
Handshake(c, h, f, p) ==
    /\ pc[c] \in Final
    /\ f \in Shows[h]
    /\ Goto(c, "shown")
    /\ host' = [host EXCEPT ![c] = h]
    /\ seen' = [seen EXCEPT ![c] = f]
    /\ pin' = [pin EXCEPT ![c] = p]
    /\ UNCHANGED <<known, loaded, racing>>

VerifyPinned(c) ==
    /\ pc[c] = "shown" /\ pin[c] # None
    /\ Goto(c, IF seen[c] = pin[c] THEN "trusted" ELSE "refused")
    /\ UNCHANGED <<known, host, seen, pin, loaded, racing>>

Verify(c) ==
    LET stored == known[host[c]] IN
    /\ pc[c] = "shown" /\ pin[c] = None
    /\ \/ stored = None /\ Goto(c, "save")
       \/ stored = seen[c] /\ Goto(c, "trusted")
       \/ stored \notin {None, seen[c]} /\ Goto(c, "refused")
    /\ UNCHANGED <<known, host, seen, pin, loaded, racing>>

-----------------------------------------------------------------------------
(* SaveKnownHost.  Between Reload and the end of its write a client rests on  *)
(* what it read; a save races if another client is there too, or has saved    *)
(* this host since it was found unknown.                                      *)
Rewriting == {c \in Client : pc[c] \in {"truncate", "write"}}

Reload(c) ==
    /\ pc[c] = "save"
    /\ loaded' = [loaded EXCEPT ![c] = known]
    /\ Goto(c, "truncate")
    /\ racing' = IF Rewriting = {} /\ known[host[c]] \in {None, seen[c]}
                 THEN racing ELSE Rewriting \union {c}
    /\ UNCHANGED <<known, host, seen, pin>>

Truncate(c) ==
    /\ pc[c] = "truncate"
    /\ known' = NoHosts
    /\ Goto(c, "write")
    /\ UNCHANGED <<host, seen, pin, loaded, racing>>

Entries(c) == [loaded[c] EXCEPT ![host[c]] = seen[c]]

(* The save is over, and with it what the client had in memory.               *)
EndSave(c, place) ==
    /\ pc[c] = "write"
    /\ Goto(c, place)
    /\ loaded' = [loaded EXCEPT ![c] = NoHosts]
    /\ racing' = racing \ {c}
    /\ UNCHANGED <<host, seen, pin>>

WriteUnnoticed(c) == \* wrong: the error of the write is not returned
    /\ EndSave(c, "trusted")
    /\ known' \in {known, Entries(c)}

(* Of what another client wrote in between, lines of a longer file stay       *)
(* behind, and the last line of a host counts.                                *)
Leftovers == SUBSET {h \in Host : known[h] # None}

Write(c) ==
    /\ EndSave(c, "trusted")
    /\ \E left \in Leftovers :
         known' = [h \in Host |-> IF h \in left THEN known[h] ELSE Entries(c)[h]]

(* An error after the truncation, or the end of the process: some lines are   *)
(* written, the last of them perhaps in part.                                 *)
WriteFails(c) ==
    /\ EndSave(c, "failed")
    /\ \E left \in Leftovers, whole \in SUBSET Host, part \in {{}} \union {{h} : h \in Host} :
         known' = [h \in Host |->
                     IF h \in left THEN known[h]
                     ELSE IF h \in whole THEN Entries(c)[h]
                     ELSE IF h \in part /\ Entries(c)[h] # None THEN Torn
                     ELSE None]

(* The file cannot be read or opened, or the client is killed before it is.   *)
ClientFails(c) ==
    /\ pc[c] \in {"shown", "save", "truncate"}
    /\ Goto(c, "failed")
    /\ loaded' = [loaded EXCEPT ![c] = NoHosts]
    /\ racing' = racing \ {c}
    /\ UNCHANGED <<known, host, seen, pin>>

-----------------------------------------------------------------------------
ClientStep(c) ==
    \/ VerifyPinned(c) \/ Verify(c)
    \/ Reload(c) \/ Truncate(c) \/ Write(c) \/ WriteFails(c)
    \/ ClientFails(c)

Next ==
    \E c \in Client :
        \/ ClientStep(c)
        \/ \E h \in Host, f \in Fingerprint, p \in Fingerprint \union {None} :
               Handshake(c, h, f, p)

Spec == Init /\ [][Next]_vars

-----------------------------------------------------------------------------
(* Every variable keeps its type; a host's entry is one of its fingerprints,  *)
(* a part of one, or none; and a client past the handshake was shown one      *)
(* (tls.go:159-201, 235-244).                                                 *)
TypeOK ==
    /\ known \in [Host -> Fingerprint \union {None, Torn}]
    /\ \A h \in Host : known[h] \in Shows[h] \union {None, Torn}
    /\ pc \in [Client -> Final \union {"shown", "save", "truncate", "write"}]
    /\ host \in [Client -> Host]
    /\ seen \in [Client -> Fingerprint \union {None}]
    /\ \A c \in Client : pc[c] # "idle" => seen[c] \in Shows[host[c]]
    /\ pin \in [Client -> Fingerprint \union {None}]
    /\ DOMAIN loaded = Client
    /\ \A c \in Client :
         DOMAIN loaded[c] = Host /\ \A h \in Host : loaded[c][h] \in Shows[h] \union {None, Torn}
    /\ racing \subseteq Client

(* The trusted fingerprints are those of the file; while a single client has  *)
(* emptied it, those that client has read.  A client with a pinned            *)
(* fingerprint does not ask the file.                                         *)
Emptying == {c \in Client : pc[c] = "write"}
Trusted ==
    IF racing = {} /\ Emptying # {} THEN loaded[CHOOSE c \in Emptying : TRUE] ELSE known

Verdict == [c \in Client |->
               IF pin[c] = None /\ pc[c] \in {"trusted", "refused", "failed"} THEN pc[c] ELSE "none"]

Abstract == INSTANCE KnownHosts WITH trusts <- Trusted, shown <- seen, verdict <- Verdict

(* tls.go:183-226.  Whatever clients do at once: trust is decided as in one   *)
(* step and lasts, but for saves that break off, which lose entries, and saves *)
(* that race.  No other step loses, adds or changes what is trusted.          *)
TrustOnFirstUse == Abstract!HostsSpec
=============================================================================
