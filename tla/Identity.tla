------------------------------ MODULE Identity ------------------------------
(* The identities of control servers (internal/control/tls.go): the           *)
(* certificate and the key file of each host, which a daemon loads or writes  *)
(* when it starts.  No write is atomic: os.WriteFile truncates, then writes.  *)
EXTENDS Naturals

CONSTANTS
    Host,        \* servers, each with its own files
    MaxId,       \* bound: certificates a host generates
    None, Torn   \* no file; a file cut short

IdentityAssumption ==
    /\ MaxId \in Nat
    /\ None \notin Nat /\ Torn \notin Nat /\ None # Torn

VARIABLES
    cert, key,   \* the files of each host
    daemon,      \* where LoadOrGenerateTLSConfig is
    ident,       \* the identity the host was last seen with
    ids          \* certificates generated

vars == <<cert, key, daemon, ident, ids>>

Id == 1 .. MaxId
NoFiles == [h \in Host |-> None]
Step(h, from, to) == daemon[h] = from /\ daemon' = [daemon EXCEPT ![h] = to]

Init ==
    /\ cert = NoFiles /\ key = NoFiles /\ ident = NoFiles
    /\ daemon = [h \in Host |-> "down"]
    /\ ids = [h \in Host |-> 0]

-----------------------------------------------------------------------------
(* LoadOrGenerateTLSConfig, once per start of the daemon.                     *)
Start(h) ==
    /\ Step(h, "down", "check")
    /\ UNCHANGED <<cert, key, ident, ids>>

Load(h) ==
    /\ cert[h] # None /\ key[h] # None
    /\ cert[h] = key[h] /\ cert[h] # Torn
    /\ Step(h, "check", "serving")
    /\ ident' = [ident EXCEPT ![h] = cert[h]]
    /\ UNCHANGED <<cert, key, ids>>

(* One file without the other, or a pair that cannot be parsed.               *)
LoadFails(h) ==
    /\ (cert[h] = None) # (key[h] = None) \/ cert[h] # key[h] \/ cert[h] = Torn
    /\ Step(h, "check", "down")
    /\ UNCHANGED <<cert, key, ident, ids>>

GenerateUnlessBoth(h) == \* wrong: generates when either file is missing
    /\ cert[h] = None \/ key[h] = None
    /\ ids[h] < MaxId
    /\ Step(h, "check", "cert")
    /\ ids' = [ids EXCEPT ![h] = @ + 1]
    /\ cert' = [cert EXCEPT ![h] = Torn]
    /\ UNCHANGED <<key, ident>>

Generate(h) ==
    /\ cert[h] = None /\ key[h] = None
    /\ ids[h] < MaxId
    /\ Step(h, "check", "cert")
    /\ ids' = [ids EXCEPT ![h] = @ + 1]
    /\ cert' = [cert EXCEPT ![h] = Torn]
    /\ UNCHANGED <<key, ident>>

WriteCert(h) ==
    /\ Step(h, "cert", "key")
    /\ cert' = [cert EXCEPT ![h] = ids[h]]
    /\ UNCHANGED <<key, ident, ids>>

TruncateKey(h) ==
    /\ Step(h, "key", "keywrite")
    /\ key' = [key EXCEPT ![h] = Torn]
    /\ UNCHANGED <<cert, ident, ids>>

WriteKey(h) ==
    /\ Step(h, "keywrite", "serving")
    /\ key' = [key EXCEPT ![h] = ids[h]]
    /\ ident' = [ident EXCEPT ![h] = ids[h]]
    /\ UNCHANGED <<cert, ids>>

(* A write fails, the daemon stops or crashes; the files stay as they are.    *)
End(h) ==
    /\ daemon[h] # "down"
    /\ daemon' = [daemon EXCEPT ![h] = "down"]
    /\ UNCHANGED <<cert, key, ident, ids>>

(* Somebody deletes a file: with both gone the host may take a new identity.  *)
RemoveFile(h) ==
    /\ daemon[h] = "down"
    /\ \/ cert' = [cert EXCEPT ![h] = None] /\ UNCHANGED key
       \/ key' = [key EXCEPT ![h] = None] /\ UNCHANGED cert
    /\ ident' = [ident EXCEPT ![h] = IF cert'[h] = None /\ key'[h] = None THEN None ELSE @]
    /\ UNCHANGED <<daemon, ids>>

-----------------------------------------------------------------------------
ServerStep(h) ==
    Load(h) \/ LoadFails(h) \/ Generate(h) \/ WriteCert(h) \/ TruncateKey(h) \/ WriteKey(h)

Next == \E h \in Host : Start(h) \/ ServerStep(h) \/ End(h) \/ RemoveFile(h)

Spec == Init /\ [][Next]_vars

-----------------------------------------------------------------------------
(* Every variable keeps its type (tls.go:25-122).                             *)
TypeOK ==
    /\ cert \in [Host -> Id \union {None, Torn}] /\ key \in [Host -> Id \union {None, Torn}]
    /\ daemon \in [Host -> {"down", "check", "cert", "key", "keywrite", "serving"}]
    /\ ident \in [Host -> Id \union {None}] /\ ids \in [Host -> 0 .. MaxId]

(* A daemon that serves has the pair of its identity on disk, so that a crash *)
(* at any later moment finds it there (tls.go:86-122).                        *)
ServedPairIsStored ==
    \A h \in Host : daemon[h] = "serving" => cert[h] = ident[h] /\ key[h] = ident[h]

(* However its daemon ends while it writes the two files, and if one of them  *)
(* gets lost, a host never shows another identity until both are gone: what   *)
(* it shows is on disk, and nothing is generated in place of a pair of which  *)
(* a part is left (tls.go:29-53, 86-101).                                     *)
IdentityStable ==
    /\ []ServedPairIsStored
    /\ [][\A h \in Host : ident[h] \in {None, ident'[h]} \/ ident'[h] = None]_vars
=============================================================================
