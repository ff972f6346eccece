------------------------------- MODULE Tokens -------------------------------
(* How a repository's client gets its token (internal/config: TokenForRepo,   *)
(* TokenSource.Resolve; service.NewScaleSetClient): its own sources before    *)
(* the global ones, each in the order environment, keychain, file.  The       *)
(* keychain and the files change while the program runs ("gso token").        *)
EXTENDS Naturals, FiniteSets

CONSTANTS
    Owner,         \* who has token sources: the repositories, and Global
    Global,
    Nothing, Fails, \* no value or an empty one; an error other than "not found"
    Unmade         \* no client yet

TokensAssumption == Global \in Owner /\ Cardinality({Nothing, Fails, Unmade}) = 3

VARIABLES
    named,   \* the sources each owner's configuration names
    value,   \* what each source holds: its token, Nothing, or an error
    client   \* the token of the client of each repository, Unmade or Fails

vars == <<named, value, client>>

Repo == Owner \ {Global}
Kind == {"env", "keychain", "file"}
Slot == Owner \X Kind
Holds(slot) ==
    CASE slot[2] = "env" -> {Nothing, slot}
      [] OTHER -> {Nothing, Fails, slot}

Init ==
    /\ named \in [Owner -> SUBSET Kind]
    /\ value = [slot \in Slot |-> Nothing]
    /\ client = [r \in Repo |-> Unmade]

-----------------------------------------------------------------------------
Full(owner, k) == k \in named[owner] /\ value[<<owner, k>>] # Nothing

ResolveFileEarly(owner) == \* wrong: the file before the keychain
    IF Full(owner, "env") THEN value[<<owner, "env">>]
    ELSE IF Full(owner, "file") THEN value[<<owner, "file">>]
    ELSE IF Full(owner, "keychain") THEN value[<<owner, "keychain">>] ELSE Nothing

(* The first source that holds something, if only an error.                   *)
Resolve(owner) ==
    IF Full(owner, "env") THEN value[<<owner, "env">>]
    ELSE IF Full(owner, "keychain") THEN value[<<owner, "keychain">>]
    ELSE IF Full(owner, "file") THEN value[<<owner, "file">>] ELSE Nothing

TokenForRepo(r) ==
    LET own == Resolve(r)
        found == IF own = Nothing THEN Resolve(Global) ELSE own
    IN  IF found = Nothing THEN Fails ELSE found

(* The keychain or a file changes, or cannot be read; the environment is set  *)
(* before the program starts.                                                 *)
Change(slot) ==
    /\ slot[2] = "env" => \A r \in Repo : client[r] = Unmade
    /\ slot[2] \in named[slot[1]]
    /\ \E v \in Holds(slot) : value' = [value EXCEPT ![slot] = v]
    /\ UNCHANGED <<named, client>>

NewClient(r) ==
    /\ client' = [client EXCEPT ![r] = TokenForRepo(r)]
    /\ UNCHANGED <<named, value>>

Next == \/ \E slot \in Slot : Change(slot)
        \/ \E r \in Repo : NewClient(r)
Spec == Init /\ [][Next]_vars

-----------------------------------------------------------------------------
(* A client is made with its repository's own token or a global one, never    *)
(* without and never with another repository's (service/client.go:16-20).     *)
TypeOK ==
    /\ named \in [Owner -> SUBSET Kind]
    /\ \A slot \in Slot : value[slot] \in Holds(slot)
    /\ \A r \in Repo : client[r] \in {Unmade, Fails} \cup ({r, Global} \X Kind)

(* The places a token may come from, best first.                              *)
Order == <<"env", "keychain", "file">>
Least(S) == CHOOSE i \in S : \A j \in S : i <= j
Place(r, i) == IF i <= 3 THEN <<r, Order[i]>> ELSE <<Global, Order[i - 3]>>

(* A client that is made has the best token there is at that time, and fails  *)
(* only when there is none or a better place cannot be read (README.md:171).  *)
BestToken ==
    [][\A r \in Repo : client'[r] # client[r] =>
         LET full == {i \in 1 .. 6 : Full(Place(r, i)[1], Place(r, i)[2])}
         IN  client'[r] = IF full = {} THEN Fails ELSE value[Place(r, Least(full))]]_client
=============================================================================
