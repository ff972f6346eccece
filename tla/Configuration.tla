--------------------------- MODULE Configuration ---------------------------
(* config.Load (internal/config/config.go): defaults, then the file, then the *)
(* environment, then validation.  A file that does not exist is optional when *)
(* GSO_REPOS names repositories.  The settings that the daemon cannot run     *)
(* without stand for the others, which are read the same way.                 *)
EXTENDS Naturals, FiniteSets

CONSTANTS
    Repo,     \* repository names; "" is one that was left out
    Unset,    \* a setting that is not given
    CPUs      \* runtime.NumCPU()

ConfigurationAssumption == CPUs \in Nat \ {0} /\ Unset \notin Nat

VARIABLES
    file, env,   \* what the file and the environment say
    exists,      \* the file exists
    phase,       \* "start", "loaded" or "refused"
    cfg          \* what Load returned

vars == <<file, env, exists, phase, cfg>>

(* A repository: its name, and whether it names a token source of its own.    *)
RepoEntry == [name : Repo, token : BOOLEAN] \cup {[name |-> "", token |-> TRUE]}
RepoLists == {R \in SUBSET RepoEntry : Cardinality(R) <= 2}

Source == [max_runners : {Unset, 0}, executor : {Unset, "docker", "other"},
           image : {Unset, "image"}, instance_id : {Unset, "id"}, auth : {Unset, TRUE},
           repos : {Unset} \cup RepoLists]

Defaults == [max_runners |-> CPUs, executor |-> "subprocess", image |-> "",
             instance_id |-> "", auth |-> FALSE, repos |-> {}]
NoFile == [s \in DOMAIN Defaults |-> Unset]

Init ==
    /\ file \in Source /\ env \in Source
    /\ exists \in BOOLEAN /\ (~ exists => file = NoFile)
    /\ phase = "start" /\ cfg = Defaults

-----------------------------------------------------------------------------
(* One setting, from what the file and the environment say.                   *)
FileFirst(f, e, s) == \* wrong: the file wins over the environment
    IF f[s] # Unset THEN f[s] ELSE IF e[s] # Unset THEN e[s] ELSE Defaults[s]

Overlay(f, e, s) ==
    IF e[s] # Unset THEN e[s] ELSE IF f[s] # Unset THEN f[s] ELSE Defaults[s]

HasSource(c) == c.auth \/ \A r \in c.repos : r.token

Validate(c) ==
    /\ c.repos # {} /\ c.max_runners >= 1
    /\ c.executor \in {"subprocess", "docker"}
    /\ c.executor = "docker" => c.image # "" /\ c.instance_id # ""
    /\ \A r \in c.repos : r.name # ""
    /\ HasSource(c)

FileMissing(there, c) == ~ there /\ c.repos = {}

(* The configuration, or Unset where Load returns an error.                   *)
LoadOf(f, e, there) ==
    LET c == [s \in DOMAIN Defaults |-> Overlay(IF there THEN f ELSE NoFile, e, s)]
    IN  IF ~ FileMissing(there, c) /\ Validate(c) THEN c ELSE Unset

Load ==
    /\ phase = "start"
    /\ LET c == LoadOf(file, env, exists)
       IN  IF c = Unset THEN phase' = "refused" /\ UNCHANGED cfg
                        ELSE phase' = "loaded" /\ cfg' = c
    /\ UNCHANGED <<file, env, exists>>

Next == Load
Spec == Init /\ [][Next]_vars

-----------------------------------------------------------------------------
(* What Load returns is all that the daemon needs (config.go, validate): the  *)
(* semaphore a capacity, each client a token source to ask, the Docker worker *)
(* an image and the identity that Reconcile removes containers by.            *)
AcceptedRuns ==
    phase = "loaded" =>
        /\ cfg.max_runners \in Nat \ {0}
        /\ cfg.repos # {} /\ \A r \in cfg.repos : r.name \in Repo /\ (r.token \/ cfg.auth)
        /\ \/ cfg.executor = "subprocess"
           \/ cfg.executor = "docker" /\ "" \notin {cfg.image, cfg.instance_id}

(* A setting of the environment hides the file's (config.go, Load): the       *)
(* outcome, an error too, is that of a file without it.                       *)
EnvironmentWins ==
    LET rest == [s \in DOMAIN Defaults |-> IF env[s] # Unset THEN Unset ELSE file[s]]
    IN  LoadOf(file, env, exists) = LoadOf(rest, env, exists)

(* config.go, Load: "If the file does not exist but environment variables     *)
(* provide sufficient configuration, the file is treated as optional": its    *)
(* absence is an empty file.                                                  *)
FileIsOptional == LoadOf(file, env, FALSE) = LoadOf(NoFile, env, TRUE)

(* What Load accepts, and where it takes it from (config.go, Load).           *)
LoadIsRight == AcceptedRuns /\ EnvironmentWins /\ FileIsOptional
=============================================================================
