------------------------------ MODULE Terminal ------------------------------
(* What a user runs at a terminal: the trust in TLS servers (TrustStore) and  *)
(* the identity these have (Identity), a command that asks or administers     *)
(* (Commands), the keys of the dashboard (Dashboard), the loading of a        *)
(* configuration (Configuration) and the tokens of the clients (Tokens).      *)
(* They share no state: in every behaviour one of them works and the others   *)
(* are at rest.                                                               *)
EXTENDS TrustStore

CONSTANTS
    MaxId,                                                          \* Identity
    Configured, Other, MaxSlots, MaxTaken, All, Part,               \* Commands
    RepoOrder, TypeOrder, MaxEvents, MaxLines, Margin, Empty, Junk, Texts, \* Dashboard
    Name, CPUs, Unset,                                              \* Configuration
    Owner, Global, Nothing, Fails, Unmade                           \* Tokens

VARIABLES
    subject,     \* who works: "trust", "server", "command", "board", "config", "token"
    cert, key, daemon, ident, ids,
    sets, made, up, cap, taken, scalers, runners, cmd, filter, id, place, rows, answer, moved,
    events, mode, input, filterRepo, hidden, cursor, query, sel, scroll, expanded,
    live, lines, running,
    file, env, exists, phase, cfg,
    named, value, client

Server == INSTANCE Identity
Command == INSTANCE Commands WITH pc <- place, live <- answer
Board == INSTANCE Dashboard
Config == INSTANCE Configuration WITH Repo <- Name
Token == INSTANCE Tokens

ASSUME TerminalAssumption ==
    /\ Server!IdentityAssumption /\ Command!CommandsAssumption /\ Board!DashboardAssumption
    /\ Config!ConfigurationAssumption /\ Token!TokensAssumption

trustVars == <<known, pc, host, seen, pin, loaded, racing>>
serverVars == <<cert, key, daemon, ident, ids>>
commandVars == <<sets, made, up, cap, taken, scalers, runners, cmd, filter, id,
                 place, rows, answer, moved>>
boardVars == <<events, mode, input, filterRepo, hidden, cursor, query, sel, scroll,
               expanded, live, lines, running>>
configVars == <<file, env, exists, phase, cfg>>
tokenVars == <<named, value, client>>
terminalVars == <<subject, trustVars, serverVars, commandVars, boardVars, configVars, tokenVars>>

(* One initial state of those with several is enough where they do not work.  *)
TrustRests == host = [c \in Client |-> CHOOSE h \in Host : TRUE] /\ Init
ConfigRests == file = Config!NoFile /\ env = file /\ exists = FALSE /\ Config!Init
TokenRests == named = [o \in Owner |-> {}] /\ Token!Init

TerminalInit ==
    /\ subject \in {"trust", "server", "command", "board", "config", "token"}
    /\ Server!Init /\ Command!Init /\ Board!Init
    /\ IF subject = "trust" THEN Init ELSE TrustRests
    /\ IF subject = "config" THEN Config!Init ELSE ConfigRests
    /\ IF subject = "token" THEN Token!Init ELSE TokenRests

TerminalNext ==
    /\ UNCHANGED subject
    /\ \/ /\ subject = "trust" /\ Next
          /\ UNCHANGED <<serverVars, commandVars, boardVars, configVars, tokenVars>>
       \/ /\ subject = "server" /\ Server!Next
          /\ UNCHANGED <<trustVars, commandVars, boardVars, configVars, tokenVars>>
       \/ /\ subject = "command" /\ Command!Next
          /\ UNCHANGED <<trustVars, serverVars, boardVars, configVars, tokenVars>>
       \/ /\ subject = "board" /\ Board!Next
          /\ UNCHANGED <<trustVars, serverVars, commandVars, configVars, tokenVars>>
       \/ /\ subject = "config" /\ Config!Next
          /\ UNCHANGED <<trustVars, serverVars, commandVars, boardVars, tokenVars>>
       \/ /\ subject = "token" /\ Token!Next
          /\ UNCHANGED <<trustVars, serverVars, commandVars, boardVars, configVars>>

TerminalSpec == TerminalInit /\ [][TerminalNext]_terminalVars

(* The properties of the instances, where they work: elsewhere nothing        *)
(* changes.                                                                   *)
AnswersAreTrue == subject = "command" => Command!AnswersAreTrue
BoardIsRight == subject = "board" => Board!BoardIsRight
LoadIsRight == subject = "config" => Config!LoadIsRight
IdentityStable == Server!IdentityStable
BestToken == [](subject = "token" => Token!TypeOK) /\ Token!BestToken
=============================================================================
