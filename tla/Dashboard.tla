---------------------------- MODULE Dashboard ----------------------------
(* The keys of the terminal dashboard (internal/tui/tui.go, Update): the       *)
(* filters, the search, the selection and the detail view, while the list of  *)
(* events grows and loses its head beneath them.  Selection and scroll are    *)
(* indices into the visible events, from 0; rendering clamps a copy of them.  *)
EXTENDS Integers, Sequences, SequencesExt, Selections

CONSTANTS
    RepoOrder,     \* the repositories, as sorted
    TypeOrder,     \* allEventTypes
    MaxEvents,     \* events that are kept
    MaxLines,      \* bound: lines of the events panel
    Margin,        \* lines above a match that a jump leaves (5)
    Empty,         \* no text
    Part, Junk,    \* a text in every name; a text in none
    Texts          \* bound: the texts that are typed

Repo == ToSet(RepoOrder)
Type == ToSet(TypeOrder)
Text == Repo \cup Type \cup {Empty, Part, Junk}

DashboardAssumption ==
    /\ RepoOrder \in Seq(Repo) /\ TypeOrder \in Seq(Type) \ {<<>>}
    /\ MaxEvents \in Nat \ {0} /\ MaxLines \in Nat \ {0} /\ Margin \in Nat
    /\ Texts \subseteq Text
    /\ Repo \cap Type = {} /\ {Empty, Part, Junk} \cap (Repo \cup Type) = {}

VARIABLES
    events,      \* the events that were taken
    mode,        \* "keys", or the input that is open: "types", "search", "repo"
    input,       \* what was typed into it
    filterRepo, hidden,   \* the filters
    cursor,      \* in the list of types, from 0
    query,       \* the search that was confirmed
    sel, scroll, expanded,
    live,        \* the repositories of the last live status
    lines,       \* the height of the panel
    running      \* the program has not quit

filters == <<filterRepo, hidden, cursor, query>>
selection == <<sel, scroll, expanded>>
world == <<events, live, lines>>
vars == <<world, mode, input, filters, selection, running>>

-----------------------------------------------------------------------------
Holds(name, text) == text \in {Empty, Part, name}

Event == [repo : Repo, type : Type]

Visible ==
    Keep(events, {e \in Event : Holds(e.repo, filterRepo) /\ e.type \notin hidden})

Count == Len(Visible)
Matches(e, text) == text # Empty /\ (Holds(e.type, text) \/ Holds(e.repo, text))
MatchSet(text) ==
    LET seen == Visible
    IN  {i \in 0 .. Len(seen) - 1 : Matches(seen[i + 1], text)}

Least(S) == CHOOSE i \in S : \A j \in S : i <= j
ScrollTo(i) == IF i > Margin THEN i - Margin ELSE 0

(* jumpToNextSearchMatch: around the list, from beside the selection.         *)
Steps(direction) ==
    LET n == Count
        start == IF sel < 0 THEN (IF direction > 0 THEN -1 ELSE n) ELSE sel
    IN  [i \in 1 .. n |-> (start + direction * i) % n]

Jump(direction) ==
    LET at == Steps(direction)
        matches == MatchSet(query)
        hits == {i \in DOMAIN at : at[i] \in matches}
    IN  IF hits = {} THEN sel ELSE at[Least(hits)]

(* cycleRepoFilter: the repositories that contain the text, then the next.    *)
CycleRepoFilter(current) ==
    LET matching == Keep(RepoOrder, {r \in live : Holds(r, current)})
    IN  IF matching = <<>> THEN current
        ELSE IF \E i \in DOMAIN matching : matching[i] = current
        THEN LET i == CHOOSE i \in DOMAIN matching : matching[i] = current
             IN  matching[(i % Len(matching)) + 1]
        ELSE matching[1]

(* renderRightPanel: the first line shown, for the clamped selection.         *)
Shown == LET n == Count IN IF sel >= n THEN n - 1 ELSE sel

WindowStartShort == \* wrong: one line short at the end
    LET at   == Shown
        from == IF at < scroll THEN at ELSE scroll
        to   == IF at >= from + lines THEN at - lines ELSE from
    IN  IF scroll >= 0 /\ at >= 0
        THEN IF to < 0 THEN 0 ELSE to
        ELSE IF Count > lines THEN Count - lines ELSE 0

WindowStart ==
    LET at   == Shown
        from == IF at < scroll THEN at ELSE scroll
        to   == IF at >= from + lines THEN at - lines + 1 ELSE from
    IN  IF scroll >= 0 /\ at >= 0
        THEN IF to < 0 THEN 0 ELSE to
        ELSE IF Count > lines THEN Count - lines ELSE 0

WindowEnd ==
    LET to == WindowStart + lines
        n  == Count
    IN  IF to < n THEN to ELSE n

-----------------------------------------------------------------------------
Init ==
    /\ events = <<>> /\ live = {} /\ lines = MaxLines
    /\ mode = "keys" /\ input = Empty
    /\ filterRepo = Empty /\ hidden = {} /\ cursor = 0 /\ query = Empty
    /\ sel = -1 /\ scroll = -1 /\ expanded = FALSE
    /\ running = TRUE

Key(m) == running /\ mode = m /\ UNCHANGED world
Enter(m, text) == mode' = m /\ input' = text
Leave == Enter("keys", Empty)
Quiet == UNCHANGED <<mode, input, running>>

(* "t": the list of event types.                                              *)
OpenTypes == Key("keys") /\ Enter("types", Empty) /\ UNCHANGED <<filters, selection, running>>
CloseTypes == Key("types") /\ Leave /\ UNCHANGED <<filters, selection, running>>

MoveCursor(by) ==
    /\ Key("types") /\ Quiet
    /\ cursor' = cursor + by /\ cursor' \in 0 .. Len(TypeOrder) - 1
    /\ UNCHANGED <<filterRepo, hidden, query, selection>>

ToggleType ==
    /\ Key("types") /\ Quiet
    /\ LET t == TypeOrder[cursor + 1]
       IN  hidden' = IF t \in hidden THEN hidden \ {t} ELSE hidden \cup {t}
    /\ UNCHANGED <<filterRepo, cursor, query, selection>>

(* "/" and "f": a line of text, typed a character at a time.                  *)
OpenSearch == Key("keys") /\ Enter("search", Empty) /\ UNCHANGED <<filters, selection, running>>
OpenFilter == Key("keys") /\ Enter("repo", filterRepo) /\ UNCHANGED <<filters, selection, running>>

(* Other texts match as one of these does.                                    *)
Typed == Texts \ (IF mode = "repo" THEN Type ELSE {Part})

Edit ==
    /\ Key("search") \/ Key("repo")
    /\ input' \in Typed
    /\ UNCHANGED <<mode, filters, selection, running>>

Abandon ==
    /\ Key("search") \/ Key("repo")
    /\ Leave
    /\ UNCHANGED <<filters, selection, running>>

ConfirmSearch ==
    /\ Key("search") /\ Leave
    /\ query' = input
    /\ IF MatchSet(input) # {}
       THEN sel' = Least(MatchSet(input)) /\ scroll' = ScrollTo(sel')
       ELSE UNCHANGED <<sel, scroll>>
    /\ UNCHANGED <<filterRepo, hidden, cursor, expanded, running>>

ConfirmFilter ==
    /\ Key("repo") /\ Leave
    /\ filterRepo' = input
    /\ UNCHANGED <<hidden, cursor, query, selection, running>>

Tab ==
    /\ Key("repo")
    /\ input' = CycleRepoFilter(input)
    /\ UNCHANGED <<mode, filters, selection, running>>

(* Moving the selection.                                                      *)
Down ==
    /\ Key("keys") /\ Quiet
    /\ Count > 0
    /\ \/ sel < 0 /\ sel' = 0 /\ scroll' = 0
       \/ sel >= 0 /\ sel < Count - 1 /\ sel' = sel + 1 /\ UNCHANGED scroll
    /\ UNCHANGED <<filters, expanded>>

Up ==
    /\ Key("keys") /\ Quiet
    /\ sel > 0 /\ sel' = sel - 1
    /\ UNCHANGED <<filters, scroll, expanded>>

Top ==
    /\ Key("keys") /\ Quiet
    /\ Count > 0
    /\ sel' = 0 /\ scroll' = 0
    /\ UNCHANGED <<filters, expanded>>

Bottom ==
    /\ Key("keys") /\ Quiet
    /\ sel' = -1 /\ scroll' = -1
    /\ UNCHANGED <<filters, expanded>>

NextMatch(direction) ==
    /\ Key("keys") /\ Quiet
    /\ MatchSet(query) # {}
    /\ sel' = Jump(direction) /\ scroll' = ScrollTo(sel')
    /\ UNCHANGED <<filters, expanded>>

Expand ==
    /\ Key("keys") /\ Quiet
    /\ sel >= 0 /\ ~ expanded /\ expanded' = TRUE
    /\ UNCHANGED <<filters, sel, scroll>>

(* "esc": the detail view, then the search, the selection and the filter.     *)
Escape ==
    /\ Key("keys") /\ Quiet
    /\ \/ expanded /\ expanded' = FALSE /\ UNCHANGED <<filters, sel, scroll>>
       \/ /\ ~ expanded /\ query # Empty
          /\ query' = Empty /\ UNCHANGED <<filterRepo, hidden, cursor, selection>>
       \/ /\ ~ expanded /\ query = Empty /\ sel >= 0
          /\ sel' = -1 /\ scroll' = -1 /\ UNCHANGED <<filters, expanded>>
       \/ /\ ~ expanded /\ query = Empty /\ sel < 0 /\ filterRepo # Empty
          /\ filterRepo' = Empty /\ UNCHANGED <<hidden, cursor, query, selection>>

(* "q", and "ctrl+c": an open input takes the first for text and ignores a    *)
(* key whose name is longer than one character.                               *)
Quit ==
    /\ Key("keys")
    /\ running' = FALSE
    /\ UNCHANGED <<mode, input, filters, selection>>

(* Messages: events, a live status or its failure, a new height.              *)
Untouched == UNCHANGED <<mode, input, filters, selection, running>>

NewEvent ==
    /\ running
    /\ \E r \in Repo, t \in Type :
         events' = Append(IF Len(events) >= MaxEvents THEN Tail(events) ELSE events,
                          [repo |-> r, type |-> t])
    /\ UNCHANGED <<live, lines>> /\ Untouched

LiveStatus ==
    /\ running /\ live' \in SUBSET Repo
    /\ UNCHANGED <<events, lines>> /\ Untouched

Resize ==
    /\ running /\ lines' \in 1 .. MaxLines
    /\ UNCHANGED <<events, live>> /\ Untouched

Next ==
    \/ OpenTypes \/ CloseTypes \/ ToggleType \/ \E by \in {-1, 1} : MoveCursor(by)
    \/ OpenSearch \/ OpenFilter \/ Edit \/ Abandon \/ ConfirmSearch \/ ConfirmFilter \/ Tab
    \/ Down \/ Up \/ Top \/ Bottom \/ \E d \in {-1, 1} : NextMatch(d)
    \/ Expand \/ Escape \/ Quit
    \/ NewEvent \/ LiveStatus \/ Resize

Spec == Init /\ [][Next]_vars

-----------------------------------------------------------------------------
(* Every variable keeps its type; the cursor stays in the list of types       *)
(* (tui.go, Update).                                                          *)
TypeOK ==
    /\ events \in Seq(Event) /\ Len(events) <= MaxEvents
    /\ mode \in {"keys", "types", "search", "repo"} /\ input \in Text
    /\ filterRepo \in Text /\ hidden \subseteq Type /\ query \in Text
    /\ cursor \in 0 .. Len(TypeOrder) - 1
    /\ sel \in -1 .. MaxEvents - 1 /\ scroll \in -1 .. MaxEvents - 1
    /\ {expanded, running} \subseteq BOOLEAN
    /\ live \subseteq Repo /\ lines \in 1 .. MaxLines

(* However filters, height and list changed, the panel shows the selected     *)
(* event, or the last one for a selection beyond the list; without selection  *)
(* it follows the end of the list and is filled (renderRightPanel).  Where    *)
(* the user scrolled it may show fewer events than it has lines for.          *)
WindowShowsSelection ==
    LET from == WindowStart
        to   == WindowEnd
        n    == Count
    IN  /\ 0 <= from /\ from <= to /\ to <= n
        /\ sel >= 0 /\ n > 0 => Shown \in from .. to - 1
        /\ sel < 0 => to = n /\ (from = 0 \/ to - from = lines)

(* "n" and "N" find the nearest match in their direction, around the list;    *)
(* without selection from its ends, and a selection beyond the list counts    *)
(* around it too (jumpToNextSearchMatch).                                     *)
JumpIsNearest ==
    LET M == MatchSet(query)
        at == IF sel < 0 THEN sel ELSE sel % Count
        after == {i \in M : i > at}
        before == {i \in M : i < at}
        Greatest(S) == CHOOSE i \in S : \A j \in S : j <= i
    IN  M # {} =>
            /\ Jump(1) = IF after # {} THEN Least(after) ELSE Least(M)
            /\ Jump(-1) = IF before # {} THEN Greatest(before) ELSE Greatest(M)

(* Keys, messages and heights in any order leave a panel that shows what is    *)
(* selected and a search that finds what is nearest (tui.go, Update).          *)
BoardIsRight == TypeOK /\ WindowShowsSelection /\ JumpIsNearest
=============================================================================
