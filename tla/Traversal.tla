----------------------------- MODULE Traversal -----------------------------
(***************************************************************************)
(* glob_files (src/litecoder/tools/builtin/search.py) and the walk through *)
(* the workspace below it (secure_iter_files in secure_path.py), one       *)
(* directory after the other, while the user changes what is there.  The   *)
(* globs of one round of calls share a walk, which then goes to its end.   *)
(***************************************************************************)
EXTENDS Naturals, Sequences, FiniteSets

CONSTANTS
    Nodes,              \* numbers, in the order of their names
    ParentOf,           \* by node: its directory, 0 for the root
    Hidden,             \* nodes named .memory
    Patterns,           \* the sets of nodes whose paths match one
    MaxDirectory,       \* MAX_DIRECTORY_ENTRIES
    MaxTotal,           \* MAX_TRAVERSAL_ENTRIES
    MaxLimit,           \* bound: matches asked for
    MaxLinks,           \* bound: links that are there at the beginning
    MaxChanges          \* bound: by the user, and of what cannot be opened

VARIABLES
    kind,               \* by node: what is there
    shared,             \* the walk is the round's, not this call's
    pattern,            \* the nodes whose path matches
    limit,
    walk,               \* the directories that are open, and what is left of each
    paths,              \* told by the walk
    matches, resultTruncated,
    truncated, traversed,
    finished,
    steady,             \* ghost: the nodes that nobody has changed or could not open
    been,               \* ghost, by node: what has been there
    changes

vars ==
    <<kind, shared, pattern, limit, walk, paths, matches, resultTruncated,
      truncated, traversed, finished, steady, been, changes>>
given == <<shared, pattern, limit>>

Kinds == {"none", "file", "directory", "link"}
Root == 0

TypeOK ==
    /\ kind \in [Nodes -> Kinds]
    /\ shared \in BOOLEAN /\ pattern \subseteq Nodes /\ limit \in 1 .. MaxLimit
    /\ walk \in Seq(Seq(Nodes))
    /\ paths \in Seq(Nodes) /\ matches \in Seq(Nodes)
    /\ resultTruncated \in BOOLEAN /\ truncated \in BOOLEAN
    /\ traversed \in 0 .. MaxTotal + 1
    /\ finished \in BOOLEAN
    /\ steady \subseteq Nodes /\ been \in [Nodes -> SUBSET Kinds]
    /\ changes \in 0 .. MaxChanges

Entries(d) == {n \in Nodes : ParentOf[n] = d /\ kind[n] # "none"}

\* By node: itself, and the directories that lead to it.
Way[n \in Nodes] ==
    {n} \cup (IF ParentOf[n] = Root THEN {} ELSE Way[ParentOf[n]])

\* The ways to list a set of numbers in order: there is one.
Listing(set) ==
    {s \in [1 .. Cardinality(set) -> set] :
        /\ \A i, j \in DOMAIN s : i < j => s[i] < s[j]
        /\ \A n \in set : \E i \in DOMAIN s : s[i] = n}

\* Nothing is in what is no directory, and leads to none.
Sound(k) ==
    \A n \in {m \in Nodes : k[m] # "none" /\ ParentOf[m] # Root} :
        k[ParentOf[n]] \in {"directory", "link"}

Init ==
    /\ kind \in {k \in [Nodes -> Kinds] :
                   Sound(k) /\ Cardinality({n \in Nodes : k[n] = "link"}) <= MaxLinks}
    /\ shared \in BOOLEAN
    /\ pattern \in Patterns
    /\ limit \in 1 .. MaxLimit
    /\ walk = <<>> /\ paths = <<>> /\ matches = <<>>
    /\ resultTruncated = FALSE /\ truncated = FALSE
    /\ traversed = 0
    /\ finished = FALSE
    /\ steady = Nodes /\ been = [n \in Nodes |-> {kind[n]}]
    /\ changes = 0

-----------------------------------------------------------------------------
(* _posix_walk and _windows_walk                                           *)

\* _bounded_entries: a directory with too many entries, or with one too many for
\* the walk, gives none of them, and is the last.
Open(d, rest) ==
    LET here == Entries(d)
        total == MaxTotal < traversed + Cardinality(here)
        many == Cardinality(here) > MaxDirectory
    IN /\ traversed' = IF total THEN MaxTotal + 1 ELSE traversed + Cardinality(here)
       /\ truncated' = (truncated \/ total \/ many)
       /\ IF total \/ many THEN walk' = rest
          ELSE \E names \in Listing(here) : walk' = Append(rest, names)

Start ==
    /\ traversed = 0 /\ walk = <<>> /\ ~finished
    /\ Entries(Root) # {}
    /\ Open(Root, <<>>)
    /\ UNCHANGED <<kind, given, paths, matches, resultTruncated, finished, steady,
                   been, changes>>

Deepest == walk[Len(walk)]
Walking == walk # <<>> /\ ~truncated /\ ~resultTruncated

\* The rest of the walk once the next entry of the deepest directory is taken.
Taken == Append(SubSeq(walk, 1, Len(walk) - 1), Tail(Deepest))

\* A file is told: to the call, or for all the calls of the round.
Tell(n) ==
    /\ paths' = Append(paths, n)
    /\ IF shared \/ n \notin pattern THEN UNCHANGED <<matches, resultTruncated>>
       ELSE IF Len(matches) = limit
       THEN resultTruncated' = TRUE /\ UNCHANGED matches
       ELSE matches' = Append(matches, n) /\ UNCHANGED resultTruncated

\* entry.stat does not follow links, and neither does what opens the entry.
PassedOverButForLinks(n) == n \in Hidden \/ kind[n] = "none"
PassedOver(n) == n \in Hidden \/ kind[n] \in {"none", "link"}

Visit ==
    /\ Walking /\ Deepest # <<>>
    /\ LET n == Head(Deepest) IN
       IF PassedOver(n)
       THEN /\ walk' = Taken
            /\ UNCHANGED <<paths, matches, resultTruncated, truncated, traversed>>
       ELSE IF kind[n] = "file"
       THEN /\ walk' = Taken
            /\ Tell(n)
            /\ UNCHANGED <<truncated, traversed>>
       ELSE /\ Open(n, Taken)
            /\ UNCHANGED <<paths, matches, resultTruncated>>
    /\ UNCHANGED <<kind, given, finished, steady, been, changes>>

\* It cannot be looked at, opened or listed: it is passed over.
VisitFails ==
    /\ Walking /\ Deepest # <<>> /\ changes < MaxChanges
    /\ changes' = changes + 1
    /\ walk' = Taken
    /\ steady' = steady \ {Head(Deepest)}
    /\ UNCHANGED <<kind, given, paths, matches, resultTruncated, truncated,
                   traversed, finished, been>>

Leave ==
    /\ Walking /\ Deepest = <<>>
    /\ walk' = SubSeq(walk, 1, Len(walk) - 1)
    /\ UNCHANGED <<kind, given, paths, matches, resultTruncated, truncated,
                   traversed, finished, steady, been, changes>>

\* _glob_matches and _glob_result
Finish ==
    /\ ~Walking /\ ~finished
    /\ traversed > 0 \/ Entries(Root) = {}
    /\ finished' = TRUE
    /\ walk' = <<>>
    /\ IF shared
       THEN \E order \in Listing({i \in 1 .. Len(paths) : paths[i] \in pattern}) :
               LET many == Len(order) > limit
                   told == IF many THEN limit ELSE Len(order)
               IN /\ matches' = [k \in 1 .. told |-> paths[order[k]]]
                  /\ resultTruncated' = many
       ELSE UNCHANGED <<matches, resultTruncated>>
    /\ UNCHANGED <<kind, given, paths, truncated, traversed, steady, been, changes>>

\* The user creates, removes or replaces something, and what is in it goes.
UserChanges(n) ==
    /\ changes < MaxChanges /\ ~finished
    /\ changes' = changes + 1
    /\ \E k \in Kinds \ {kind[n]} :
          kind' = [m \in Nodes |-> IF m = n THEN k
                                  ELSE IF n \in Way[m] THEN "none" ELSE kind[m]]
    /\ Sound(kind')
    /\ steady' = {m \in steady : n \notin Way[m]}
    /\ been' = [m \in Nodes |-> been[m] \cup {kind'[m]}]
    /\ UNCHANGED <<given, walk, paths, matches, resultTruncated, truncated,
                   traversed, finished>>

Next ==
    \/ Start
    \/ Visit
    \/ VisitFails
    \/ Leave
    \/ Finish
    \/ \E n \in Nodes : UserChanges(n)

Spec == Init /\ [][Next]_vars

-----------------------------------------------------------------------------
\* What a walk may come to: what has been there, in nothing that is hidden and
\* in nothing that has never been a directory, such as a link to one.
MayReach ==
    {n \in Nodes : /\ been[n] # {"none"}
                   /\ \A m \in Way[n] \ {n} : m \notin Hidden /\ "directory" \in been[m]}
MayTell == {n \in MayReach \ Hidden : "file" \in been[n]}

TooMany ==
    \/ Cardinality(MayReach) > MaxTotal
    \/ \E d \in Nodes \cup {Root} :
          Cardinality({n \in MayReach : ParentOf[n] = d}) > MaxDirectory

\* Whatever is changed meanwhile: what a glob reports matches, has been a file, is
\* not hidden, was not come to through a link, and comes once; what was there from
\* the beginning to the end, however deep, and could be opened, is reported, unless
\* the call says that it was cut short; and it says so only if more entries than
\* it may look at, or more matches than it may tell, have been there (_posix_walk,
\* _glob_result).
NothingIsMissedUnsaid ==
    finished =>
        LET told == {matches[i] : i \in 1 .. Len(matches)}
            there == {n \in pattern \cap MayTell : Way[n] \subseteq steady}
        IN /\ told \subseteq pattern \cap MayTell
           /\ \A i, j \in 1 .. Len(matches) : matches[i] = matches[j] => i = j
           /\ (~truncated /\ ~resultTruncated) => there \subseteq told
           /\ truncated => TooMany
           /\ resultTruncated =>
                 Len(matches) = limit /\ Cardinality(pattern \cap MayTell) > limit
=============================================================================
