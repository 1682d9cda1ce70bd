----------------------------- MODULE Matchmaking ------------------------------
(***************************************************************************)
(* The multiplayer queue.  Players join, leave and poll the queue; a       *)
(* matchmaking pass reads the waiting entries, pairs them and records one  *)
(* match per pair.  A pass runs from the timer of every instance, at the   *)
(* end of every join and on request, and nothing keeps two passes apart.   *)
(*                                                                         *)
(* Every call works on copies of the rows it read.  Saving a copy writes   *)
(* every column in which it differs from its row, or inserts it again if   *)
(* the row is gone; between reading and saving the other calls may do      *)
(* anything.  (save compares and writes in one step here.)                 *)
(*                                                                         *)
(* The id of a match is modelled by the pair of entries it is made for.    *)
(* matchedAt and leftAt follow status and are left out.                    *)
(***************************************************************************)
EXTENDS Naturals, FiniteSets, Sequences

CONSTANTS
    Timers,         \* instances, each with its timer for passes
    Requests,       \* client requests in flight
    Profiles,       \* what a player may ask for when joining
    NumEntries,     \* bound on the entries ever created, numbered by createdAt
    Take,           \* entries a pass reads at most (200)
    MaxFaults,      \* bound on database errors and crashes
    NoProfile

ASSUME MatchmakingAssumption ==
    /\ NumEntries \in Nat /\ MaxFaults \in Nat
    /\ Take \in Nat \ {0}
    /\ NoProfile \notin Profiles
    /\ Timers \cap Requests = {} /\ IsFiniteSet(Timers \cup Requests)

Entries == 1 .. NumEntries
Calls   == Timers \cup Requests

VARIABLES
    row,        \* the queue table: status, match and whether waitTime > 120
    profile,    \* user, mode, skill, avoid and prefer of each entry
    age,        \* 0: just created, 1: more than two minutes, 2: more than a day
    matches,    \* the match table: pairs of entries
    at,         \* the statement each call executes next
    form,       \* what a joining player asked for
    plan,       \* the pairs a pass has yet to record
    copies,     \* the entities a call has read and changed
    faults

tableVars == <<row, profile, matches>>
callVars  == <<at, form, plan, copies>>
vars == <<tableVars, age, callVars, faults>>

NoRow == [status |-> "none", match |-> {}, long |-> FALSE]
Pair(i, j) == {i, j}
Nothing == [e \in {} |-> NoRow]

Init ==
    /\ row = [e \in Entries |-> NoRow]
    /\ profile = [e \in Entries |-> NoProfile]
    /\ age = [e \in Entries |-> 0]
    /\ matches = {}
    /\ at = [c \in Calls |-> "idle"]
    /\ form = [c \in Calls |-> NoProfile]
    /\ plan = [c \in Calls |-> <<>>]
    /\ copies = [c \in Calls |-> Nothing]
    /\ faults = 0

Waiting == {e \in Entries : row[e].status = "WAITING"}
WaitingOf(u) == {e \in Waiting : profile[e].user = u}

-----------------------------------------------------------------------------
(* The pairing algorithm, on the entries a pass has read. *)

Compatible(i, j) ==
    /\ profile[j].user \notin profile[i].avoid
    /\ profile[i].user \notin profile[j].avoid

(* computeCompatibilityScore of two entries that do not avoid each other. *)
Score(i, j) ==
    LET likes == Cardinality({e \in {<<i, j>>, <<j, i>>} :
                                 profile[e[2]].user \in profile[e[1]].prefer})
    IN  CASE likes = 2 -> 100 [] likes = 1 -> 50 [] OTHER -> 10

(* A slip: only the two oldest players are considered. *)
OldestTwo(g) ==
    {e \in g \X g : /\ e[1] < e[2] /\ Compatible(e[1], e[2])
                    /\ \A k \in g : k <= e[2] => k \in {e[1], e[2]}}

Edges(g) == {e \in g \X g : e[1] < e[2] /\ Compatible(e[1], e[2])}

(* A slip: the weakest edge first. *)
WeakestFirst(d, e) ==
    LET s == Score(d[1], d[2])
        t == Score(e[1], e[2])
    IN  \/ s < t
        \/ s = t /\ (d[1] < e[1] \/ (d[1] = e[1] /\ d[2] < e[2]))

(* Strongest edge first, then the older players. *)
Before(d, e) ==
    LET s == Score(d[1], d[2])
        t == Score(e[1], e[2])
    IN  \/ s > t
        \/ s = t /\ (d[1] < e[1] \/ (d[1] = e[1] /\ d[2] < e[2]))

FirstEdge(edges) == CHOOSE e \in edges : \A d \in edges \ {e} : Before(e, d)

(* The edges that have neither player of edge e. *)
Without(edges, e) == {d \in edges : Pair(d[1], d[2]) \cap Pair(e[1], e[2]) = {}}

(* pairPlayersInGroup: the first edge is taken, and with it go all others  *)
(* of its two players.                                                     *)
PairsInGroup(g) ==
    LET greedy[edges \in SUBSET Edges(g)] ==
            IF edges = {} THEN <<>>
            ELSE LET e == FirstEdge(edges)
                 IN  <<Pair(e[1], e[2])>> \o greedy[Without(edges, e)]
    IN  greedy[Edges(g)]

(* A slip: one bucket per game mode. *)
BucketsByMode(S) ==
    {{f \in S : profile[f].mode = profile[e].mode} : e \in S}

Buckets(S) ==
    {{f \in S : /\ profile[f].mode = profile[e].mode
                /\ profile[f].skill = profile[e].skill} : e \in S}

(* One more bucket per mode in which players of different skill have a     *)
(* waitTime above two minutes.  Its members are in a bucket above as well. *)
CrossSkill(S, read) ==
    {g \in {{f \in S : read[f].long /\ profile[f].mode = profile[e].mode} : e \in S} :
        \E i, j \in g : profile[i].skill # profile[j].skill}

(* groupPlayersForMatching, in the order in which a pass handles the       *)
(* groups: by their oldest players, the mixed ones last.                   *)
Older(g, h) == \E i \in g : \A j \in h : i < j
OldestGroup(gs) == CHOOSE g \in gs : \A h \in gs \ {g} : Older(g, h)

PairsOf(groups) ==
    LET pairs[gs \in SUBSET groups] ==
            IF gs = {} THEN <<>>
            ELSE LET g == OldestGroup(gs) IN PairsInGroup(g) \o pairs[gs \ {g}]
    IN  pairs[groups]

Plan(S, read) == PairsOf(Buckets(S)) \o PairsOf(CrossSkill(S, read))

-----------------------------------------------------------------------------
(* Saving copies. *)

Go(c, place) == at' = [at EXCEPT ![c] = place]

(* The call returns or throws. *)
Finish(c) ==
    /\ Go(c, "idle")
    /\ form' = [form EXCEPT ![c] = NoProfile]
    /\ plan' = [plan EXCEPT ![c] = <<>>]
    /\ copies' = [copies EXCEPT ![c] = Nothing]

Saved(copied) == [e \in Entries |-> IF e \in DOMAIN copied THEN copied[e] ELSE row[e]]

-----------------------------------------------------------------------------
(* Joining. *)

Created == {e \in Entries : profile[e] # NoProfile}
Joining == {c \in Calls : at[c] = "insert"}

(* joinQueue finds no waiting entry of the user. *)
JoinQueue(c, p) ==
    /\ at[c] = "idle"
    /\ WaitingOf(p.user) = {}
    /\ Cardinality(Created) + Cardinality(Joining) < NumEntries
    /\ Go(c, "insert")
    /\ form' = [form EXCEPT ![c] = p]
    /\ UNCHANGED <<tableVars, age, plan, copies, faults>>

(* A slip: what the player asked for is not stored. *)
InsertBlank(c) ==
    LET e == Cardinality(Created) + 1
    IN  /\ at[c] = "insert"
        /\ row' = [row EXCEPT ![e] = [NoRow EXCEPT !.status = "WAITING"]]
        /\ Go(c, "scan")
        /\ form' = [form EXCEPT ![c] = NoProfile]
        /\ UNCHANGED <<profile, matches, age, plan, copies, faults>>

InsertEntry(c) ==
    LET e == Cardinality(Created) + 1
    IN  /\ at[c] = "insert"
        /\ row' = [row EXCEPT ![e] = [NoRow EXCEPT !.status = "WAITING"]]
        /\ profile' = [profile EXCEPT ![e] = form[c]]
        /\ Go(c, "scan")
        /\ form' = [form EXCEPT ![c] = NoProfile]
        /\ UNCHANGED <<matches, age, plan, copies, faults>>

-----------------------------------------------------------------------------
(* processMatchmaking: by a timer, after a join, or on request. *)

Scanned == {e \in Waiting : Cardinality({d \in Waiting : d < e}) < Take}

ScanQueue(c) ==
    /\ at[c] = "scan" \/ (at[c] = "idle" /\ Cardinality(Scanned) >= 2)
    /\ \E pairs \in {Plan(Scanned, row)} :
          IF pairs = <<>>
          THEN Finish(c)
          ELSE /\ Go(c, "pair")
               /\ plan' = [plan EXCEPT ![c] = pairs]
               /\ copies' = [copies EXCEPT ![c] = [e \in Scanned |-> row[e]]]
               /\ UNCHANGED form
    /\ UNCHANGED <<tableVars, age, faults>>

(* The copies of the next pair, as createMatch leaves them. *)
MatchedCopies(c) ==
    [e \in Head(plan[c]) |-> [copies[c][e] EXCEPT !.status = "MATCHED", !.match = Head(plan[c])]]

(* On to the next pair of the pass. *)
NextPair(c) ==
    IF Len(plan[c]) = 1
    THEN Finish(c)
    ELSE /\ Go(c, "pair")
         /\ plan' = [plan EXCEPT ![c] = Tail(plan[c])]
         /\ copies' = [copies EXCEPT ![c] =
                [e \in DOMAIN copies[c] |-> IF e \in Head(plan[c]) THEN MatchedCopies(c)[e]
                                            ELSE copies[c][e]]]
         /\ UNCHANGED form

(* A slip: the entries are saved outside the transaction, which fails. *)
CreateMatchPartly(c) ==
    /\ at[c] = "pair"
    /\ row' = Saved(MatchedCopies(c))
    /\ NextPair(c)
    /\ UNCHANGED <<profile, matches, age, faults>>

(* createMatch: the match and both entries in one transaction. *)
CreateMatch(c) ==
    /\ at[c] = "pair"
    /\ row' = Saved(MatchedCopies(c))
    /\ matches' = matches \cup {Head(plan[c])}
    /\ NextPair(c)
    /\ UNCHANGED <<profile, age, faults>>

-----------------------------------------------------------------------------
(* Leaving and polling read entries, change the copies and save them. *)

Read(c, changed) ==
    /\ at[c] = "idle"
    /\ Go(c, "save")
    /\ copies' = [copies EXCEPT ![c] = changed]
    /\ UNCHANGED <<tableVars, age, form, plan, faults>>

Refreshed(e) == [row[e] EXCEPT !.long = age[e] >= 1]

LeaveQueue(c, e) ==
    e \in Waiting /\ Read(c, [d \in {e} |-> [row[d] EXCEPT !.status = "LEFT"]])

GetQueueStatus(c, e) ==
    e \in Waiting /\ Read(c, [d \in {e} |-> Refreshed(d)])

GetQueueList(c) ==
    Waiting # {} /\ Read(c, [d \in Waiting |-> Refreshed(d)])

SaveCopies(c) ==
    /\ at[c] = "save"
    /\ row' = Saved(copies[c])
    /\ Finish(c)
    /\ UNCHANGED <<profile, matches, age, faults>>

-----------------------------------------------------------------------------
(* Time, the nightly cleanup, and faults. *)

Ages(e) ==
    /\ e \in Created /\ age[e] < 2
    /\ \A d \in Entries : d < e => age[d] > age[e]
    /\ age' = [age EXCEPT ![e] = @ + 1]
    /\ UNCHANGED <<tableVars, callVars, faults>>

CleanupOldEntries ==
    LET old == {e \in Entries : row[e].status = "LEFT" /\ age[e] = 2}
    IN  /\ old # {}
        /\ row' = [e \in Entries |-> IF e \in old THEN NoRow ELSE row[e]]
        /\ UNCHANGED <<profile, matches, age, callVars, faults>>

(* A statement fails or the instance dies; an open transaction is undone.  *)
Fails(c) ==
    /\ at[c] # "idle"
    /\ faults < MaxFaults /\ faults' = faults + 1
    /\ Finish(c)
    /\ UNCHANGED <<tableVars, age>>

-----------------------------------------------------------------------------

Proceed(c) ==
    \/ InsertEntry(c)
    \/ ScanQueue(c)
    \/ CreateMatch(c)
    \/ SaveCopies(c)

Next ==
    \/ \E c \in Calls : Proceed(c) \/ Fails(c)
    \/ \E c \in Requests :
          \/ \E p \in Profiles : JoinQueue(c, p)
          \/ \E e \in Entries : LeaveQueue(c, e) \/ GetQueueStatus(c, e)
          \/ GetQueueList(c)
    \/ \E e \in Entries : Ages(e)
    \/ CleanupOldEntries

(* The timers keep firing and the statements of a pass return; nothing is  *)
(* assumed about clients.                                                  *)
Fairness == \A c \in Timers : WF_vars(Proceed(c))

Spec == Init /\ [][Next]_vars
FairSpec == Spec /\ Fairness

-----------------------------------------------------------------------------
(* Properties. *)

Rows == [status : {"none", "WAITING", "MATCHED", "LEFT"},
         match : SUBSET Entries, long : BOOLEAN]

(* Every column and copy has its type; a row belongs to a created entry. *)
MatchTypeOK ==
    /\ row \in [Entries -> Rows]
    /\ profile \in [Entries -> Profiles \cup {NoProfile}]
    /\ age \in [Entries -> 0 .. 2]
    /\ matches \subseteq SUBSET Created
    /\ at \in [Calls -> {"idle", "insert", "scan", "pair", "save"}]
    /\ form \in [Calls -> Profiles \cup {NoProfile}]
    /\ faults \in 0 .. MaxFaults
    /\ \A e \in Entries : row[e].status # "none" => e \in Created
    /\ \A c \in Calls :
          /\ plan[c] \in Seq(SUBSET Created)
          /\ \A e \in DOMAIN copies[c] : copies[c][e] \in Rows

(* A match is between two players of one mode who do not avoid each other, *)
(* and of one skill unless both have really waited for two minutes, however*)
(* stale the copies were from which it was made.                           *)
MatchesAreCompatible ==
    \A m \in matches : \E i, j \in Entries :
        /\ m = Pair(i, j) /\ i # j
        /\ Compatible(i, j)
        /\ profile[i].mode = profile[j].mode
        /\ profile[i].skill = profile[j].skill \/ (age[i] >= 1 /\ age[j] >= 1)

(* The transaction of createMatch: an entry says matched, or names a match,*)
(* only if that match exists and is the player's, although passes, polls   *)
(* and departures overwrite each other's columns.                          *)
MatchedIsNamed ==
    \A e \in Entries :
        /\ row[e].status = "MATCHED" => \E m \in matches : e \in m
        /\ row[e].match # {} => row[e].match \in matches /\ e \in row[e].match

(* The comment on processMatchmaking: the pairing of a group is stable.    *)
(* Two players who could be paired and are not have a better or equal      *)
(* match, at least one of them, and nobody is in two pairs of a group.     *)
PairingIsStable ==
    \A g \in Buckets(Scanned) \cup CrossSkill(Scanned, row) :
        LET taken == PairsInGroup(g)
            pairs == {taken[k] : k \in DOMAIN taken}
        IN  /\ \A p, q \in pairs : p = q \/ p \cap q = {}
            /\ \A e \in Edges(g) : \E i, j \in g :
                  /\ Pair(i, j) \in pairs /\ {i, j} \cap {e[1], e[2]} # {}
                  /\ Score(i, j) >= Score(e[1], e[2])

(* Two players of one bucket who are compatible do not both go on waiting  *)
(* among the entries a pass reads, whatever other passes and clients do.   *)
CouldPlay(i, j) ==
    /\ {i, j} \subseteq Scanned
    /\ Compatible(i, j)
    /\ profile[i].mode = profile[j].mode /\ profile[i].skill = profile[j].skill
PairsDoNotWait ==
    \A i, j \in Entries : i < j => []<>~CouldPlay(i, j)
=============================================================================
