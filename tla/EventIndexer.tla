----------------------------- MODULE EventIndexer -----------------------------
(***************************************************************************)
(* The indexer of contract events.  A poller walks through the configured  *)
(* contracts and asks the RPC for a page of events from a cursor on; the   *)
(* cursor is one ledger number for all contracts, kept in memory, and      *)
(* moved to the last ledger of every page that was stored.  A restart      *)
(* takes it from the newest stored row.  Backfills run beside the poller   *)
(* and never touch the cursor.                                             *)
(*                                                                         *)
(* Rows are inserted one statement at a time.  The table has no unique key *)
(* besides its generated one, so no insertion ever conflicts.              *)
(***************************************************************************)
EXTENDS Naturals, Sequences, FiniteSets, SequencesExt

CONSTANTS
    ContractIds,        \* the configured contracts, in order
    NumChainEvents,     \* bound on the events the contracts ever emit
    MaxLedger,          \* bound on the ledgers ever closed
    PollLimit,          \* page size of the poller (200)
    BackfillLimit,      \* page size of a backfill (100)
    MaxBackfills,       \* bound on the backfills ever asked for
    MaxIndexerFaults    \* bound on failed statements and restarts

Emitted   == 1 .. NumChainEvents
Ledgers   == 1 .. MaxLedger
Contracts == Range(ContractIds)
Latest    == MaxLedger + 1      \* toLedger left out

ASSUME IndexerAssumption ==
    /\ ContractIds \in Seq(Contracts) /\ ContractIds # << >> /\ "backfill" \notin Contracts
    /\ NumChainEvents \in Nat /\ MaxLedger \in Nat
    /\ PollLimit \in Nat \ {0} /\ BackfillLimit \in Nat \ {0}
    /\ MaxBackfills \in Nat /\ MaxIndexerFaults \in Nat

VARIABLES
    chain,          \* contract and ledger of every event, in ledger order
    head,           \* the last ledger the RPC knows
    rows,           \* rows[e][isBackfill]: copies stored, where 2 is many
    cursor,         \* latestIndexedLedger, 0 for null
    poll,           \* the poller: the contract it is at, and the page it inserts
    job,            \* the backfill that is running
    backfills,      \* number of backfills so far
    indexerFaults,  \* number of faults so far
    movers,         \* history: contracts whose rows moved the cursor, and
                    \* "backfill" if a backfilled row did
    lost            \* history: events not inserted, or deleted again

indexerVars ==
    <<chain, head, rows, cursor, poll, job, backfills, indexerFaults, movers, lost>>

PollFrom(n) == [page |-> <<>>, wrote |-> FALSE, top |-> 0, at |-> n]
NoJob  == [stage |-> "none", contract |-> ContractIds[1], from |-> 0, to |-> 0,
           force |-> FALSE, page |-> <<>>, full |-> FALSE]

IndexerInit ==
    /\ chain \in [Emitted -> [contract : Contracts, ledger : Ledgers]]
    /\ \A d, e \in Emitted : d < e => chain[d].ledger <= chain[e].ledger
    /\ head = 0
    /\ rows = [e \in Emitted |-> [b \in BOOLEAN |-> 0]]
    /\ cursor = 0
    /\ poll = PollFrom(1)
    /\ job = NoJob
    /\ backfills = 0 /\ indexerFaults = 0
    /\ movers = {} /\ lost = {}

IndexerFault == indexerFaults < MaxIndexerFaults /\ indexerFaults' = indexerFaults + 1

-----------------------------------------------------------------------------
(* The network and the table. *)

CloseChainLedger ==
    /\ head < MaxLedger
    /\ head' = head + 1
    /\ UNCHANGED <<chain, rows, cursor, poll, job, backfills, indexerFaults, movers, lost>>

Between(c, from, to) ==
    {e \in Emitted : chain[e].contract = c /\ chain[e].ledger \in from .. to
                       /\ chain[e].ledger <= head}

(* The first events of S in order, as many as fit a page: one sequence. *)
FirstPages(S, limit) ==
    LET n == IF Cardinality(S) < limit THEN Cardinality(S) ELSE limit
    IN  {s \in [1 .. n -> S] :
            /\ \A i, j \in 1 .. n : i < j => s[i] < s[j]
            /\ \A e \in S \ Range(s), i \in 1 .. n : s[i] < e}

(* A slip: the start ledger is taken to be exclusive. *)
PagesAfter(c, from, to, limit) == FirstPages(Between(c, from + 1, to), limit)

(* getEvents: the oldest events of the range, as many as fit a page. *)
EventPages(c, from, to, limit) == FirstPages(Between(c, from, to), limit)

Stored(e) == \E b \in BOOLEAN : rows[e][b] > 0

(* orIgnore has no constraint to ignore: the row is added once more. *)
Inserted(e, isBackfill) ==
    LET copies == rows[e][isBackfill]
    IN  [rows EXCEPT ![e] = [rows[e] EXCEPT ![isBackfill] = IF copies = 2 THEN 2 ELSE copies + 1]]

-----------------------------------------------------------------------------
(* The poller. *)

NextContract == PollFrom((poll.at % Len(ContractIds)) + 1)

(* fetchEventsFromRpc; an unreachable RPC looks like one without events. *)
PollFetch ==
    /\ poll.page = <<>>
    /\ \E page \in {<<>>} \cup EventPages(ContractIds[poll.at], cursor, MaxLedger, PollLimit) :
          poll' = IF page = <<>> THEN NextContract
                  ELSE [poll EXCEPT !.page = page, !.top = chain[Last(page)].ledger]
    /\ UNCHANGED <<chain, head, rows, cursor, job, backfills, indexerFaults, movers, lost>>

(* A slip: the cursor moves behind the page, to a ledger not yet closed.   *)
EndOfPagePast(wrote) ==
    IF Len(poll.page) > 1
    THEN /\ poll' = [poll EXCEPT !.page = Tail(poll.page), !.wrote = wrote]
         /\ UNCHANGED <<cursor, movers>>
    ELSE /\ poll' = NextContract
         /\ cursor' = IF wrote THEN poll.top + 1 ELSE cursor
         /\ movers' = IF wrote /\ poll.top > cursor
                      THEN movers \cup {ContractIds[poll.at]} ELSE movers

(* After the last insertion the cursor moves if any of them succeeded.     *)
EndOfPage(wrote) ==
    IF Len(poll.page) > 1
    THEN /\ poll' = [poll EXCEPT !.page = Tail(poll.page), !.wrote = wrote]
         /\ UNCHANGED <<cursor, movers>>
    ELSE /\ poll' = NextContract
         /\ cursor' = IF wrote THEN poll.top ELSE cursor
         /\ movers' = IF wrote /\ poll.top > cursor
                      THEN movers \cup {ContractIds[poll.at]} ELSE movers

PollInsert ==
    /\ poll.page # <<>>
    /\ rows' = Inserted(Head(poll.page), FALSE)
    /\ lost' = lost \ {Head(poll.page)}
    /\ EndOfPage(TRUE)
    /\ UNCHANGED <<chain, head, job, backfills, indexerFaults>>

(* A failed insertion is logged, and the page goes on without the event. *)
PollInsertFails ==
    /\ poll.page # <<>>
    /\ IndexerFault
    /\ lost' = IF Stored(Head(poll.page)) THEN lost ELSE lost \cup {Head(poll.page)}
    /\ EndOfPage(poll.wrote)
    /\ UNCHANGED <<chain, head, rows, job, backfills>>

(* The process restarts; restoreCursor reads the newest row, or fails. *)
NewestRows ==
    {e \in Emitted : Stored(e) /\ \A d \in Emitted : Stored(d) => chain[d].ledger <= chain[e].ledger}

RestartIndexer ==
    /\ IndexerFault
    /\ poll' = PollFrom(1)
    /\ job' = NoJob
    /\ \/ /\ NewestRows # {}
          /\ \E e \in NewestRows : cursor' = chain[e].ledger
          /\ movers' = movers \cup {chain[e].contract : e \in NewestRows}
                              \cup (IF \E e \in NewestRows : rows[e][TRUE] > 0 THEN {"backfill"} ELSE {})
       \/ cursor' = 0 /\ UNCHANGED movers
    /\ UNCHANGED <<chain, head, rows, backfills, lost>>

-----------------------------------------------------------------------------
(* Backfills. *)

StartBackfill(c, from, to, force) ==
    /\ job.stage = "none" /\ backfills < MaxBackfills
    /\ job' = [NoJob EXCEPT !.stage = "fetch", !.contract = c, !.from = from,
                            !.to = to, !.force = force]
    /\ backfills' = backfills + 1
    /\ UNCHANGED <<chain, head, rows, cursor, poll, indexerFaults, movers, lost>>

BackfillFetch ==
    /\ job.stage = "fetch"
    /\ \E page \in {<<>>} \cup EventPages(job.contract, job.from, job.to, BackfillLimit) :
          job' = IF page = <<>> THEN NoJob
                 ELSE [job EXCEPT !.page = page, !.full = Len(page) >= BackfillLimit,
                                  !.stage = IF job.force THEN "delete" ELSE "insert"]
    /\ UNCHANGED <<chain, head, rows, cursor, poll, backfills, indexerFaults, movers, lost>>

(* force: everything of the contract from the cursor of the backfill on. *)
BackfillDelete ==
    LET gone == {e \in Emitted : chain[e].contract = job.contract /\ chain[e].ledger >= job.from}
    IN  /\ job.stage = "delete"
        /\ rows' = [e \in Emitted |-> IF e \in gone THEN [b \in BOOLEAN |-> 0] ELSE rows[e]]
        /\ lost' = lost \cup {e \in gone : Stored(e)}
        /\ job' = [job EXCEPT !.stage = "insert"]
        /\ UNCHANGED <<chain, head, cursor, poll, backfills, indexerFaults, movers>>

(* The next page begins after the last ledger of this one. *)
EndOfBackfillPage ==
    LET next == chain[Head(job.page)].ledger + 1
    IN  job' = IF Len(job.page) > 1 THEN [job EXCEPT !.page = Tail(job.page)]
               ELSE IF next > job.to \/ ~job.full THEN NoJob
               ELSE [job EXCEPT !.page = <<>>, !.from = next, !.stage = "fetch"]

BackfillInsert ==
    /\ job.stage = "insert"
    /\ \/ /\ rows' = Inserted(Head(job.page), TRUE)
          /\ lost' = lost \ {Head(job.page)}
          /\ UNCHANGED indexerFaults
       \/ IndexerFault /\ UNCHANGED <<rows, lost>>
    /\ EndOfBackfillPage
    /\ UNCHANGED <<chain, head, cursor, poll, backfills, movers>>

-----------------------------------------------------------------------------

IndexerNext ==
    \/ CloseChainLedger
    \/ PollFetch \/ PollInsert \/ PollInsertFails
    \/ RestartIndexer
    \/ \E c \in Contracts, from \in Ledgers, to \in {MaxLedger - 1, Latest}, force \in BOOLEAN :
          StartBackfill(c, from, to, force)
    \/ BackfillFetch \/ BackfillDelete \/ BackfillInsert

IndexerSpec == IndexerInit /\ [][IndexerNext]_indexerVars

-----------------------------------------------------------------------------
(* Properties. *)

IndexerTypeOK ==
    /\ chain \in [Emitted -> [contract : Contracts, ledger : Ledgers]]
    /\ head \in 0 .. MaxLedger /\ cursor \in 0 .. head
    /\ rows \in [Emitted -> [BOOLEAN -> 0 .. 2]]
    /\ poll.at \in 1 .. Len(ContractIds) /\ poll.wrote \in BOOLEAN
    /\ poll.top \in 0 .. MaxLedger
    /\ Len(poll.page) <= PollLimit /\ Range(poll.page) \subseteq Emitted
    /\ job.stage \in {"none", "fetch", "delete", "insert"}
    /\ Len(job.page) <= BackfillLimit /\ Range(job.page) \subseteq Emitted
    /\ backfills \in 0 .. MaxBackfills /\ indexerFaults \in 0 .. MaxIndexerFaults
    /\ movers \subseteq Contracts \cup {"backfill"} /\ lost \subseteq Emitted

(* As long as only rows of one contract, found by the poller, have moved   *)
(* the shared cursor, the index of that contract has no gap behind it:     *)
(* restarts in the middle of a page, pages cut in the middle of a ledger   *)
(* and an unreachable RPC lose nothing.  The events that are missing are   *)
(* those whose insertion failed or that a forced backfill deleted.         *)
IndexIsComplete ==
    \A c \in Contracts : movers \subseteq {c} =>
        \A e \in Emitted :
            chain[e].contract = c /\ chain[e].ledger < cursor => Stored(e) \/ e \in lost
=============================================================================
