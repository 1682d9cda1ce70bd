----------------------------- MODULE CacheService -----------------------------
(***************************************************************************)
(* The read-through cache in front of the database, for one key: several   *)
(* instances of the backend share one Redis.  An instance sends its        *)
(* commands over one connection, which delivers them in order.  The record *)
(* behind the key is abstracted to its version, the number of writes.      *)
(***************************************************************************)
EXTENDS Naturals, Sequences, FiniteSetsExt

CONSTANTS
    Instances,          \* processes of the backend
    Calls,              \* ids of the calls of getOrSet
    MaxWrites,          \* bound on writes of the record
    MaxCacheFaults      \* bound on failed commands and failed loaders

NoCall == "null"

ASSUME CacheAssumption ==
    NoCall \notin Calls /\ Instances # {} /\ MaxWrites \in Nat /\ MaxCacheFaults \in Nat

VARIABLES
    record,                 \* version of the record in the database
    cached,                 \* the entry in Redis, if any: a set of at most one
    wire,                   \* commands on the connection of every instance
    invalidationVersion,    \* of every instance
    inFlight,               \* the call that loads, in every instance
    calls,                  \* calls of getOrSet
    writes,                 \* what the writer of every version does next
    cacheFaults,
    invalidated             \* history: newest version whose invalidation by
                            \* an instance has run at Redis

cacheVars == <<record, cached, wire, invalidationVersion, inFlight, calls, writes,
               cacheFaults, invalidated>>

Versions  == 1 .. MaxWrites
CallSteps == {"none", "get", "missed", "load", "store", "set", "wait", "done"}
Commands  == [op : {"get", "set"}, of : Calls] \cup [op : {"del", "keys"}, of : Versions]
AnyInstance == CHOOSE i \in Instances : TRUE

CacheInit ==
    /\ record = 0 /\ cached = {}
    /\ wire = [i \in Instances |-> << >>]
    /\ invalidationVersion = [i \in Instances |-> 0]
    /\ inFlight = [i \in Instances |-> NoCall]
    /\ calls = [c \in Calls |-> [step |-> "none", at |-> AnyInstance, seen |-> 0, value |-> 0]]
    /\ writes = [w \in Versions |-> [step |-> "none", at |-> AnyInstance]]
    /\ cacheFaults = 0
    /\ invalidated = [i \in Instances |-> 0]

Send(i, op, of) == wire' = [wire EXCEPT ![i] = Append(@, [op |-> op, of |-> of])]

-----------------------------------------------------------------------------
(* getOrSet *)

BeginGet(c, i) ==
    /\ calls[c].step = "none"
    /\ calls' = [calls EXCEPT ![c] = [step |-> "get", at |-> i,
                                      seen |-> invalidationVersion[i], value |-> 0]]
    /\ Send(i, "get", c)
    /\ UNCHANGED <<record, cached, invalidationVersion, inFlight, writes, cacheFaults, invalidated>>

(* After a miss the call joins the loader of its instance or becomes it. *)
JoinOrLoad(c) ==
    LET i == calls[c].at IN
    /\ calls[c].step = "missed"
    /\ IF inFlight[i] # NoCall
       THEN calls' = [calls EXCEPT ![c].step = "wait"] /\ UNCHANGED inFlight
       ELSE calls' = [calls EXCEPT ![c].step = "load"] /\ inFlight' = [inFlight EXCEPT ![i] = c]
    /\ UNCHANGED <<record, cached, wire, invalidationVersion, writes, cacheFaults, invalidated>>

Load(c) ==
    /\ calls[c].step = "load"
    /\ calls' = [calls EXCEPT ![c].step = "store", ![c].value = record]
    /\ UNCHANGED <<record, cached, wire, invalidationVersion, inFlight, writes, cacheFaults, invalidated>>

(* The loader leaves inFlight, and every call that waits gets its answer. *)
Settle(c) ==
    /\ calls' = [d \in Calls |->
                    IF d = c \/ (calls[d].step = "wait" /\ calls[d].at = calls[c].at)
                    THEN [calls[d] EXCEPT !.step = "done", !.value = calls[c].value]
                    ELSE calls[d]]
    /\ inFlight' = [inFlight EXCEPT ![calls[c].at] = NoCall]

(* A slip: the loaded value is stored whatever happened since. *)
StoreUnchecked(c) ==
    /\ calls[c].step = "store"
    /\ Send(calls[c].at, "set", c)
    /\ calls' = [calls EXCEPT ![c].step = "set"] /\ UNCHANGED inFlight
    /\ UNCHANGED <<record, cached, invalidationVersion, writes, cacheFaults, invalidated>>

(* A value loaded while its instance invalidated anything is not stored. *)
Store(c) ==
    /\ calls[c].step = "store"
    /\ IF calls[c].seen = invalidationVersion[calls[c].at]
       THEN /\ Send(calls[c].at, "set", c)
            /\ calls' = [calls EXCEPT ![c].step = "set"] /\ UNCHANGED inFlight
       ELSE Settle(c) /\ UNCHANGED wire
    /\ UNCHANGED <<record, cached, invalidationVersion, writes, cacheFaults, invalidated>>

LoaderFails(c) ==
    /\ calls[c].step = "load"
    /\ cacheFaults < MaxCacheFaults /\ cacheFaults' = cacheFaults + 1
    /\ Settle(c)
    /\ UNCHANGED <<record, cached, wire, invalidationVersion, writes, invalidated>>

-----------------------------------------------------------------------------
(* A caller writes the record, then calls invalidate or invalidatePrefix. *)

WriteRecord(i) ==
    /\ record < MaxWrites
    /\ record' = record + 1
    /\ writes' = [writes EXCEPT ![record'] = [step |-> "written", at |-> i]]
    /\ UNCHANGED <<cached, wire, invalidationVersion, inFlight, calls, cacheFaults, invalidated>>

(* invalidate sends DEL at once, invalidatePrefix looks for the keys first. *)
Invalidate(w) ==
    LET i == writes[w].at IN
    /\ writes[w].step = "written"
    /\ invalidationVersion' = [invalidationVersion EXCEPT ![i] = @ + 1]
    /\ \E op \in {"del", "keys"} : Send(i, op, w)
    /\ writes' = [writes EXCEPT ![w].step = "sent"]
    /\ UNCHANGED <<record, cached, inFlight, calls, cacheFaults, invalidated>>

DeleteFound(w) ==
    /\ writes[w].step = "found"
    /\ Send(writes[w].at, "del", w)
    /\ writes' = [writes EXCEPT ![w].step = "sent"]
    /\ UNCHANGED <<record, cached, invalidationVersion, inFlight, calls, cacheFaults, invalidated>>

-----------------------------------------------------------------------------
(* Redis runs the next command of a connection. *)

HeadIs(i, op) == wire[i] # << >> /\ Head(wire[i]).op = op
Consume(i)   == wire' = [wire EXCEPT ![i] = Tail(@)]
Invalidated(i, w) ==
    /\ writes' = [writes EXCEPT ![w].step = "done"]
    /\ invalidated' = [invalidated EXCEPT ![i] = Max({@, w})]

RedisGet(i) ==
    LET c == Head(wire[i]).of IN
    /\ HeadIs(i, "get")
    /\ Consume(i)
    /\ IF cached = {} THEN calls' = [calls EXCEPT ![c].step = "missed"]
       ELSE \E e \in cached :
                 calls' = [calls EXCEPT ![c] = [calls[c] EXCEPT !.step = "done", !.value = e.value]]
    /\ UNCHANGED <<record, cached, invalidationVersion, inFlight, writes, cacheFaults, invalidated>>

RedisSet(i) ==
    LET c == Head(wire[i]).of IN
    /\ HeadIs(i, "set")
    /\ Consume(i)
    /\ cached' = {[value |-> calls[c].value, by |-> i]}
    /\ Settle(c)
    /\ UNCHANGED <<record, invalidationVersion, writes, cacheFaults, invalidated>>

RedisDel(i) ==
    /\ HeadIs(i, "del")
    /\ Consume(i)
    /\ cached' = {}
    /\ Invalidated(i, Head(wire[i]).of)
    /\ UNCHANGED <<record, invalidationVersion, inFlight, calls, cacheFaults>>

RedisKeys(i) ==
    LET w == Head(wire[i]).of IN
    /\ HeadIs(i, "keys")
    /\ Consume(i)
    /\ IF cached = {} THEN Invalidated(i, w)
       ELSE writes' = [writes EXCEPT ![w].step = "found"] /\ UNCHANGED invalidated
    /\ UNCHANGED <<record, cached, invalidationVersion, inFlight, calls, cacheFaults>>

RedisExpires ==
    /\ cached # {} /\ cached' = {}
    /\ UNCHANGED <<record, wire, invalidationVersion, inFlight, calls, writes, cacheFaults, invalidated>>

(* A command fails and has no effect; its caller logs a warning and goes on. *)
CommandFails(i) ==
    /\ wire[i] # << >>
    /\ cacheFaults < MaxCacheFaults /\ cacheFaults' = cacheFaults + 1
    /\ Consume(i)
    /\ LET cmd == Head(wire[i]) IN
       \/ /\ cmd.op = "get"
          /\ calls' = [calls EXCEPT ![cmd.of].step = "missed"] /\ UNCHANGED <<inFlight, writes>>
       \/ cmd.op = "set" /\ Settle(cmd.of) /\ UNCHANGED writes
       \/ /\ cmd.op \in {"del", "keys"}
          /\ writes' = [writes EXCEPT ![cmd.of].step = "done"] /\ UNCHANGED <<calls, inFlight>>
    /\ UNCHANGED <<record, cached, invalidationVersion, invalidated>>

-----------------------------------------------------------------------------

CacheNext ==
    \/ \E c \in Calls :
          \/ \E i \in Instances : BeginGet(c, i)
          \/ JoinOrLoad(c) \/ Load(c) \/ Store(c) \/ LoaderFails(c)
    \/ \E w \in Versions : Invalidate(w) \/ DeleteFound(w)
    \/ \E i \in Instances :
          WriteRecord(i) \/ RedisGet(i) \/ RedisSet(i) \/ RedisDel(i) \/ RedisKeys(i) \/ CommandFails(i)
    \/ RedisExpires

CacheSpec == CacheInit /\ [][CacheNext]_cacheVars

-----------------------------------------------------------------------------
(* Properties. *)

CacheTypeOK ==
    /\ record \in 0 .. MaxWrites
    /\ cached \subseteq [value : 0 .. MaxWrites, by : Instances]
    /\ wire \in [Instances -> Seq(Commands)]
    /\ invalidationVersion \in [Instances -> 0 .. MaxWrites]
    /\ inFlight \in [Instances -> Calls \cup {NoCall}]
    /\ calls \in [Calls -> [step : CallSteps, at : Instances,
                            seen : 0 .. MaxWrites, value : 0 .. MaxWrites]]
    /\ writes \in [Versions -> [step : {"none", "written", "sent", "found", "done"}, at : Instances]]
    /\ cacheFaults \in 0 .. MaxCacheFaults
    /\ invalidated \in [Instances -> 0 .. MaxWrites]

(* Once an instance has invalidated what it wrote, no entry it stores is   *)
(* older, however its loads and invalidations overlap: such an entry can   *)
(* only come from another instance, which does not see the counter.  And   *)
(* no call waits for a loader that is gone.                                *)
StaleOnlyByOthers ==
    /\ \A i \in Instances : \A e \in cached : e.value < invalidated[i] => e.by # i
    /\ \A c \in Calls : calls[c].step = "wait" => inFlight[calls[c].at] # NoCall
=============================================================================
