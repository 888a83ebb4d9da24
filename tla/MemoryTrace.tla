----------------------------- MODULE MemoryTrace -----------------------------
(***************************************************************************)
(* The observers of the guest's memory requests: Observed of               *)
(* mapped_trace.rs with its fetch flow, fetch, load and store watches and  *)
(* ring, and ObservedMemory of memory_observation.rs, which keeps the same *)
(* ring with a write position instead of the running total.  Both are fed  *)
(* the same requests; what they keep in bounded arrays is compared with    *)
(* the whole history.  All watches are configured.                         *)
(*                                                                         *)
(* Counters saturate at 2^64 in the code; a run is far shorter.            *)
(***************************************************************************)
EXTENDS Naturals, Sequences, SequencesExt

CONSTANTS
    Requests,    \* [op, pc, address, value, result] the guest may make
    Capacity,    \* CAPACITY = 64
    FirstEdges,  \* FIRST_FLOW_EDGES = 32
    LastEdges,   \* LAST_FLOW_EDGES = 16
    FollowEdges, \* WATCH_FOLLOW_EDGES = 16
    WatchFrom,   \* the fetch watch's address
    WatchPc,     \* the pc of the load and the store watch
    Threshold,   \* the load watch's threshold
    Alias,       \* the addresses of one stage-1 alias
    MaxRequests  \* bound on the length of a run

ASSUME MemoryTraceAssumption ==
    /\ {Capacity, FirstEdges, LastEdges, FollowEdges} \subseteq Nat \ {0}
    /\ {WatchFrom, WatchPc, Threshold, MaxRequests} \subseteq Nat
    /\ \A q \in Requests : /\ q.op \in {"FETCH", "LOAD", "STORE"}
                           /\ q.result \in {"OK", "FAULT"}
                           /\ {q.pc, q.address, q.value} \subseteq Nat

None == [sequence |-> 0, from |-> 0, to |-> 0]     \* FlowEdge::default()
Edge(s, f, t) == [sequence |-> s, from |-> f, to |-> t]

VARIABLES
    history,  \* every request so far
    ring,     \* Observed.ring: slot -> [sequence, request]
    total,    \* Observed.total
    mring,    \* ObservedMemory.ring
    mnext,    \* ObservedMemory.next
    mlen,     \* ObservedMemory.len
    flow,     \* FetchFlow without its arrays: fetches, previous, edges
    first,    \* FetchFlow.first
    last,     \* FetchFlow.last
    watch,    \* FetchWatch
    load,     \* LoadWatch
    store,    \* StoreWatch
    alias     \* fetches, successful_fetches and first_fetch of the alias

traceVars ==
    <<history, ring, total, mring, mnext, mlen, flow, first, last, watch, load, store, alias>>

Slots(n) == 0..(n - 1)
Empty == [sequence |-> 0,
          request |-> [op |-> "NONE", pc |-> 0, address |-> 0, value |-> 0, result |-> "OK"]]
NoPc == <<>>   \* Option<u64>: None, and <<a>> for Some(a)

TraceTypeOK ==
    /\ history \in Seq(Requests) /\ Len(history) <= MaxRequests
    /\ DOMAIN ring = Slots(Capacity) /\ DOMAIN mring = Slots(Capacity)
    /\ total \in Nat /\ mnext \in Slots(Capacity) /\ mlen \in 0..Capacity
    /\ DOMAIN first = Slots(FirstEdges) /\ DOMAIN last = Slots(LastEdges)
    /\ flow.fetches \in Nat /\ flow.edges \in Nat
    /\ watch.count \in 0..FollowEdges /\ DOMAIN watch.follow = Slots(FollowEdges)
    /\ load.requests >= load.successful /\ store.requests >= store.successful
    /\ alias.requests >= alias.successful

\* LoadWatch::configured.
LoadStart ==
    [requests |-> 0, successful |-> 0, firstAddress |-> 0, lastAddress |-> 0, lastValue |-> 0,
     forward |-> 0, backward |-> 0, repeated |-> 0, changes |-> 0, crossed |-> None]

\* StoreWatch::configured.
StoreStart ==
    [requests |-> 0, successful |-> 0, firstAddress |-> 0, firstValue |-> 0, lastAddress |-> 0,
     lastValue |-> 0, forward |-> 0, backward |-> 0, repeated |-> 0]

\* FetchWatch::configured.
WatchStart ==
    [visits |-> 0, fallthrough |-> 0, taken |-> None, count |-> 0,
     follow |-> [s \in Slots(FollowEdges) |-> None]]

\* FetchFlow::default.
FlowStart ==
    /\ flow = [fetches |-> 0, previous |-> NoPc, edges |-> 0]
    /\ first = [s \in Slots(FirstEdges) |-> None]
    /\ last = [s \in Slots(LastEdges) |-> None]

\* ObservedMemory::new.
MemoryStart == mring = [s \in Slots(Capacity) |-> Empty] /\ mnext = 0 /\ mlen = 0

\* Observed as run makes it.
TraceInit ==
    /\ history = <<>>
    /\ ring = [s \in Slots(Capacity) |-> Empty] /\ total = 0
    /\ MemoryStart
    /\ FlowStart
    /\ watch = WatchStart
    /\ load = LoadStart
    /\ store = StoreStart
    /\ alias = [requests |-> 0, successful |-> 0, firstFetch |-> NoPc]

-----------------------------------------------------------------------------
(* The rings                                                               *)

Entry(q) == [sequence |-> total + 1, request |-> q]

\* observed(): the slot is the number of requests before this one.
RecordRing(q) ==
    /\ ring' = [ring EXCEPT ![total % Capacity] = Entry(q)]
    /\ total' = total + 1

\* ObservedMemory::execute.
RecordMemory(q) ==
    /\ mring' = [mring EXCEPT ![mnext] = Entry(q)]
    /\ mnext' = (mnext + 1) % Capacity
    /\ mlen' = IF mlen < Capacity THEN mlen + 1 ELSE Capacity

-----------------------------------------------------------------------------
(* The fetch flow                                                          *)

Sequential(f, t) == t = f + 4

\* Room is left, and the watched branch has been taken.
Follows(w, taken) == taken # None /\ w.count < FollowEdges

\* FetchWatch::record(previous, pc, sequence).
WatchRecord(w, prev, pc, s) ==
    LET visited == prev = WatchFrom
        through == Sequential(prev, pc)
        taken == IF visited /\ ~through /\ w.taken = None THEN Edge(s, prev, pc) ELSE w.taken
        follows == ~through /\ Follows(w, taken)
    IN  [visits |-> w.visits + (IF visited THEN 1 ELSE 0),
         fallthrough |-> w.fallthrough + (IF visited /\ through THEN 1 ELSE 0),
         taken |-> taken,
         count |-> w.count + (IF follows THEN 1 ELSE 0),
         follow |-> IF follows THEN [w.follow EXCEPT ![w.count] = Edge(s, prev, pc)]
                    ELSE w.follow]

\* FetchFlow::record(pc), the fetch watch first.
FlowRecord(pc) ==
    LET s == flow.fetches + 1
        linked == flow.previous # NoPc
        edge == linked /\ ~Sequential(flow.previous[1], pc)
        prev == flow.previous[1]
        e == Edge(s, prev, pc)
    IN  /\ watch' = IF linked THEN WatchRecord(watch, prev, pc, s) ELSE watch
        /\ first' = IF edge /\ flow.edges < FirstEdges
                    THEN [first EXCEPT ![flow.edges] = e] ELSE first
        /\ last' = IF edge THEN [last EXCEPT ![flow.edges % LastEdges] = e] ELSE last
        /\ flow' = [fetches |-> s, previous |-> <<pc>>,
                    edges |-> flow.edges + (IF edge THEN 1 ELSE 0)]

-----------------------------------------------------------------------------
(* The load and store watches and the alias                                *)

\* The direction of an access after the first successful one.
Direction(w, a) ==
    IF w.successful = 0 THEN "none"
    ELSE IF a > w.lastAddress THEN "forward"
    ELSE IF a < w.lastAddress THEN "backward" ELSE "repeated"

Bump(n, yes) == IF yes THEN n + 1 ELSE n

\* The first crossing of the threshold from below.
Crosses(a) ==
    /\ load.successful > 0 /\ load.crossed = None
    /\ load.lastAddress < Threshold /\ a >= Threshold

\* LoadWatch::record: only successful loads move the last address.
LoadRecord(q) ==
    IF q.op # "LOAD" \/ q.pc # WatchPc THEN load
    ELSE IF q.result # "OK" THEN [load EXCEPT !.requests = @ + 1]
    ELSE [requests |-> load.requests + 1,
          successful |-> load.successful + 1,
          firstAddress |-> IF load.successful = 0 THEN q.address ELSE load.firstAddress,
          lastAddress |-> q.address,
          lastValue |-> q.value,
          forward |-> Bump(load.forward, Direction(load, q.address) = "forward"),
          backward |-> Bump(load.backward, Direction(load, q.address) = "backward"),
          repeated |-> Bump(load.repeated, Direction(load, q.address) = "repeated"),
          changes |-> Bump(load.changes, load.successful > 0 /\ q.value # load.lastValue),
          crossed |-> IF Crosses(q.address)
                      THEN Edge(load.successful + 1, load.lastAddress, q.address)
                      ELSE load.crossed]

\* StoreWatch::record.
StoreRecord(q) ==
    IF q.op # "STORE" \/ q.pc # WatchPc THEN store
    ELSE IF q.result # "OK" THEN [store EXCEPT !.requests = @ + 1]
    ELSE [requests |-> store.requests + 1,
          successful |-> store.successful + 1,
          firstAddress |-> IF store.successful = 0 THEN q.address ELSE store.firstAddress,
          firstValue |-> IF store.successful = 0 THEN q.value ELSE store.firstValue,
          lastAddress |-> q.address,
          lastValue |-> q.value,
          forward |-> Bump(store.forward, Direction(store, q.address) = "forward"),
          backward |-> Bump(store.backward, Direction(store, q.address) = "backward"),
          repeated |-> Bump(store.repeated, Direction(store, q.address) = "repeated")]

\* The fetches in an alias, failed ones included.
AliasRecord(q) ==
    IF q.op # "FETCH" \/ q.address \notin Alias THEN alias
    ELSE [requests |-> alias.requests + 1,
          successful |-> Bump(alias.successful, q.result = "OK"),
          firstFetch |-> IF alias.firstFetch = NoPc THEN <<q.address>> ELSE alias.firstFetch]

\* One callback: the service has answered, and everything is recorded.
Observe(q) ==
    /\ history' = Append(history, q)
    /\ load' = LoadRecord(q)
    /\ store' = StoreRecord(q)
    /\ \/ q.op = "FETCH" /\ q.result = "OK" /\ FlowRecord(q.address)
       \/ ~(q.op = "FETCH" /\ q.result = "OK") /\ UNCHANGED <<flow, first, last, watch>>
    /\ alias' = AliasRecord(q)
    /\ RecordRing(q)
    /\ RecordMemory(q)

TraceNext ==
    \/ /\ Len(history) < MaxRequests
       /\ \E q \in Requests : Observe(q)
    \/ Len(history) = MaxRequests /\ UNCHANGED traceVars

TraceSpec == TraceInit /\ [][TraceNext]_traceVars

-----------------------------------------------------------------------------
(* What is reported                                                        *)

Least(a, b) == IF a < b THEN a ELSE b

\* The ring in the order in which it is reported.
Reported == [i \in 1..Least(total, Capacity) |->
                ring[(total - Least(total, Capacity) + i - 1) % Capacity]]

\* ObservedMemory::entries.
Entries ==
    LET start == IF mlen = Capacity THEN mnext ELSE 0
    IN  [i \in 1..mlen |-> mring[(start + i - 1) % Capacity]]

FirstReported == [i \in 1..Least(flow.edges, FirstEdges) |-> first[i - 1]]

\* Mutant: the last edges are reported from slot 0.
LastReportedFromZero ==
    IF flow.edges <= FirstEdges THEN <<>>
    ELSE [i \in 1..Least(flow.edges, LastEdges) |-> last[i - 1]]

\* The last edges, in the order in which they are reported; only when there
\* are more than the first ones.
LastReported ==
    LET n == IF flow.edges > FirstEdges THEN Least(flow.edges, LastEdges) ELSE 0
    IN  [i \in 1..n |-> last[(flow.edges - n + i - 1) % LastEdges]]

Followed == [i \in 1..watch.count |-> watch.follow[i - 1]]

-----------------------------------------------------------------------------
(* Properties                                                              *)

\* The elements of s that are in S, in their order: SelectSeq with the test as a
\* set.
Kept(s, S) ==
    LET kept[n \in 0..Len(s)] ==
            IF n = 0 THEN <<>>
            ELSE IF s[n] \in S THEN Append(kept[n - 1], s[n]) ELSE kept[n - 1]
    IN  kept[Len(s)]

Tail_(s, n) == SubSeq(s, Len(s) - Least(Len(s), n) + 1, Len(s))
Front_(s, n) == SubSeq(s, 1, Least(Len(s), n))

\* The requests and edges that are told apart: successful fetches, edges that
\* are not in sequence, branches at the watched address, edges from number n
\* on, and successful loads at the watched pc.
FlowEdges == [sequence : Nat, from : Nat, to : Nat]
Fetches == {q \in Requests : q.op = "FETCH" /\ q.result = "OK"}
Jumps == {e \in FlowEdges : ~Sequential(e.from, e.to)}
Branches == {e \in FlowEdges : e.from = WatchFrom}
From(n) == {e \in FlowEdges : e.sequence >= n}
WatchedLoads == {q \in Requests : q.op = "LOAD" /\ q.pc = WatchPc /\ q.result = "OK"}

\* Every step from a fetch to the next, and every edge of the history.
Steps(fetched) ==
    [i \in 1..(IF fetched = <<>> THEN 0 ELSE Len(fetched) - 1) |->
        Edge(i + 1, fetched[i].address, fetched[i + 1].address)]
Edges == Kept(Steps(Kept(history, Fetches)), Jumps)

\* The edges from the first branch taken on.
After(edges) ==
    LET taken == Kept(edges, Branches)
    IN  IF taken = <<>> THEN <<>> ELSE Kept(edges, From(taken[1].sequence))

\* The loads that pass the threshold upwards.
Crossings(loads) ==
    {i \in 2..Len(loads) : loads[i - 1].address < Threshold /\ loads[i].address >= Threshold}

\* Both rings report the last Capacity requests, each with its number, in
\* the order in which they were made, before and after they wrap.
RingIsTail ==
    LET numbered == [i \in 1..Len(history) |-> [sequence |-> i, request |-> history[i]]]
    IN  /\ Reported = Tail_(numbered, Capacity)
        /\ Entries = Reported

\* The fetch flow reports the first FirstEdges edges and, when there are
\* more, the last LastEdges edges of the whole history in order, and counts
\* them all (FetchFlow).
FlowIsExact ==
    LET edges == Edges
    IN  /\ flow.edges = Len(edges)
        /\ FirstReported = Front_(edges, FirstEdges)
        /\ LastReported = IF Len(edges) > FirstEdges THEN Tail_(edges, LastEdges) ELSE <<>>

\* The fetch watch keeps the first taken branch at its address and the edges
\* from there on (FetchWatch).
WatchIsExact ==
    LET edges == Edges
        taken == Kept(edges, Branches)
    IN  /\ watch.taken = IF taken = <<>> THEN None ELSE taken[1]
        /\ Followed = Front_(After(edges), FollowEdges)
        /\ watch.visits = watch.fallthrough + Len(taken)

\* The load watch reports the first upward crossing of the threshold between
\* two successful loads at its pc, whatever failed or ran elsewhere between
\* them, and the directions of both watches add up (LoadWatch, StoreWatch).
LoadsAreExact ==
    LET loads == Kept(history, WatchedLoads)
        crossings == Crossings(loads)
    IN  /\ load.successful = Len(loads)
        /\ IF crossings = {} THEN load.crossed = None
           ELSE LET i == Min(crossings)
                IN  load.crossed = Edge(i, loads[i - 1].address, loads[i].address)
        /\ loads # <<>> => load.forward + load.backward + load.repeated + 1 = load.successful
        /\ store.successful > 0 =>
             store.forward + store.backward + store.repeated + 1 = store.successful

\* The bounded arrays the observers report from agree with the whole history
\* of requests, before and after they wrap: the two rings, the fetch flow,
\* the fetch watch and the load and store watches (mapped_trace.rs,
\* memory_observation.rs).
WindowsAreExact == RingIsTail /\ FlowIsExact /\ WatchIsExact /\ LoadsAreExact
=============================================================================
