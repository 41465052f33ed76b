------------------------------- MODULE Throttle -------------------------------
(***************************************************************************)
(* What holds clients back (security.py, routes/files.py): the limit on    *)
(* the chunks of an upload, kept in the database for all workers; the      *)
(* limits on a client, kept in the memory of each worker; and the slots    *)
(* for chunk requests of a client, likewise.  A limiter reads the time     *)
(* before it waits for its lock, so hits are recorded late and out of      *)
(* order, and the cleaner prunes what it takes for idle buckets.           *)
(***************************************************************************)
EXTENDS Naturals, Sequences, FiniteSets

CONSTANTS
    Processes, Threads,       \* workers, and the threads of each
    Clients,                  \* addresses
    Slots,                    \* MAX_CONCURRENT_CHUNKS_PER_IP
    ChunkLimit, ChunkWindow,  \* CHUNK_RATE_LIMIT, CHUNK_RATE_WINDOW
    ClientLimit, RateWindow,  \* any limit on an address, RATE_WINDOW
    Threshold,                \* _MEMORY_SWEEP_THRESHOLD
    Lag,                      \* bound: wait between reading the time and the lock
    MaxClock, MaxArrivals     \* bounds: the last tick, and requests that arrive

ASSUME ThrottleBounds ==
    /\ MaxArrivals \in Nat /\ MaxClock \in Nat /\ Slots \in Nat \ {0}
    /\ {ChunkLimit, ClientLimit, Threshold, Lag, ChunkWindow, RateWindow} \subseteq Nat
    /\ Lag < ChunkWindow /\ Lag < RateWindow
    /\ IsFiniteSet(Processes) /\ IsFiniteSet(Threads)

VARIABLES
    clock,
    dbHits,    \* table rate_limit_hits, the bucket of one upload
    slotsOf,   \* _chunk_ip_count of each process: [client -> slots, 0 if absent]
    memHits,   \* _memory_hits of each process: [client -> bucket, NoHits if absent]
    serving,   \* [thread -> where its request is, from whom, the time it read]
    arrived,   \* requests so far
    chunksIn,  \* history: when chunks of the upload were let in
    letIn      \* history: [process, client -> when its requests were let in]

throttleVars == <<clock, dbHits, slotsOf, memHits, serving, arrived, chunksIn, letIn>>

Serving == Processes \X Threads
ProcessOf(h) == h[1]
NoRequest == [pc |-> "idle"]
NoClients(of) == [p \in Processes |-> [c \in Clients |-> of]]

\* The hits of a bucket in their order, as a function: hit n is the time read by
\* the n-th request that was let in, and what is pruned leaves a gap.
NoHits == [n \in {} |-> 0]
Only(hits, live) == [n \in live |-> hits[n]]
WithHit(hits, live, n, now) ==
    [m \in live \cup {n} |-> IF m = n THEN now ELSE hits[m]]

ThrottleInit ==
    /\ clock = 0 /\ arrived = 0
    /\ dbHits = NoHits /\ chunksIn = <<>>
    /\ slotsOf = NoClients(0) /\ memHits = NoClients(NoHits) /\ letIn = NoClients(<<>>)
    /\ serving = [h \in Serving |-> NoRequest]

\* busy_timeout, and threads that run: nobody waits for a lock longer than Lag.
TimePasses ==
    /\ clock < MaxClock /\ clock' = clock + 1
    /\ \A h \in Serving :
          serving[h].pc \in {"limit", "check"} => clock' <= serving[h].now + Lag
    /\ UNCHANGED <<dbHits, slotsOf, memHits, serving, arrived, chunksIn, letIn>>

Arrives(h, c, pc) ==
    /\ serving[h] = NoRequest /\ arrived < MaxArrivals
    /\ serving' = [serving EXCEPT ![h] = [pc |-> pc, client |-> c, now |-> clock]]
    /\ arrived' = arrived + 1

Goes(h, pc) == serving' = [serving EXCEPT ![h].pc = pc]
IsOver(h) == serving' = [serving EXCEPT ![h] = NoRequest]

\* api_upload_chunk up to rate_limit's BEGIN IMMEDIATE; a client without a free
\* slot is refused.
AcquireSlot(h, c) ==
    /\ slotsOf[ProcessOf(h)][c] < Slots
    /\ slotsOf' = [slotsOf EXCEPT ![ProcessOf(h)][c] = @ + 1]
    /\ Arrives(h, c, "limit")
    /\ UNCHANGED <<clock, dbHits, memHits, chunksIn, letIn>>

\* Mutant: a hit that is as old as the window is pruned.
PrunedTooEarly(now, window) == {n \in DOMAIN dbHits : dbHits[n] + window > now}

\* DELETE ... WHERE ts < cutoff.  The cutoff of the code is now less the window;
\* here the window is on the other side, since there are no negative numbers.
Pruned(now, window) == {n \in DOMAIN dbHits : dbHits[n] + window >= now}

\* rate_limit, one transaction; when it refuses, it rolls its DELETE back too.
LimitChunks(h) ==
    LET live == Pruned(serving[h].now, ChunkWindow) IN
    /\ serving[h].pc = "limit"
    /\ \/ /\ Cardinality(live) < ChunkLimit
          /\ dbHits' = WithHit(dbHits, live, Len(chunksIn) + 1, serving[h].now)
          /\ chunksIn' = Append(chunksIn, clock)
       \/ Cardinality(live) >= ChunkLimit /\ UNCHANGED <<dbHits, chunksIn>>
    /\ Goes(h, "release")
    /\ UNCHANGED <<clock, slotsOf, memHits, arrived, letIn>>

\* It raises, having waited for the lock in vain.
LimiterRaises(h) ==
    /\ serving[h].pc = "limit" /\ Goes(h, "release")
    /\ UNCHANGED <<clock, dbHits, slotsOf, memHits, arrived, chunksIn, letIn>>

\* Mutant: the count of a client is dropped by whoever is done first.
Forgets(p, c) == 0

LessOne(p, c) == IF slotsOf[p][c] <= 1 THEN 0 ELSE slotsOf[p][c] - 1

\* The finally clause of api_upload_chunk, whichever way the rest of it ended
ReleaseSlot(h) ==
    LET p == ProcessOf(h)  c == serving[h].client IN
    /\ serving[h].pc = "release"
    /\ slotsOf' = [slotsOf EXCEPT ![p][c] = LessOne(p, c)]
    /\ IsOver(h)
    /\ UNCHANGED <<clock, dbHits, memHits, arrived, chunksIn, letIn>>

\* Any other request, up to the lock of rate_limit_mem
Asks(h, c) ==
    /\ Arrives(h, c, "check")
    /\ UNCHANGED <<clock, dbHits, slotsOf, memHits, chunksIn, letIn>>

\* "if the newest hit is older than the cutoff, all are"; it is the last that is
\* looked at, which may not be the newest.
Lapsed(hits, now) ==
    \E n \in DOMAIN hits :
        (\A m \in DOMAIN hits : m <= n) /\ hits[n] + RateWindow <= now

\* A process with many buckets sweeps all that lapsed.
Swept(p, now) ==
    IF Cardinality({c \in Clients : memHits[p][c] # NoHits}) < Threshold THEN memHits[p]
    ELSE [c \in Clients |-> IF Lapsed(memHits[p][c], now) THEN NoHits ELSE memHits[p][c]]

\* rate_limit_mem
CheckLimit(h) ==
    LET p == ProcessOf(h)  c == serving[h].client  now == serving[h].now
        kept == Swept(p, now)
        live == {n \in DOMAIN kept[c] : kept[c][n] + RateWindow > now}
        number == Len(letIn[p][c]) + 1
    IN  /\ serving[h].pc = "check" /\ IsOver(h)
        /\ \/ /\ Cardinality(live) < ClientLimit
              /\ memHits' = [memHits EXCEPT ![p] =
                     [kept EXCEPT ![c] = WithHit(kept[c], live, number, now)]]
              /\ letIn' = [letIn EXCEPT ![p][c] = Append(@, clock)]
           \/ /\ Cardinality(live) >= ClientLimit
              /\ memHits' = [memHits EXCEPT ![p] = [kept EXCEPT ![c] = Only(kept[c], live)]]
              /\ UNCHANGED letIn
        /\ UNCHANGED <<clock, dbHits, slotsOf, arrived, chunksIn>>

\* run_cleanup_once prunes every bucket by RATE_WINDOW, at a time it read before.
PruneHits ==
    /\ \E now \in 0 .. clock : dbHits' = Only(dbHits, Pruned(now, RateWindow))
    /\ UNCHANGED <<clock, slotsOf, memHits, serving, arrived, chunksIn, letIn>>

\* A worker dies, and its successor starts with an empty memory.
Dies(p) ==
    /\ \E h \in Serving : ProcessOf(h) = p /\ serving[h] # NoRequest
    /\ serving' = [h \in Serving |-> IF ProcessOf(h) = p THEN NoRequest ELSE serving[h]]
    /\ slotsOf' = [slotsOf EXCEPT ![p] = [c \in Clients |-> 0]]
    /\ memHits' = [memHits EXCEPT ![p] = [c \in Clients |-> NoHits]]
    /\ letIn' = [letIn EXCEPT ![p] = [c \in Clients |-> <<>>]]
    /\ UNCHANGED <<clock, dbHits, arrived, chunksIn>>

ThrottleStep ==
    \/ TimePasses \/ PruneHits \/ \E p \in Processes : Dies(p)
    \/ \E h \in Serving :
          \/ LimitChunks(h) \/ LimiterRaises(h) \/ ReleaseSlot(h) \/ CheckLimit(h)
          \/ \E c \in Clients : AcquireSlot(h, c) \/ Asks(h, c)

ThrottleSpec == ThrottleInit /\ [][ThrottleStep]_throttleVars

-----------------------------------------------------------------------------
Times(times, first, last) ==
    Cardinality({i \in DOMAIN times : times[i] \in first .. last})

HoldsSlot(h, p, c) ==
    ProcessOf(h) = p /\ serving[h].pc \in {"limit", "release"} /\ serving[h].client = c

\* In no window, short of the time requests wait for a lock, are more let in than
\* the limit: of the chunks of an upload, by all workers together, whatever the
\* cleaner prunes ("Per-upload chunk throttle (DB-backed, shared across workers)",
\* README.md); and of a client's requests, by one worker, although a bucket is
\* swept by its last hit and not by its newest.  The first needs a RateWindow no
\* shorter than ChunkWindow, and its window has both ends.
RatesHold ==
    \A from \in 0 .. clock :
        /\ Times(chunksIn, from, from + (ChunkWindow - Lag)) <= ChunkLimit
        /\ \A p \in Processes, c \in Clients :
              Times(letIn[p][c], from + 1, from + (RateWindow - Lag)) <= ClientLimit

\* A client's slots are those of its requests that are still running: however
\* they end, and while others of it come and go, none is kept, none given back
\* twice, and no more are handed out than there are.
SlotsGivenBack ==
    \A p \in Processes, c \in Clients :
        /\ slotsOf[p][c] = Cardinality({h \in Serving : HoldsSlot(h, p, c)})
        /\ slotsOf[p][c] <= Slots
=============================================================================
