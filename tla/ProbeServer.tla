---------------------------- MODULE ProbeServer ----------------------------
(***************************************************************************)
(* The probe side of the session server (server.rs): the live view of the  *)
(* watched probes, the queries it blocks on, and the one CSV export.  As   *)
(* in SessionServer its worker runs one job at a time and polls after it.  *)
(***************************************************************************)
EXTENDS NodeActions, NodeProbes

CONSTANT KeepBatches \* WATCH_PENDING_KEEP

ASSUME KeepAssumption == KeepBatches \in Nat \ {0}

VARIABLES srv,     \* the watch, its batches and the CSV job
          worker,  \* "free", "poll", or the query it blocks on
          watches, queries, \* on their way to the arbiter
          csvToServer, \* chunks of CSV exports on their way from it
          arbAt    \* where the arbiter is in forward_probe_ctrl

serverVars == <<srv, worker, watches, queries, csvToServer, arbAt>>

NoJob == [id |-> 0, done |-> TRUE, failed |-> FALSE, expired |-> FALSE, recs |-> <<>>]
Free == [at |-> "free", recs |-> <<>>]

ServerInit ==
    /\ srv = [watch |-> {}, batches |-> <<>>, nextSeq |-> 1, nextId |-> 1, job |-> NoJob]
    /\ worker = Free /\ watches = <<>> /\ queries = <<>> /\ csvToServer = <<>> /\ arbAt = "watch"

\* Something a poll would find.
AfterJob == IF samples # <<>> \/ csvToServer # <<>> THEN [Free EXCEPT !.at = "poll"] ELSE Free

PushBatch(s, seq, recs) ==
    LET all == IF recs = <<>> THEN s.batches ELSE Append(s.batches, [seq |-> seq, recs |-> recs])
    IN  [s EXCEPT !.batches = IF Len(all) > KeepBatches THEN Tail(all) ELSE all]

-----------------------------------------------------------------------------
(* Queries.  The worker sends one and waits; its answers are collected      *)
(* until the last one, and a query that is not answered in time is given up.*)

LatestQuery(probes) == [kind |-> "latest", probes |-> probes]
RangeQuery(probes, from, to) == [kind |-> "range", probes |-> probes, from |-> from, to |-> to]

\* A job, of a handler, that ends in a query.
Ask(for, s, query) ==
    /\ queries' = Append(queries, [id |-> s.nextId] @@ query)
    /\ srv' = [s EXCEPT !.nextId = @ + 1]
    /\ worker' = [at |-> for, id |-> s.nextId, recs |-> <<>>, seq |-> s.nextSeq - 1]

\* One reply; those of earlier queries are skipped.
CollectReply ==
    /\ worker.at \in {"watcher", "reader"} /\ replies # <<>> /\ ~Head(replies).last
    /\ replies' = Tail(replies)
    /\ worker' = IF Head(replies).id = worker.id
                 THEN [worker EXCEPT !.recs = @ \o Head(replies).recs] ELSE worker
    /\ UNCHANGED <<srv, watches, queries, arbAt>>

\* The last of an earlier query.
SkipLast ==
    /\ worker.at \in {"watcher", "reader"} /\ replies # <<>> /\ Head(replies).last
    /\ Head(replies).id # worker.id /\ replies' = Tail(replies)
    /\ UNCHANGED <<worker, srv, watches, queries, arbAt>>

\* The last of this query: `all` is its answer, in the order of time.
Answered(for) ==
    /\ worker.at = for /\ replies # <<>> /\ Head(replies).last
    /\ Head(replies).id = worker.id /\ replies' = Tail(replies)
    /\ UNCHANGED <<watches, queries, arbAt>>
Answer == SortSeq(worker.recs \o Head(replies).recs, LAMBDA r, s : r.time < s.time)

-----------------------------------------------------------------------------
(* The live view.                                                           *)

\* The node is sent the whole set.
RefreshWatch(probes) == watches' = Append(watches, probes)

\* put_watch: the nodes are told, and then asked for the latest values.
PutWatch(probes) ==
    /\ worker.at = "free" /\ RefreshWatch(probes)
    /\ LET s == [srv EXCEPT !.watch = probes, !.nextSeq = @ + 1]
       IN  Ask("watcher", s, LatestQuery(probes))
    /\ UNCHANGED arbAt

SnapshotWatch ==
    /\ Answered("watcher") /\ srv' = PushBatch(srv, worker.seq, Answer) /\ worker' = AfterJob

ClearWatch ==
    /\ worker.at = "free" /\ RefreshWatch({}) /\ worker' = AfterJob
    /\ srv' = [srv EXCEPT !.watch = {}, !.batches = <<>>] /\ UNCHANGED <<queries, arbAt>>

\* live_watch hands out the batches past `after`, and forgets them all.
LiveWatch(after) == SelectSeq(srv.batches, LAMBDA batch : batch.seq > after)

-----------------------------------------------------------------------------
(* The CSV export.                                                          *)

\* start_csv, unless an export is under way.
StartCsv ==
    /\ worker.at = "free" /\ (srv.job.done \/ srv.job.expired)
    /\ csvToNode' = Append(csvToNode, srv.nextId)
    /\ srv' = [srv EXCEPT !.nextId = @ + 1,
                          !.job = [NoJob EXCEPT !.id = srv.nextId, !.done = FALSE]]
    /\ worker' = AfterJob /\ UNCHANGED <<watches, queries, arbAt>>

\* Mutant: any chunk is the current export's.
GatheredAny(recs, id, chunks) ==
    LET upTo[n \in 0..Len(chunks)] ==
            IF n = 0 THEN recs ELSE upTo[n - 1] \o chunks[n].recs
    IN  upTo[Len(chunks)]

\* recs with the records of the chunks of export id, in their order.
Gathered(recs, id, chunks) ==
    LET upTo[n \in 0..Len(chunks)] ==
            IF n = 0 THEN recs
            ELSE IF chunks[n].id = id THEN upTo[n - 1] \o chunks[n].recs ELSE upTo[n - 1]
    IN  upTo[Len(chunks)]

\* ingest_csv_replies: the chunks of this export, until the last; or its deadline.
IngestCsv(job, chunks) ==
    LET all == \E i \in DOMAIN chunks : chunks[i].id = job.id /\ chunks[i].last
    IN  IF job.done THEN job
        ELSE [job EXCEPT !.recs = Gathered(@, job.id, chunks),
                         !.done = all \/ job.expired, !.failed = ~all /\ job.expired]

FanoutLive(live) ==
    IF live = <<>> THEN srv ELSE PushBatch([srv EXCEPT !.nextSeq = @ + 1], srv.nextSeq, live)

\* poll_probes and ingest_csv_replies.  Nobody reads the chunks of an export that is done.
PollProbes ==
    LET live == SelectSeq(samples, LAMBDA rec : rec.probe \in srv.watch)
        polled == FanoutLive(live)
    IN  /\ worker.at \in {"free", "poll"} /\ worker' = Free
        /\ samples' = <<>> /\ csvToServer' = IF srv.job.done THEN csvToServer ELSE <<>>
        /\ srv' = [polled EXCEPT !.job = IngestCsv(@, csvToServer)]
        /\ UNCHANGED <<watches, queries, arbAt>>

-----------------------------------------------------------------------------
(* forward_probe_ctrl: watches first, then queries, then the chunks of CSV  *)
(* exports.  The replies of queries, which wait for room, go their way in   *)
(* order and are left in one queue; so are the requests for exports.        *)

ForwardQueries ==
    /\ arbAt = "query" /\ arbAt' = "watch" /\ toNode' = toNode \o queries /\ queries' = <<>>
    /\ UNCHANGED <<srv, worker, watches, csvToServer>>

\* One chunk.
ForwardCsv ==
    /\ arbAt = "watch" /\ csvReplies # <<>> /\ csvReplies' = Tail(csvReplies)
    /\ csvToServer' = Append(Room(csvToServer), Head(csvReplies))
    /\ exported' = Overwritten(csvToServer, exported)
    /\ UNCHANGED <<srv, worker, watches, queries, arbAt>>
=============================================================================
