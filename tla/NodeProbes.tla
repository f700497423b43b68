----------------------------- MODULE NodeProbes -----------------------------
(***************************************************************************)
(* The probes of a board: taps on its wires (sim-kernel/src/probe.rs), the *)
(* node's log of what they accepted with the window of the coarse stream   *)
(* (probe_log.rs), and its answers to queries and CSV exports (probe.rs).  *)
(* "pin" is a digital probe that samples changes; "tx" is a UART probe     *)
(* that samples every word.                                                *)
(***************************************************************************)
EXTENDS Integers, Sequences, FiniteSets, SequencesExt

CONSTANTS MemCap, \* PROBE_MEM_CAP: samples of a probe kept in memory
          CsvCap  \* QUERY_BUFFER: chunks a queue of CSV chunks holds

ASSUME MemAssumption == MemCap \in Nat \ {0}
ASSUME CsvAssumption == CsvCap \in Nat \ {0}

VARIABLES tap,     \* probe -> the sample the node has not taken yet, if any
          level,   \* the value the digital tap accepted last
          log,     \* ProbeLog
          watch,   \* the probes whose samples are published
          samples, \* samples published, on their way to the server
          toNode,  \* latest and range queries on their way to the node
          replies, \* and its answers
          csvToNode,  \* CSV exports on their way to the node
          csvReplies, \* and their chunks on their way to the arbiter
          csvOut,  \* the export the node is sending, if any
          exported \* ghost: export id -> the records exported, how many a queue overwrote

probeVars == <<tap, level, log, watch, samples, toNode, replies, csvToNode, csvReplies, csvOut,
               exported>>

Probes == {"pin", "tx"}
Nothing == <<>>

ProbeInit ==
    /\ tap = [pin |-> <<[probe |-> "pin", time |-> 0, value |-> "Low"]>>, tx |-> Nothing]
    /\ level = "Low"
    /\ log = [memory |-> [p \in Probes |-> <<>>], spill |-> <<>>, truncated |-> FALSE,
              running |-> FALSE, window |-> <<>>, latest |-> [p \in Probes |-> Nothing]]
    /\ watch = {} /\ samples = <<>> /\ toNode = <<>> /\ replies = <<>>
    /\ csvToNode = <<>> /\ csvReplies = <<>> /\ csvOut = Nothing /\ exported = <<>>

-----------------------------------------------------------------------------
(* ProbeTap::on_input: an accepted value replaces one not yet taken.        *)

DrivePin(levels, time) ==
    IF \E i \in DOMAIN levels : levels[i] # level
        THEN /\ level' = Last(levels)
             /\ tap' = [tap EXCEPT !.pin = <<[probe |-> "pin", time |-> time, value |-> Last(levels)]>>]
        ELSE UNCHANGED <<level, tap>>

-----------------------------------------------------------------------------
(* ProbeLog.                                                                *)

AtCap(l, probe) == Len(l.memory[probe]) >= MemCap

\* The oldest sample in memory goes to the end of the file.
SpillOldest(l, probe) ==
    [l EXCEPT !.memory[probe] = Tail(@), !.spill = Append(@, Head(l.memory[probe]))]

\* The samples of the window that a new one leaves there.
Beside(rec, window) == SelectSeq(window, LAMBDA r : r.probe # rec.probe \/ rec.probe = "tx")

\* push: a full memory spills its oldest sample; once that has failed, a probe that is
\* full takes no more.  The window keeps the last sample of a pin and every word.
Push(l, rec, spills) ==
    LET others == Beside(rec, l.window)
        room == IF AtCap(l, rec.probe) THEN SpillOldest(l, rec.probe) ELSE l
    IN  IF AtCap(l, rec.probe) /\ (l.truncated \/ ~spills) THEN [l EXCEPT !.truncated = TRUE]
        ELSE [room EXCEPT !.memory[rec.probe] = Append(@, rec), !.latest[rec.probe] = <<rec>>,
                          !.window = IF l.running THEN Append(others, rec) ELSE @]

\* ingest of what the taps hold, one after the other.
PushHeld(l, held, spills) == IF held = Nothing THEN l ELSE Push(l, held[1], spills)
Ingest(l, taken, spills) == PushHeld(PushHeld(l, taken.pin, spills), taken.tx, spills)

\* export and load_export: the file, and then what is in memory.
Export(l) == l.spill \o l.memory["pin"] \o l.memory["tx"]

Watched(recs) == SelectSeq(recs, LAMBDA rec : rec.probe \in watch)

\* Mutant: the open window is dropped.
SetRunningDrops(on) ==
    log' = [log EXCEPT !.running = on, !.window = <<>>] /\ UNCHANGED samples

\* set_running: leaving the run publishes the open window, entering it clears the window.
SetRunning(on) ==
    /\ log' = [log EXCEPT !.running = on, !.window = IF on = log.running THEN @ ELSE <<>>]
    /\ samples' = IF log.running /\ ~on THEN samples \o Watched(log.window) ELSE samples

-----------------------------------------------------------------------------
(* Queries.                                                                 *)

LatestOf(probes) == FlattenSeq(SetToSeq({log.latest[p] : p \in probes}))
RangeContains(range, time) == range.from <= time /\ time <= range.to
RangeRecords(query) ==
    SelectSeq(Export(log), LAMBDA rec : rec.probe \in query.probes /\ RangeContains(query, rec.time))

\* answer_query: the latest sample of each probe, or those of a range of time.
Found(query) == IF query.kind = "latest" THEN LatestOf(query.probes) ELSE RangeRecords(query)

\* send_query_reply: one record in a message, the last one marked; an export's chunks
\* have the same form.
Chunk(id, recs, last, truncated) ==
    [id |-> id, recs |-> recs, last |-> last, truncated |-> truncated]
Reply(id, recs) ==
    IF recs = <<>> THEN <<Chunk(id, <<>>, TRUE, log.truncated)>>
    ELSE [i \in DOMAIN recs |-> Chunk(id, <<recs[i]>>, i = Len(recs), log.truncated)]

ServiceQueries ==
    /\ toNode' = <<>>
    /\ replies' = replies \o FlattenSeq([i \in DOMAIN toNode |-> Reply(toNode[i].id, Found(toNode[i]))])

-----------------------------------------------------------------------------
(* CSV exports.  Unlike the replies of queries their chunks do not wait for *)
(* room: a queue that is full gives its oldest chunk up for the next one.   *)

Room(queue) == IF Len(queue) < CsvCap THEN queue ELSE Tail(queue)
Overwritten(queue, exports) ==
    IF Len(queue) < CsvCap THEN exports
    ELSE [exports EXCEPT ![Head(queue).id].overwritten = @ + Len(Head(queue).recs)]

\* service_csv: an export that arrives while another is being sent is dropped; one chunk
\* of one record leaves in every pass, and in the code up to 4 of up to 32.
ServiceCsv ==
    LET begins == csvOut = Nothing /\ csvToNode # <<>>
        out == IF begins THEN <<[id |-> Head(csvToNode), recs |-> Export(log),
                                 truncated |-> log.truncated]>>
               ELSE csvOut
        rest == IF out = Nothing \/ out[1].recs = <<>> THEN <<>> ELSE Tail(out[1].recs)
        first == IF out[1].recs = <<>> THEN <<>> ELSE <<Head(out[1].recs)>>
        chunk == Chunk(out[1].id, first, rest = <<>>, out[1].truncated)
        begun == IF begins THEN [i \in DOMAIN exported \cup {out[1].id} |->
                                    IF i = out[1].id THEN [recs |-> out[1].recs, overwritten |-> 0]
                                    ELSE exported[i]]
                 ELSE exported
    IN  /\ csvToNode' = <<>>
        /\ csvOut' = IF rest = <<>> THEN Nothing ELSE <<[out[1] EXCEPT !.recs = rest]>>
        /\ IF out = Nothing THEN UNCHANGED <<csvReplies, exported>>
           ELSE /\ csvReplies' = Append(Room(csvReplies), chunk)
                /\ exported' = Overwritten(csvReplies, begun)
=============================================================================
